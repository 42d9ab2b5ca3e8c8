---------------------------- MODULE SessionWrite ----------------------------
(***************************************************************************)
(* How one nr_session of the server writes.  The room calls deliver_byte,  *)
(* which posts a handler; the handler pushes the buffer on the deque and   *)
(* do_write_byte pops it and starts an async_write.  An async_write is a   *)
(* composed operation: it sends what the kernel takes, and when that is    *)
(* not all, a handler of its own starts the next attempt.                  *)
(*                                                                         *)
(* The buffer is popped before the write has ended, so the deque is empty  *)
(* again when the handler returns, and the next delivery starts a write    *)
(* beside the one in progress.  And the popped pointer is a local of       *)
(* do_write_byte that the handler of async_write does not hold: the buffer *)
(* is freed when the handler that called do_write_byte returns.  Only the  *)
(* first attempt, made in that call, sends the bytes of the message; an    *)
(* attempt that waited or goes on sends what the memory then holds, which  *)
(* may be anything, or fails because it is not mapped any more.            *)
(*                                                                         *)
(* The model does not guess those bytes.  The wire is a sequence of places *)
(* <<message, part>> and own says how many parts of each message were sent *)
(* from its own buffer; nothing is claimed of the bytes in other places.   *)
(***************************************************************************)
EXTENDS Integers, Sequences, SequencesExt

CONSTANTS
    MaxMessages,  \* calls of deliver_byte in a behaviour (a bound)
    Parts,        \* pieces of a 64 KB message that the kernel may take
    Takes,        \* how many pieces it takes in one attempt
    Window        \* pieces it holds before the peer reads

Numbers == 1 .. MaxMessages

ASSUME WriteAssumption == /\ MaxMessages \in Nat /\ Parts \in Nat \ {0}
                          /\ Takes \subseteq 1 .. Parts
                          /\ Window \in Nat /\ Window >= Parts

VARIABLES
    accepted,             \* messages delivered; a message is its number
    member,               \* the session is in the room, which delivers to it
    conn,                 \* "open", "broken" by the peer or the network, "closed" by do_close
    ready,                \* the FIFO of the io thread, this session's handlers
    deque_write_buffer_,
    written,              \* write_op's total_transferred, in parts, of each message
    own,                  \* of those, the parts sent while the buffer was alive
    ops,                  \* the reactor's FIFO of writes that wait for the socket
    speculative,          \* the reactor's try_speculative_: the last attempt was not cut short
    wire,                 \* what the kernel took, as places <<message, part>>
    taken                 \* how many of those the peer has read

vars == << accepted, member, conn, ready, deque_write_buffer_, written, own, ops,
           speculative, wire, taken >>

Handlers == [type : {"deliver", "step", "error"}, message : Numbers]
Handler(type, m) == [type |-> type, message |-> m]
Return(posted) == ready' = Tail(ready) \o posted
Runs(type, m) == ready # << >> /\ Head(ready) = Handler(type, m)

Init == /\ accepted = 0 /\ member = TRUE /\ conn = "open"
        /\ ready = << >> /\ deque_write_buffer_ = << >>
        /\ written = [m \in Numbers |-> 0] /\ own = written
        /\ ops = << >> /\ speculative = TRUE
        /\ wire = << >> /\ taken = 0

-----------------------------------------------------------------------------
(* The kernel and asio's reactor.                                          *)

Space == Window - (Len(wire) - taken)
Sendable(m) == { n \in Takes : n <= Space /\ n <= Parts - written[m] }

\* Mutant of Take: the count of the last attempt is added twice.
TakeCountedTwice(m, n, alive) ==
    /\ wire' = wire \o [i \in 1 .. n |-> << m, written[m] + i >>]
    /\ written' = [written EXCEPT ![m] = @ + n + n]
    /\ own' = IF alive THEN [own EXCEPT ![m] = @ + n] ELSE own
    /\ speculative' = (n = Parts - written[m])

\* The kernel takes n parts of m, from its buffer or from freed memory.
Take(m, n, alive) ==
    /\ wire' = wire \o [i \in 1 .. n |-> << m, written[m] + i >>]
    /\ written' = [written EXCEPT ![m] = @ + n]
    /\ own' = IF alive THEN [own EXCEPT ![m] = @ + n] ELSE own
    /\ speculative' = (n = Parts - written[m])

\* async_write_some: an attempt at once if no write waits before it and the
\* socket was writable last time, else it waits for the reactor.  Freed memory
\* may not be mapped: the attempt fails.  The handler that calls it returns and
\* posted what it posted before.
AsyncWriteSome(m, alive) ==
    \/ /\ conn # "open" \/ (~alive /\ ops = << >> /\ speculative)
       /\ Return(<< Handler("error", m) >>)
       /\ UNCHANGED << written, own, ops, speculative, wire >>
    \/ /\ conn = "open" /\ ops = << >> /\ speculative
       /\ \E n \in Sendable(m) : Take(m, n, alive)
       /\ Return(<< Handler("step", m) >>)
       /\ UNCHANGED ops
    \/ /\ conn = "open" /\ (ops # << >> \/ ~speculative \/ Sendable(m) = {})
       /\ ops' = Append(ops, m)
       /\ Return(<< >>)
       /\ UNCHANGED << written, own, speculative, wire >>

\* The socket is writable: the first waiting write is performed.  The handler
\* that began it has returned, its buffer is freed.
Writable ==
    /\ conn = "open" /\ ops # << >> /\ Space > 0
    /\ \/ /\ \E n \in Sendable(Head(ops)) : Take(Head(ops), n, FALSE)
          /\ ready' = Append(ready, Handler("step", Head(ops)))
       \/ /\ ready' = Append(ready, Handler("error", Head(ops)))
          /\ UNCHANGED << written, own, speculative, wire >>
    /\ ops' = Tail(ops)
    /\ UNCHANGED << accepted, member, conn, deque_write_buffer_, taken >>

WritableAgain ==
    /\ conn = "open" /\ ops = << >> /\ ~speculative /\ Space > 0
    /\ speculative' = TRUE
    /\ UNCHANGED << accepted, member, conn, ready, deque_write_buffer_, written, own, ops, wire, taken >>

PeerReads ==
    /\ conn = "open" /\ taken < Len(wire)
    /\ taken' = Len(wire)
    /\ UNCHANGED << accepted, member, conn, ready, deque_write_buffer_, written, own, ops, speculative, wire >>

\* Every write that waits fails: the peer is gone, or do_close aborted it.
Fail(why) ==
    /\ conn = "open"
    /\ conn' = why
    /\ ready' = ready \o [i \in DOMAIN ops |-> Handler("error", ops[i])]
    /\ ops' = << >>
    /\ UNCHANGED << accepted, member, deque_write_buffer_, written, own, speculative, wire, taken >>
ConnectionBreaks == Fail("broken")

-----------------------------------------------------------------------------
(* nr_session.                                                             *)

\* Mutant of Posted: the handler is dispatched ahead of those posted before.
Dispatched(m) == << Handler("deliver", m) >> \o ready

Posted(m) == Append(ready, Handler("deliver", m))

\* deliver_byte, called by the room for a member.
DeliverByte ==
    /\ member /\ accepted < MaxMessages
    /\ accepted' = accepted + 1
    /\ ready' = Posted(accepted + 1)
    /\ UNCHANGED << member, conn, deque_write_buffer_, written, own, ops, speculative, wire, taken >>

\* do_write_byte: pop the front and start to write it.  The local pointer keeps
\* the buffer alive until the call returns.
DoWriteByte(deque) ==
    /\ AsyncWriteSome(Head(deque), TRUE)
    /\ deque_write_buffer_' = Tail(deque)

\* Mutant of PushAndWrite: the test for a write in progress is the wrong way round.
PushAndWait(m) ==
    IF deque_write_buffer_ # << >>
    THEN DoWriteByte(Append(deque_write_buffer_, m))
    ELSE /\ deque_write_buffer_' = Append(deque_write_buffer_, m)
         /\ Return(<< >>)
         /\ UNCHANGED << written, own, ops, speculative, wire >>

PushAndWrite(m) ==
    IF deque_write_buffer_ = << >>
    THEN DoWriteByte(<< m >>)
    ELSE /\ deque_write_buffer_' = Append(deque_write_buffer_, m)
         /\ Return(<< >>)
         /\ UNCHANGED << written, own, ops, speculative, wire >>

\* The handler deliver_byte posted.
Delivered(m) ==
    /\ Runs("deliver", m)
    /\ PushAndWrite(m)
    /\ UNCHANGED << accepted, member, conn, taken >>

\* The composed operation goes on with what the kernel has not taken, from the
\* address it was given: the buffer there is freed.
WriteOn(m) ==
    /\ Runs("step", m) /\ written[m] < Parts
    /\ AsyncWriteSome(m, FALSE)
    /\ UNCHANGED << accepted, member, conn, deque_write_buffer_, taken >>

\* The handler of a write that succeeded.
WriteHandler(m) ==
    /\ Runs("step", m) /\ written[m] = Parts
    /\ IF deque_write_buffer_ # << >>
       THEN DoWriteByte(deque_write_buffer_)
       ELSE /\ Return(<< >>)
            /\ UNCHANGED << deque_write_buffer_, written, own, ops, speculative, wire >>
    /\ UNCHANGED << accepted, member, conn, taken >>

\* The handler of a write that failed leaves the room.
WriteErrorHandler(m) ==
    /\ Runs("error", m)
    /\ member' = FALSE
    /\ Return(<< >>)
    /\ UNCHANGED << accepted, conn, deque_write_buffer_, written, own, ops, speculative, wire, taken >>

\* disconnect: do_close closes the socket under whatever is in progress.
Disconnect == Fail("closed")

-----------------------------------------------------------------------------
IoThread == \E m \in Numbers : \/ Delivered(m) \/ WriteOn(m)
                               \/ WriteHandler(m) \/ WriteErrorHandler(m)

Next == \/ DeliverByte \/ IoThread \/ Disconnect
        \/ Writable \/ WritableAgain \/ PeerReads \/ ConnectionBreaks

Spec == Init /\ [][Next]_vars

\* The io thread runs what is ready and the reactor reports a socket that stays
\* writable.  That the peer reads is the scenario of the liveness property.
FairSpec == Spec /\ WF_vars(IoThread) /\ WF_vars(Writable) /\ WF_vars(PeerReads)

-----------------------------------------------------------------------------
(* Properties.                                                             *)

\* The values every variable may take.
TypeOK == /\ accepted \in 0 .. MaxMessages /\ member \in BOOLEAN
          /\ conn \in { "open", "broken", "closed" }
          /\ ready \in Seq(Handlers) /\ deque_write_buffer_ \in Seq(Numbers)
          /\ written \in [Numbers -> 0 .. Parts]
          /\ own \in [Numbers -> 0 .. Parts] /\ \A m \in Numbers : own[m] <= written[m]
          /\ ops \in Seq(Numbers) /\ speculative \in BOOLEAN
          /\ wire \in Seq(Numbers \X (1 .. Parts)) /\ taken \in 0 .. Len(wire)

\* The places that hold bytes of their message, sent from its living buffer.
OwnPlaces == { i \in DOMAIN wire : wire[i][2] <= own[wire[i][1]] }

\* However writes are cut and run beside each other (session.hpp:66, :228), the
\* bytes a reader gets of any message come in the order of deliver_byte, each
\* one once.  Between them there may be anything.
OwnBytesInOrder ==
    \A i, j \in OwnPlaces :
        i < j => \/ wire[i][1] < wire[j][1]
                 \/ wire[i][1] = wire[j][1] /\ wire[i][2] < wire[j][2]

\* Up to the first message that the kernel did not take whole in the call of
\* do_write_byte, the reader gets the stream it counts on: each message whole,
\* in its place, nothing in between.
Promise == INSTANCE MessageStream
StreamUntilCut ==
    \A k \in 0 .. MaxMessages :
        (\A m \in 1 .. k : own[m] = Parts)
        => /\ k * Parts <= Len(wire)
           /\ \A i \in 1 .. k * Parts : wire[i] = Promise!Stream(k)[i]

\* No delivery is left waiting in the deque or the reactor: as many bytes as the
\* message has are written, or a write has failed and the session leaves the
\* room, while the connection holds and the peer reads.
WritesEnd ==
    \A m \in Numbers : accepted >= m ~> written[m] = Parts \/ ~member \/ conn # "open"
=============================================================================
