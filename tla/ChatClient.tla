----------------------------- MODULE ChatClient -----------------------------
(***************************************************************************)
(* The native test client, nr_client.cpp: one thread runs the io_context   *)
(* (reads, a queue of writes, the timer of the pose updates), the main     *)
(* thread reads lines until the input ends, then calls close() and joins.  *)
(*                                                                         *)
(* The queue is the classic one: the front is popped when its write has    *)
(* ended, so one async_write is outstanding at a time and the client       *)
(* writes a MessageStream whatever the kernel takes at once.  An           *)
(* async_write is one operation here, which the kernel serves in parts.    *)
(*                                                                         *)
(* Timers are looked at when the reactor is polled, once per round of the  *)
(* FIFO of handlers: a tick that was queued has run before the next.       *)
(***************************************************************************)
EXTENDS Integers, Sequences, FiniteSets, SequencesExt

CONSTANTS
    ServerFrames, \* frames of a server in the order of NetworkRoom (a bound)
    AnyFrames,    \* frames of a server that sends them in any order (a bound)
    MaxUpdates,   \* expirations of the timer in a behaviour (a bound)
    Parts,        \* pieces of a 64 KB message that the kernel may take
    MayBreak      \* whether the connection may fail or be refused

Frames == { "HANDSHAKE_HELLO", "HANDSHAKE_CREDENTIALS", "PARTICIPANT_JOIN",
            "PARTICIPANT_NEW", "PARTICIPANT_UPDATE_ACK", "PARTICIPANT_LEAVE" }
Names == { "unset", "service_id", "participant_id" }  \* what participant_id_ holds
Messages == [head : { "HELLO_ACK", "CREDENTIALS_ACK", "UPDATE_ACK" }, id : Names \cup {"zero"}]

ASSUME ChatAssumption == /\ ServerFrames \in Nat /\ ServerFrames >= 3 /\ AnyFrames \in 0 .. ServerFrames
                         /\ MaxUpdates \in Nat /\ Parts \in Nat \ {0}
                         /\ MayBreak \in BOOLEAN

VARIABLES
    orderly,              \* the server sends in the order of NetworkRoom (chosen by Init)
    main,                 \* the main thread: "typing", "joining" or "done"
    running,              \* io_context.run() has not returned
    ready,                \* the FIFO of completion handlers
    connecting,           \* the async_connect is outstanding
    sock,                 \* socket_: "unconnected", "open" or "closed"
    broken,               \* the connection failed or the server closed it
    received,             \* frames of the server read
    reading,              \* the async_read is outstanding
    deque_write_buffer_,  \* messages, by number
    writing,              \* the async_write of the front is outstanding
    written,              \* parts of the front the kernel has taken
    waits,                \* async_waits of the timer outstanding
    participant_id_,
    outbox,               \* history: the messages handed to write_byte
    wire                  \* history: the parts the kernel took

netVars   == << connecting, sock, broken, received, reading >>
writeVars == << deque_write_buffer_, writing, written, wire >>
vars == << orderly, main, running, ready, netVars, writeVars, waits, participant_id_, outbox >>

MaxMessages == ServerFrames + MaxUpdates
Numbers     == 1 .. MaxMessages
Handlers == [type : { "connect", "connect_error", "read_error", "write", "write_error",
                      "tick", "tick_aborted", "close" }]
            \cup [type : {"read"}, frame : Frames]
            \cup [type : {"push"}, message : Numbers]
Do(type)   == [type |-> type]
Read(f)    == [type |-> "read", frame |-> f]
Push(m)    == [type |-> "push", message |-> m]

Runs(h) == running /\ ready # << >> /\ Head(ready) = h
Return(posted) == ready' = Tail(ready) \o posted
Queued(type) == { i \in DOMAIN ready : ready[i].type = type }

\* What the server may send next.
Opening == << "HANDSHAKE_HELLO", "HANDSHAKE_CREDENTIALS", "PARTICIPANT_JOIN" >>
Offered ==
    IF orderly
    THEN IF received < 3 THEN { Opening[received + 1] }
         ELSE { f \in Frames : received < ServerFrames /\ ~Contains(Opening, f) }
    ELSE { f \in Frames : received < AnyFrames }

Init == /\ orderly \in BOOLEAN
        /\ main = "typing" /\ running = TRUE /\ ready = << >>
        /\ connecting = TRUE /\ sock = "unconnected" /\ broken = FALSE /\ received = 0 /\ reading = FALSE
        /\ deque_write_buffer_ = << >> /\ writing = FALSE /\ written = 0
        /\ waits = 0 /\ participant_id_ = "unset" /\ outbox = << >> /\ wire = << >>

-----------------------------------------------------------------------------
(* The network: completions of the operations outstanding.                 *)

Works == sock = "open" /\ ~broken

Connects == /\ connecting /\ sock = "unconnected"
            /\ connecting' = FALSE /\ sock' = "open"
            /\ ready' = Append(ready, Do("connect"))
            /\ UNCHANGED << orderly, main, running, broken, received, reading, writeVars,
                            waits, participant_id_, outbox >>

\* Refused by the server, or aborted by close().
ConnectFails == /\ connecting /\ (MayBreak \/ sock = "closed")
                /\ connecting' = FALSE
                /\ ready' = Append(ready, Do("connect_error"))
                /\ UNCHANGED << orderly, main, running, sock, broken, received, reading, writeVars,
                                waits, participant_id_, outbox >>

Breaks == /\ MayBreak /\ Works
          /\ broken' = TRUE
          /\ UNCHANGED << orderly, main, running, ready, connecting, sock, received, reading, writeVars,
                          waits, participant_id_, outbox >>

FrameArrives ==
    /\ reading /\ Works
    /\ \E f \in Offered : ready' = Append(ready, Read(f))
    /\ received' = received + 1 /\ reading' = FALSE
    /\ UNCHANGED << orderly, main, running, connecting, sock, broken, writeVars, waits, participant_id_, outbox >>

ReadFails == /\ reading /\ ~Works
             /\ ready' = Append(ready, Do("read_error"))
             /\ reading' = FALSE
             /\ UNCHANGED << orderly, main, running, connecting, sock, broken, received, writeVars,
                             waits, participant_id_, outbox >>

KernelTakes ==
    /\ writing /\ Works
    /\ \E n \in 1 .. Parts - written :
          /\ wire' = wire \o [i \in 1 .. n |-> << Head(deque_write_buffer_), written + i >>]
          /\ IF written + n < Parts
             THEN written' = written + n /\ UNCHANGED << writing, ready >>
             ELSE written' = 0 /\ writing' = FALSE /\ ready' = Append(ready, Do("write"))
    /\ UNCHANGED << orderly, main, running, netVars, deque_write_buffer_, waits, participant_id_, outbox >>

WriteFails == /\ writing /\ ~Works
              /\ ready' = Append(ready, Do("write_error"))
              /\ writing' = FALSE
              /\ UNCHANGED << orderly, main, running, netVars, deque_write_buffer_, written, wire,
                              waits, participant_id_, outbox >>

TimerExpires ==
    /\ running /\ waits > 0 /\ Queued("tick") = {}
    /\ Cardinality({ i \in DOMAIN outbox : outbox[i].head = "UPDATE_ACK" }) < MaxUpdates
    /\ waits' = waits - 1
    /\ ready' = Append(ready, Do("tick"))
    /\ UNCHANGED << orderly, main, running, netVars, writeVars, participant_id_, outbox >>

-----------------------------------------------------------------------------
(* chat_client.                                                            *)

\* write_byte posts a handler that pushes the message and, if the deque was
\* empty, starts to write it.
WriteByte(head, id) == outbox' = Append(outbox, [head |-> head, id |-> id])
Written == Push(Len(outbox) + 1)

\* Mutant of BeginUpdate: a timer of its own for every call, as in the line
\* that is commented out; nothing cancels the others.
SeparateTimer(posted) == /\ waits' = waits + 1
                         /\ Return(posted)

\* begin_participant_update: expires_after cancels the wait in progress, whose
\* handler is queued with operation_aborted.
BeginUpdate(posted) == /\ waits' = 1
                       /\ Return(posted \o [i \in 1 .. waits |-> Do("tick_aborted")])

\* do_connect's handler.
Connected == /\ Runs(Do("connect"))
             /\ reading' = TRUE
             /\ Return(<< >>)
             /\ UNCHANGED << orderly, main, running, connecting, sock, broken, received, writeVars,
                             waits, participant_id_, outbox >>

\* Mutant of Hello: the greeting is sent back under its own head.
HelloEchoed == /\ Runs(Read("HANDSHAKE_HELLO"))
               /\ participant_id_' = "service_id"
               /\ WriteByte("HELLO", "service_id")
               /\ Return(<< Written >>) /\ reading' = TRUE
               /\ UNCHANGED << orderly, main, running, connecting, sock, broken, received, writeVars, waits >>

\* The handler of do_read_byte: every branch reads on.
Hello == /\ Runs(Read("HANDSHAKE_HELLO"))
         /\ participant_id_' = "service_id"
         /\ WriteByte("HELLO_ACK", "service_id")
         /\ Return(<< Written >>) /\ reading' = TRUE
         /\ UNCHANGED << orderly, main, running, connecting, sock, broken, received, writeVars, waits >>

\* Mutant of Credentials: the request is printed and not answered.
CredentialsIgnored == /\ Runs(Read("HANDSHAKE_CREDENTIALS"))
                      /\ Return(<< >>) /\ reading' = TRUE
                      /\ UNCHANGED << orderly, main, running, connecting, sock, broken, received,
                                      writeVars, waits, participant_id_, outbox >>

Credentials == /\ Runs(Read("HANDSHAKE_CREDENTIALS"))
               /\ WriteByte("CREDENTIALS_ACK", "zero")
               /\ Return(<< Written >>) /\ reading' = TRUE
               /\ UNCHANGED << orderly, main, running, connecting, sock, broken, received, writeVars,
                               waits, participant_id_ >>

\* Mutant of Join: the id of PARTICIPANT_JOIN is not kept.
JoinForgets == /\ Runs(Read("PARTICIPANT_JOIN"))
               /\ BeginUpdate(<< >>) /\ reading' = TRUE
               /\ UNCHANGED << orderly, main, running, connecting, sock, broken, received, writeVars,
                               participant_id_, outbox >>

Join == /\ Runs(Read("PARTICIPANT_JOIN"))
        /\ participant_id_' = "participant_id"
        /\ BeginUpdate(<< >>) /\ reading' = TRUE
        /\ UNCHANGED << orderly, main, running, connecting, sock, broken, received, writeVars, outbox >>

\* PARTICIPANT_NEW and the updates of others are printed, the rest ignored.
Printed == /\ \E f \in { "PARTICIPANT_NEW", "PARTICIPANT_UPDATE_ACK", "PARTICIPANT_LEAVE" } :
                 Runs(Read(f))
           /\ Return(<< >>) /\ reading' = TRUE
           /\ UNCHANGED << orderly, main, running, connecting, sock, broken, received, writeVars,
                           waits, participant_id_, outbox >>

\* What failed posts the close; the timer is not touched.
Fails == /\ \E type \in { "connect_error", "read_error", "write_error" } : Runs(Do(type))
         /\ Return(<< Do("close") >>)
         /\ UNCHANGED << orderly, main, running, netVars, writeVars, waits, participant_id_, outbox >>

\* Mutant of Close: the socket stays open.
CloseForgotten == /\ Runs(Do("close"))
                  /\ Return(<< >>)
                  /\ UNCHANGED << orderly, main, running, netVars, writeVars, waits, participant_id_, outbox >>

\* socket_.close(): what is outstanding on it fails.
Close == /\ Runs(Do("close"))
         /\ sock' = "closed"
         /\ Return(<< >>)
         /\ UNCHANGED << orderly, main, running, connecting, broken, received, reading, writeVars,
                         waits, participant_id_, outbox >>

\* Mutant of Tick: the timer is not set again.
TickOnce == /\ Runs(Do("tick"))
            /\ WriteByte("UPDATE_ACK", participant_id_)
            /\ Return(<< Written >>)
            /\ UNCHANGED << orderly, main, running, netVars, writeVars, waits, participant_id_ >>

\* The timer: an update is handed over and the timer is set again.
Tick == /\ Runs(Do("tick"))
        /\ WriteByte("UPDATE_ACK", participant_id_)
        /\ BeginUpdate(<< Written >>)
        /\ UNCHANGED << orderly, main, running, netVars, writeVars, participant_id_ >>

TickAborted == /\ Runs(Do("tick_aborted"))
               /\ Return(<< >>)
               /\ UNCHANGED << orderly, main, running, netVars, writeVars, waits, participant_id_, outbox >>

Pushed == \E m \in Numbers :
    /\ Runs(Push(m))
    /\ deque_write_buffer_' = Append(deque_write_buffer_, m)
    /\ writing' = (writing \/ deque_write_buffer_ = << >>)
    /\ Return(<< >>)
    /\ UNCHANGED << orderly, main, running, netVars, written, wire, waits, participant_id_, outbox >>

\* Mutant of WriteHandler: the buffer is popped, the next one is not written.
WriteHandlerStops ==
    /\ Runs(Do("write"))
    /\ deque_write_buffer_' = Tail(deque_write_buffer_)
    /\ Return(<< >>)
    /\ UNCHANGED << orderly, main, running, netVars, writing, written, wire, waits, participant_id_, outbox >>
\* Mutant of WriteHandler: the next one is written, the buffer is not popped.
WriteHandlerRepeats ==
    /\ Runs(Do("write"))
    /\ writing' = TRUE
    /\ Return(<< >>)
    /\ UNCHANGED << orderly, main, running, netVars, deque_write_buffer_, written, wire,
                    waits, participant_id_, outbox >>

\* do_write_byte's handler: pop the front, write the next.
WriteHandler ==
    /\ Runs(Do("write"))
    /\ deque_write_buffer_' = Tail(deque_write_buffer_)
    /\ writing' = (Tail(deque_write_buffer_) # << >>)
    /\ Return(<< >>)
    /\ UNCHANGED << orderly, main, running, netVars, written, wire, waits, participant_id_, outbox >>

-----------------------------------------------------------------------------
(* main and the end of run().                                              *)

\* The input ends: close() posts, join() waits.
InputEnds == /\ main = "typing"
             /\ main' = "joining"
             /\ ready' = Append(ready, Do("close"))
             /\ UNCHANGED << orderly, running, netVars, writeVars, waits, participant_id_, outbox >>

\* run() returns when nothing is queued and nothing outstanding.
OutOfWork == ready = << >> /\ ~connecting /\ ~reading /\ ~writing /\ waits = 0
RunReturns == /\ running /\ OutOfWork
              /\ running' = FALSE
              /\ UNCHANGED << orderly, main, ready, netVars, writeVars, waits, participant_id_, outbox >>

Joins == /\ main = "joining" /\ ~running
         /\ main' = "done"
         /\ UNCHANGED << orderly, running, ready, netVars, writeVars, waits, participant_id_, outbox >>

-----------------------------------------------------------------------------
IoThread == \/ Connected \/ Hello \/ Credentials \/ Join \/ Printed \/ Fails
            \/ Close \/ Tick \/ TickAborted \/ Pushed \/ WriteHandler \/ RunReturns

Network == Connects \/ ConnectFails \/ FrameArrives \/ ReadFails \/ KernelTakes \/ WriteFails

Next == IoThread \/ Network \/ TimerExpires \/ Breaks \/ InputEnds \/ Joins

Spec == Init /\ [][Next]_vars

\* run() takes what is ready; operations on a closed or broken socket fail, the
\* kernel takes what is written, the timer expires, join returns.  The server
\* need not send and the input need not end.
FairSpec == /\ Spec /\ WF_vars(IoThread) /\ WF_vars(TimerExpires) /\ WF_vars(Joins)
            /\ WF_vars(Connects \/ ConnectFails) /\ WF_vars(ReadFails)
            /\ WF_vars(KernelTakes) /\ WF_vars(WriteFails)

-----------------------------------------------------------------------------
(* Properties.                                                             *)

\* The values every variable may take.
TypeOK == /\ orderly \in BOOLEAN /\ main \in { "typing", "joining", "done" } /\ running \in BOOLEAN
          /\ ready \in Seq(Handlers) /\ connecting \in BOOLEAN
          /\ sock \in { "unconnected", "open", "closed" } /\ broken \in BOOLEAN
          /\ received \in 0 .. ServerFrames /\ reading \in BOOLEAN
          /\ deque_write_buffer_ \in Seq(Numbers) /\ writing \in BOOLEAN
          /\ written \in 0 .. Parts - 1
          /\ waits \in Nat /\ participant_id_ \in Names
          /\ outbox \in Seq(Messages) /\ wire \in Seq(Numbers \X (1 .. Parts))

\* What is handed to write_byte goes on the wire in that order, whole and once,
\* however the kernel cuts it and whatever fails.
Promise == INSTANCE MessageStream WITH accepted <- Len(outbox)
WritesTheStream == Promise!Spec

\* However often PARTICIPANT_JOIN comes, and whatever ticks are queued then,
\* the updates do not multiply: one wait is armed, and a tick that was queued
\* beside it cancels it.
OneTimer == waits <= 1 /\ waits + Cardinality(Queued("tick")) <= 2

\* With the frames in the server's order every update names the participant
\* as PARTICIPANT_JOIN did, although HELLO puts the service's id in its place.
UpdatesNameParticipant ==
    orderly => \A i \in DOMAIN outbox : outbox[i].head = "UPDATE_ACK" => outbox[i].id = "participant_id"

\* With the frames in the server's order the client answers as the handshake
\* loop of the server expects it, and its updates follow; it never sends
\* PARTICIPANT_JOIN_ACK, so the room is not told of it, nor it of the room.
AnswersInTurn ==
    orderly => \A i \in DOMAIN outbox :
        outbox[i].head = CASE i = 1 -> "HELLO_ACK" [] i = 2 -> "CREDENTIALS_ACK"
                            [] OTHER -> "UPDATE_ACK"

\* The chain of updates is broken by nothing: no frame, no error, no close().
\* (So the process of a client that has joined does not end by itself.)
Updating == waits > 0 \/ Queued("tick") # {}
UpdatesGoOn == [][Updating => Updating']_vars

\* A client that has not begun its updates ends when its input does.
Quits == main = "joining" ~> main = "done" \/ Updating

\* Everything handed to write_byte is written while the connection works.
AllWritten == \A m \in Numbers :
    Len(outbox) >= m ~> (\E i \in DOMAIN wire : wire[i] = << m, Parts >>) \/ ~Works
=============================================================================
