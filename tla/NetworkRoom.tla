----------------------------- MODULE NetworkRoom -----------------------------
(***************************************************************************)
(* The XRNetwork server between its acceptor and its room: nr_server's     *)
(* accept loop, handshake_session, nr_session and network_room, run by the *)
(* one thread that calls io_context_.run(), beside the console thread,     *)
(* which changes the capacity and disconnects everybody.                   *)
(*                                                                         *)
(* asio keeps the completion handlers that are ready in a FIFO.  The io    *)
(* thread takes the first one, runs it to its end, and whatever it posts   *)
(* goes to the back.  One item of the FIFO is the reactor's turn: when it  *)
(* reaches the head the io thread polls, the handlers of the operations    *)
(* that have completed are queued, and the item goes to the back again.    *)
(* An action is one handler, one completion, one move of a peer (seen at a *)
(* poll, and so taken there) or one step of the console at any moment.     *)
(*                                                                         *)
(* Messages are abstracted to their head, the id and the descriptor they   *)
(* carry.  The 64-bit random id a session draws in join is abstracted to   *)
(* the session's own number: fresh, never 0.  A PARTICIPANT_JOIN_ACK names *)
(* its sender and the size of its own text: no client of the repository    *)
(* sends one, so none sends another.                                       *)
(***************************************************************************)
EXTENDS Integers, Sequences, FiniteSets, SequencesExt

CONSTANTS
    MaxSessions,     \* connections accepted in a behaviour (a bound)
    AcceptMayFail,   \* whether async_accept may report an error
    MaxSweeps,       \* disconnect-all commands of the console (a bound)
    SlowPeers,       \* sessions whose peer lets writes wait
    Script,          \* Script[s][k]: what the k-th frame of peer s may be
    Quitters,        \* sessions whose peer may close or lose the connection
    Capacities,      \* the values max_participants_ takes
    InitialCapacity  \* its value when the service starts

Sessions == 1 .. MaxSessions
Ids      == 0 .. MaxSessions   \* 0: m_id of a session that has not joined

\* An oversized HELLO_ACK names a configuration that reaches beyond its frame,
\* as the layout of XRNetworkProtocol.cs makes the Unity client's.
HelloAcks == { "HANDSHAKE_HELLO_ACK", "HANDSHAKE_HELLO_ACK_OVERSIZED" }
Frames == HelloAcks \cup
          { "CREDENTIALS_GOOD", "CREDENTIALS_BAD",
            "PARTICIPANT_JOIN_ACK", "PARTICIPANT_NEW_ACK",
            "PARTICIPANT_UPDATE_ACK", "PARTICIPANT_LEAVE_ACK", "OTHER" }
Loops       == { "handshake", "room" }  \* do_read_handshake, do_read_byte
\* "overlong": more than the 20 KB of ST_PARTICIPANT_NEW's descriptor_buffer.
Descriptors == { "empty", "configuration", "json", "overlong" }
\* "garbled": whatever a peer makes of a message sent from freed memory.
Knowledge   == { "unknown", "self", "garbled" } \cup Descriptors

ASSUME BoundsAssumption == MaxSessions \in Nat /\ MaxSweeps \in Nat
ASSUME PeersAssumption == /\ Script \in [Sessions -> Seq(SUBSET Frames)]
                          /\ Quitters \subseteq Sessions
                          /\ SlowPeers \subseteq Sessions
                          /\ AcceptMayFail \in BOOLEAN
ASSUME CapacityAssumption == /\ Capacities \subseteq Nat
                             /\ InitialCapacity \in Capacities

VARIABLES
    svc,                \* "running", "ended" (run() left) or "crashed"
    accepting,          \* an async_accept is outstanding
    ready,              \* asio's FIFO of ready completion handlers
    sock,               \* m_socket_ptr of each session
    m_id,               \* 0 until join draws it
    m_descriptor,       \* what the session knows about its participant
    reads,              \* the read loops with an async_read outstanding
    writes,             \* how many async_writes are outstanding
    participants_,      \* the members of the room
    max_participants_,
    sweep,              \* sessions the console's for_each has yet to visit
    torn,               \* participants_ changed under the console's for_each
    sweeps,             \* disconnect-all commands issued
    peer,               \* the other end of each connection
    sent,               \* frames of each peer read so far
    told,               \* history: what each session handed its peer about whom
    loggedIn,           \* history: sessions that sent the right credentials
    announced           \* history: sessions whose JOIN_ACK was handled

loopVars    == << svc, accepting, ready >>
sessionVars == << sock, m_id, m_descriptor, reads, writes >>
roomVars    == << participants_, max_participants_ >>
consoleVars == << sweep, torn, sweeps >>
peerVars    == << peer, sent, told >>
historyVars == << loggedIn, announced >>
vars == << loopVars, sessionVars, roomVars, consoleVars, peerVars, historyVars >>

-----------------------------------------------------------------------------
(* Messages and completion handlers.                                       *)

Heads == { "HANDSHAKE_HELLO", "HANDSHAKE_CREDENTIALS", "PARTICIPANT_JOIN",
           "PARTICIPANT_NEW", "PARTICIPANT_UPDATE_ACK", "PARTICIPANT_LEAVE" }
Messages == [head : Heads, participant_id : Ids, descriptor : Descriptors]

Message(head, id) ==
    [head |-> head, participant_id |-> id, descriptor |-> "empty"]
ParticipantNew(s, descriptor) ==
    [head |-> "PARTICIPANT_NEW", participant_id |-> m_id[s], descriptor |-> descriptor]

Handlers == [type : {"poll"}]
    \cup [type : {"accept"}, session : Ids]
    \cup [type : {"read"}, session : Sessions, loop : Loops, frame : Frames \cup {"error"}]
    \cup [type : {"write"}, session : Sessions]
    \cup [type : {"deliver"}, session : Sessions, message : Messages]

Poll == [type |-> "poll"]
Accepted(s)        == [type |-> "accept", session |-> s]  \* 0: an accept error
ReadDone(s, l, f)  == [type |-> "read", session |-> s, loop |-> l, frame |-> f]
WriteError(s)      == [type |-> "write", session |-> s]
Delivery(s, m)     == [type |-> "deliver", session |-> s, message |-> m]

\* deliver_byte called for every member of S, in the order of the set.
DeliverToAll(S, m) ==
    [i \in 1 .. Cardinality(S) |-> Delivery(SetToSeq(S)[i], m)]

\* The io thread returns from the handler at the head of the queue.
Return(posted) == ready' = Tail(ready) \o posted

QueuedFor(s, types) ==
    { i \in DOMAIN ready : ready[i].type \in types /\ ready[i].session = s }

\* A session lives while the room, an operation in progress or a queued
\* completion holds a shared_ptr to it; a posted delivery holds only `this`.
Alive(s) == \/ s \in participants_
            \/ reads[s] # {}
            \/ writes[s] > 0
            \/ QueuedFor(s, {"accept", "read", "write"}) # {}

-----------------------------------------------------------------------------
(* network_room and the parts of a session its handlers share.             *)

Find(id)    == { t \in participants_ : m_id[t] = id }  \* get_participant_ptr
Without(id) == participants_ \ Find(id)                \* the set orders by m_id

RoomBecomes(S) ==
    /\ participants_' = S
    /\ torn' = (torn \/ (sweep # {} /\ S # participants_))

\* Mutants of Departure: nobody is told; everybody is told but nobody erased.
SilentDeparture(id) == RoomBecomes(Without(id)) /\ Return(<< >>)
FarewellOnly(id) ==
    /\ RoomBecomes(participants_)
    /\ Return(DeliverToAll(Without(id), Message("PARTICIPANT_LEAVE", id)))

\* erase, then PARTICIPANT_LEAVE to those who stay (leave, disconnect_participant).
Departure(id) ==
    /\ RoomBecomes(Without(id))
    /\ Return(DeliverToAll(Without(id), Message("PARTICIPANT_LEAVE", id)))

\* Mutant of Introductions: the descriptor of the JOIN_ACK is saved after it is
\* sent.
StaleIntroductions(s) ==
    LET others == SetToSeq(Without(m_id[s]))
    IN  DeliverToAll(Without(m_id[s]), ParticipantNew(s, m_descriptor[s]))
        \o [i \in DOMAIN others |->
               Delivery(s, ParticipantNew(others[i], m_descriptor[others[i]]))]

\* new_paticipant_to_all, then send_list_of_players to the newcomer itself.
Introductions(s) ==
    LET others == SetToSeq(Without(m_id[s]))
    IN  DeliverToAll(Without(m_id[s]), ParticipantNew(s, "json"))
        \o [i \in DOMAIN others |->
               Delivery(s, ParticipantNew(others[i], m_descriptor[others[i]]))]

IsOpen(s) == sock[s] = "open"

\* Mutant of Close: an operation aborted is counted twice.
CloseTwice(s, n) == /\ sock' = [sock EXCEPT ![s] = "closed"]
                    /\ writes' = [writes EXCEPT ![s] = @ - n - 1]

\* do_close.  The operations outstanding are aborted: their handlers are queued
\* at once, except those of a composed operation that has a step of its own in
\* the queue, which fail at a later poll.  n writes are of the first kind.
Close(s, n) == /\ sock' = [sock EXCEPT ![s] = "closed"]
               /\ writes' = [writes EXCEPT ![s] = @ - n]
AbortedWrites(s, n) == [i \in 1 .. n |-> WriteError(s)]

\* What an async_read of s may complete with now.
Arrivals(s) ==
    { f \in Frames : /\ sent[s] < Len(Script[s]) /\ f \in Script[s][sent[s] + 1]
                     /\ f = "PARTICIPANT_JOIN_ACK" => told[s][s] \in {"self", "garbled"} }
    \cup { f \in {"error"} : peer[s] = "gone" }

\* async_read: on a closed socket it fails at once; on an open one it waits for
\* the reactor.  EarlyRead adds the attempt asio makes while it starts the read,
\* whose handler is queued ahead of everything the caller posts afterwards.
StartRead(s, l, open) == IF open THEN << >> ELSE << ReadDone(s, l, "error") >>
EarlyRead(s, l, open) ==
    { StartRead(s, l, open) }
    \cup { << ReadDone(s, l, f) >> : f \in IF open THEN Arrivals(s) ELSE {} }
\* Mutant of Reading: the handshake's loop reads on beside the room's.
ReadingBothLoops(s, l, started) ==
    /\ reads' = [reads EXCEPT ![s] = @ \cup { "handshake", l }]
    /\ sent' = [sent EXCEPT ![s] =
                  IF started # << >> /\ started[1].frame \in Frames THEN @ + 1 ELSE @]

Reading(s, l, started) ==
    /\ reads' = [reads EXCEPT ![s] = IF started = << >> THEN @ \cup {l} ELSE @]
    /\ sent' = [sent EXCEPT ![s] =
                  IF started # << >> /\ started[1].frame \in Frames THEN @ + 1 ELSE @]

-----------------------------------------------------------------------------
Init ==
    /\ svc = "running" /\ accepting = TRUE /\ ready = << Poll >>
    /\ sock = [s \in Sessions |-> "none"]
    /\ m_id = [s \in Sessions |-> 0]
    /\ m_descriptor = [s \in Sessions |-> "empty"]
    /\ reads = [s \in Sessions |-> {}]
    /\ writes = [s \in Sessions |-> 0]
    /\ participants_ = {} /\ max_participants_ = InitialCapacity
    /\ sweep = {} /\ torn = FALSE /\ sweeps = 0
    /\ peer = [s \in Sessions |-> "away"]
    /\ sent = [s \in Sessions |-> 0]
    /\ told = [s \in Sessions |-> [id \in Ids |-> "unknown"]]
    /\ loggedIn = {} /\ announced = {}

-----------------------------------------------------------------------------
(* The peers and the reactor, at a poll.                                   *)

Polling == svc = "running" /\ ready # << >> /\ Head(ready) = Poll

Broken(s) == peer[s] = "gone" \/ ~IsOpen(s)

\* Writes the kernel takes at once: those of a connected peer that reads.
\* The handler of a write that succeeds finds the deque empty and does nothing,
\* and is taken with the completion.  (A delivery queued ahead of it would run
\* first and hold the session with a write of its own.)
Taken(s) == ~Broken(s) /\ s \notin SlowPeers /\ QueuedFor(s, {"deliver"}) = {}

\* The poll is over when every broken connection is reported; with nothing
\* queued it waits for an event.
PollEnds ==
    /\ Polling /\ Tail(ready) # << >>
    /\ \A s \in Sessions : Broken(s) => reads[s] = {} /\ (writes[s] = 0 \/ s \in SlowPeers)
    /\ writes' = [s \in Sessions |-> IF Taken(s) THEN 0 ELSE writes[s]]
    /\ ready' = Append(Tail(ready), Poll)
    /\ UNCHANGED << svc, accepting, sock, m_id, m_descriptor, reads,
                    roomVars, consoleVars, peerVars, historyVars >>

\* Connections are numbered in the order they are accepted.
Connect(s) ==
    /\ Polling /\ accepting
    /\ peer[s] = "away" /\ \A t \in Sessions : t < s => peer[t] # "away"
    /\ peer' = [peer EXCEPT ![s] = "connected"]
    /\ sock' = [sock EXCEPT ![s] = "open"]
    /\ accepting' = FALSE
    /\ ready' = Append(ready, Accepted(s))
    /\ UNCHANGED << svc, m_id, m_descriptor, reads, writes, sent, told,
                    roomVars, consoleVars, historyVars >>

AcceptFails ==
    /\ Polling /\ AcceptMayFail /\ accepting
    /\ accepting' = FALSE
    /\ ready' = Append(ready, Accepted(0))
    /\ UNCHANGED << svc, sessionVars, roomVars, consoleVars, peerVars, historyVars >>

PeerCloses(s) ==
    /\ Polling /\ s \in Quitters /\ peer[s] = "connected"
    /\ peer' = [peer EXCEPT ![s] = "gone"]
    /\ UNCHANGED << loopVars, sessionVars, roomVars, consoleVars, sent, told, historyVars >>

ReadCompletes(s, l, f) ==
    /\ reads' = [reads EXCEPT ![s] = @ \ {l}]
    /\ ready' = Append(ready, ReadDone(s, l, f))
    /\ UNCHANGED << svc, accepting, sock, m_id, m_descriptor, writes,
                    roomVars, consoleVars, peer, told, historyVars >>

ReadSucceeds(s) ==
    /\ Polling /\ IsOpen(s)
    /\ \E l \in reads[s], f \in Arrivals(s) \ {"error"} :
          /\ ReadCompletes(s, l, f)
          /\ sent' = [sent EXCEPT ![s] = @ + 1]

\* End of file or reset, or the socket was closed under the read.
ReadFails(s) ==
    /\ Polling /\ Broken(s)
    /\ \E l \in reads[s] : ReadCompletes(s, l, "error")
    /\ UNCHANGED sent

\* One write of a slow peer, or of one that has closed only its own direction.
WriteSucceeds(s) ==
    /\ Polling /\ IsOpen(s) /\ writes[s] > 0 /\ ~Taken(s)
    /\ QueuedFor(s, {"deliver"}) = {}
    /\ writes' = [writes EXCEPT ![s] = @ - 1]
    /\ UNCHANGED << loopVars, sock, m_id, m_descriptor, reads,
                    roomVars, consoleVars, peerVars, historyVars >>

WriteFails(s) ==
    /\ Polling /\ Broken(s) /\ writes[s] > 0
    /\ writes' = [writes EXCEPT ![s] = @ - 1]
    /\ ready' = Append(ready, WriteError(s))
    /\ UNCHANGED << svc, accepting, sock, m_id, m_descriptor, reads,
                    roomVars, consoleVars, peerVars, historyVars >>

\* A write that waits for the socket goes on from memory that is freed (btp of
\* do_write_byte was the last to hold the buffer), which may be gone: EFAULT.
FreedWriteFails(s) ==
    /\ Polling /\ IsOpen(s) /\ s \in SlowPeers /\ writes[s] > 0
    /\ writes' = [writes EXCEPT ![s] = @ - 1]
    /\ ready' = Append(ready, WriteError(s))
    /\ UNCHANGED << svc, accepting, sock, m_id, m_descriptor, reads,
                    roomVars, consoleVars, peerVars, historyVars >>

-----------------------------------------------------------------------------
(* The accept handler: nr_server::do_accept.                               *)

\* An accept error is logged; async_accept is not called again.
AcceptError ==
    /\ svc = "running" /\ ready # << >> /\ Head(ready) = Accepted(0)
    /\ Return(<< >>)
    /\ UNCHANGED << svc, accepting, sessionVars, roomVars, consoleVars, peerVars, historyVars >>

\* remote_endpoint() throws when the peer has reset the connection, and the
\* exception leaves run(): thread_function logs it and the thread ends.
StartThrows(s) ==
    /\ svc = "running" /\ ready # << >> /\ Head(ready) = Accepted(s)
    /\ peer[s] = "gone"
    /\ svc' = "ended"
    /\ Return(<< >>)
    /\ UNCHANGED << accepting, sessionVars, roomVars, consoleVars, peerVars, historyVars >>

\* start(): the first read is armed, HELLO is posted, and the server accepts again.
StartHandshake(s) ==
    /\ svc = "running" /\ ready # << >> /\ Head(ready) = Accepted(s)
    /\ \E started \in EarlyRead(s, "handshake", TRUE) :
          /\ Reading(s, "handshake", started)
          /\ Return(started \o << Delivery(s, Message("HANDSHAKE_HELLO", m_id[s])) >>)
    /\ accepting' = TRUE
    /\ UNCHANGED << svc, sock, m_id, m_descriptor, writes,
                    roomVars, consoleVars, peer, told, historyVars >>

-----------------------------------------------------------------------------
(* The read handler of the handshake: handshake_session::do_read_handshake. *)

HandshakeReads(s, F) ==
    /\ svc = "running" /\ ready # << >>
    /\ \E f \in F : Head(ready) = ReadDone(s, "handshake", f)

\* The configuration is copied behind what m_descriptor holds already, so that
\* a second one may make it longer than any buffer it will be copied to.
Configured(s, f) ==
    IF f = "HANDSHAKE_HELLO_ACK" /\ m_descriptor[s] = "empty" THEN {"configuration"}
    ELSE {"overlong"} \cup (IF f = "HANDSHAKE_HELLO_ACK" THEN {m_descriptor[s]} ELSE {})

HelloAck(s) ==
    /\ \E f \in HelloAcks : /\ HandshakeReads(s, {f})
                            /\ \E descriptor \in Configured(s, f) :
                                  m_descriptor' = [m_descriptor EXCEPT ![s] = descriptor]
    /\ \E started \in EarlyRead(s, "handshake", IsOpen(s)) :
          /\ Reading(s, "handshake", started)
          /\ Return(<< Delivery(s, Message("HANDSHAKE_CREDENTIALS", 0)) >> \o started)
    /\ UNCHANGED << svc, accepting, sock, m_id, writes,
                    roomVars, consoleVars, peer, told, historyVars >>

\* As many bytes are copied as the frame names.  Behind its end the copy reads
\* what the heap holds, if it does not run into memory that is not mapped, or
\* out of memory for m_descriptor (bad_alloc ends the thread).
HelloAckOverreads(s) ==
    /\ HandshakeReads(s, {"HANDSHAKE_HELLO_ACK_OVERSIZED"})
    /\ svc' \in { "ended", "crashed" }
    /\ m_descriptor' = [m_descriptor EXCEPT ![s] = "overlong"]
    /\ Return(<< >>)
    /\ UNCHANGED << accepting, sock, m_id, reads, writes,
                    roomVars, consoleVars, peerVars, historyVars >>

\* A frame of no use in the handshake: the loop reads on.
HandshakeIgnores(s) ==
    /\ HandshakeReads(s, Frames \ (HelloAcks \cup {"CREDENTIALS_GOOD", "CREDENTIALS_BAD"}))
    /\ \E started \in EarlyRead(s, "handshake", IsOpen(s)) :
          /\ Reading(s, "handshake", started)
          /\ Return(started)
    /\ UNCHANGED << svc, accepting, sock, m_id, m_descriptor, writes,
                    roomVars, consoleVars, peer, told, historyVars >>

HandshakeReadError(s) ==
    /\ HandshakeReads(s, {"error"})
    /\ \E n \in 0 .. writes[s] : Close(s, n) /\ Return(AbortedWrites(s, n))
    /\ UNCHANGED << svc, accepting, m_id, m_descriptor, reads,
                    roomVars, consoleVars, peerVars, historyVars >>

-----------------------------------------------------------------------------
(* CREDENTIALS_ACK: check_handshake_credentials_ack and network_room::join. *)
(* A wrong login disconnects but does not return: the room loop's read is  *)
(* started and join is called whatever the credentials were.               *)

\* Mutants of RoomFull: one member too few, a capacity read once.
RoomFullTooSoon == Cardinality(participants_) + 1 >= max_participants_
RoomFullStale   == Cardinality(participants_) >= InitialCapacity

RoomFull == Cardinality(participants_) >= max_participants_

\* Mutant of PassesCredentials: a wrong login is not disconnected.
AnyLoginPasses(s, f) == IsOpen(s)

\* The socket as join finds it.
PassesCredentials(s, f) == f = "CREDENTIALS_GOOD" /\ IsOpen(s)

Credentials == { "CREDENTIALS_GOOD", "CREDENTIALS_BAD" }
Presented(s) ==
    { f \in Credentials : svc = "running" /\ ready # << >>
                          /\ Head(ready) = ReadDone(s, "handshake", f) }

CredentialsAck(s, f, started) ==
    /\ loggedIn' = IF f = "CREDENTIALS_GOOD" THEN loggedIn \cup {s} ELSE loggedIn
    /\ Reading(s, "room", started)
    /\ UNCHANGED << accepting, m_descriptor, max_participants_, sweeps, peer, told, announced >>

\* The room is full: the session is disconnected, and PARTICIPANT_JOIN with the
\* id 0 it still has is posted to it all the same, behind the handler of the
\* read the disconnection aborts.
JoinFull(s) == \E f \in Presented(s) :
    \E started \in EarlyRead(s, "room", PassesCredentials(s, f))
                   \cup { StartRead(s, "room", FALSE) } :
        /\ CredentialsAck(s, f, started)
        /\ RoomFull
        /\ \E n \in 0 .. writes[s] :
              /\ Close(s, n)
              /\ Return(started \o AbortedWrites(s, n)
                        \o << Delivery(s, Message("PARTICIPANT_JOIN", m_id[s])) >>)
        /\ UNCHANGED << svc, m_id, participants_, sweep, torn >>

\* set_keep_alive throws on a closed socket, and the exception leaves run().
JoinThrows(s) == \E f \in Presented(s) :
    \E started \in EarlyRead(s, "room", PassesCredentials(s, f)) :
        /\ CredentialsAck(s, f, started)
        /\ ~RoomFull /\ ~PassesCredentials(s, f)
        /\ m_id' = [m_id EXCEPT ![s] = s]
        /\ svc' = "ended"
        /\ \E n \in 0 .. writes[s] : Close(s, n) /\ Return(AbortedWrites(s, n) \o started)
        /\ UNCHANGED << participants_, sweep, torn >>

JoinAdmits(s) == \E f \in Presented(s) :
    \E started \in EarlyRead(s, "room", PassesCredentials(s, f)) :
        /\ CredentialsAck(s, f, started)
        /\ ~RoomFull /\ PassesCredentials(s, f)
        /\ m_id' = [m_id EXCEPT ![s] = s]
        /\ RoomBecomes(participants_ \cup {s})
        /\ sweep' \in { sweep, IF sweep = {} THEN {} ELSE sweep \cup {s} }
        /\ Return(started \o << Delivery(s, Message("PARTICIPANT_JOIN", s)) >>)
        /\ UNCHANGED << svc, sock, writes >>

-----------------------------------------------------------------------------
(* The read handler of the room: nr_session::do_read_byte.                 *)

RoomReads(s, F) ==
    /\ svc = "running" /\ ready # << >>
    /\ \E f \in F : Head(ready) = ReadDone(s, "room", f)

\* Mutant of ReadsOn: do_read_byte is not called again.
ReadsNoMore(s, posted) == Return(posted) /\ UNCHANGED << reads, sent >>

\* The handler posts, then reads on.
ReadsOn(s, posted) ==
    \E started \in EarlyRead(s, "room", IsOpen(s)) :
        /\ Reading(s, "room", started)
        /\ Return(posted \o started)

\* The participant is introduced to the room and the room to it; the null
\* pointer of an id that is not in the room is dereferenced.
JoinAck(s) ==
    /\ RoomReads(s, {"PARTICIPANT_JOIN_ACK"})
    /\ Find(s) # {}
    /\ m_descriptor' = [m_descriptor EXCEPT ![s] = "json"]
    /\ announced' = announced \cup {s}
    /\ ReadsOn(s, Introductions(s))
    /\ UNCHANGED << svc, accepting, sock, m_id, writes,
                    roomVars, consoleVars, peer, told, loggedIn >>

JoinAckOfStranger(s) ==
    /\ RoomReads(s, {"PARTICIPANT_JOIN_ACK"})
    /\ Find(s) = {}
    /\ svc' = "crashed"
    /\ m_descriptor' = [m_descriptor EXCEPT ![s] = "json"]
    /\ Return(<< >>)
    /\ UNCHANGED << accepting, sock, m_id, reads, writes,
                    roomVars, consoleVars, peerVars, historyVars >>

\* send_list_of_players copies the descriptor of each member, however long, into
\* a buffer of 20 KB on the stack: it crashes, or goes on as above.
JoinAckOverruns(s) ==
    /\ RoomReads(s, {"PARTICIPANT_JOIN_ACK"})
    /\ Find(s) # {} /\ \E t \in Without(m_id[s]) : m_descriptor[t] = "overlong"
    /\ svc' = "crashed"
    /\ m_descriptor' = [m_descriptor EXCEPT ![s] = "json"]
    /\ UNCHANGED << accepting, ready, sock, m_id, reads, writes,
                    roomVars, consoleVars, peerVars, historyVars >>

NewAck(s) ==
    /\ RoomReads(s, {"PARTICIPANT_NEW_ACK"})
    /\ ReadsOn(s, << >>)
    /\ UNCHANGED << svc, accepting, sock, m_id, m_descriptor, writes,
                    roomVars, consoleVars, peer, told, historyVars >>

\* The update goes as it came to everybody but the sender.
UpdateAck(s) ==
    /\ RoomReads(s, {"PARTICIPANT_UPDATE_ACK"})
    /\ ReadsOn(s, DeliverToAll(Without(m_id[s]), Message("PARTICIPANT_UPDATE_ACK", m_id[s])))
    /\ UNCHANGED << svc, accepting, sock, m_id, m_descriptor, writes,
                    roomVars, consoleVars, peer, told, historyVars >>

\* The participant leaves the room; its connection stays and is read on.
LeaveAck(s) ==
    /\ RoomReads(s, {"PARTICIPANT_LEAVE_ACK"})
    /\ Find(m_id[s]) # {}
    /\ RoomBecomes(Without(m_id[s]))
    /\ ReadsOn(s, DeliverToAll(Without(m_id[s]), Message("PARTICIPANT_LEAVE", m_id[s])))
    /\ UNCHANGED << svc, accepting, sock, m_id, m_descriptor, writes, max_participants_,
                    sweep, sweeps, peer, told, historyVars >>

\* disconnect_participant reads the id through the null pointer it found.
LeaveAckOfStranger(s) ==
    /\ RoomReads(s, {"PARTICIPANT_LEAVE_ACK"})
    /\ Find(m_id[s]) = {}
    /\ svc' = "crashed"
    /\ Return(<< >>)
    /\ UNCHANGED << accepting, sessionVars, roomVars, consoleVars, peerVars, historyVars >>

\* Any other frame disconnects; the read started on the closed socket fails.
OtherFrame(s) ==
    /\ RoomReads(s, HelloAcks \cup {"CREDENTIALS_GOOD", "CREDENTIALS_BAD", "OTHER"})
    /\ \E n \in 0 .. writes[s], started \in { StartRead(s, "room", FALSE) } :
          /\ Close(s, n)
          /\ Reading(s, "room", started)
          /\ Return(AbortedWrites(s, n) \o started)
    /\ UNCHANGED << svc, accepting, m_id, m_descriptor,
                    roomVars, consoleVars, peer, told, historyVars >>

RoomReadError(s) ==
    /\ RoomReads(s, {"error"})
    /\ Departure(m_id[s])
    /\ UNCHANGED << svc, accepting, sessionVars, max_participants_, sweep, sweeps,
                    peerVars, historyVars >>

-----------------------------------------------------------------------------
(* Posted deliveries and write handlers: deliver_byte, do_write_byte.  The  *)
(* buffer is pushed on deque_write_buffer_ and popped by do_write_byte in   *)
(* one handler, so the deque is empty between handlers and every delivery   *)
(* starts an async_write, whether or not one is in progress.  The buffer    *)
(* lives no longer than that handler: the kernel takes the message in the   *)
(* first attempt, or what it takes later is freed memory (SessionWrite).    *)

Learned(s, m) ==
    CASE m.head = "PARTICIPANT_JOIN"  -> [told[s] EXCEPT ![m.participant_id] = "self"]
      [] m.head = "PARTICIPANT_NEW"   -> [told[s] EXCEPT ![m.participant_id] = m.descriptor]
      [] m.head = "PARTICIPANT_LEAVE" -> [told[s] EXCEPT ![m.participant_id] = "unknown"]
      [] OTHER -> told[s]

Garbled == [id \in Ids |-> "garbled"]

Deliver(s) ==
    /\ svc = "running" /\ ready # << >>
    /\ \E m \in Messages :
          /\ Head(ready) = Delivery(s, m)
          /\ \/ ~IsOpen(s) /\ UNCHANGED told
             \/ IsOpen(s) /\ told' = [told EXCEPT ![s] = Learned(s, m)]
             \/ IsOpen(s) /\ s \in SlowPeers /\ told' = [told EXCEPT ![s] = Garbled]
    /\ Alive(s)
    /\ writes' = [writes EXCEPT ![s] = IF IsOpen(s) THEN @ + 1 ELSE @]
    /\ Return(IF IsOpen(s) THEN << >> ELSE << WriteError(s) >>)
    /\ UNCHANGED << svc, accepting, sock, m_id, m_descriptor, reads,
                    roomVars, consoleVars, peer, sent, historyVars >>

\* The handler holds a raw `this`: the session is gone, and its mutex, deque
\* and shared_from_this are used after their lifetime.  bad_weak_ptr ends the
\* thread, the freed memory crashes it, or nothing is noticed.
DeliverToDestroyed(s) ==
    /\ svc = "running" /\ ready # << >>
    /\ \E m \in Messages : Head(ready) = Delivery(s, m)
    /\ ~Alive(s)
    /\ svc' \in { "running", "ended", "crashed" }
    /\ Return(<< >>)
    /\ UNCHANGED << accepting, sessionVars, roomVars, consoleVars, peerVars, historyVars >>

WriteErrorHandler(s) ==
    /\ svc = "running" /\ ready # << >> /\ Head(ready) = WriteError(s)
    /\ Departure(m_id[s])
    /\ UNCHANGED << svc, accepting, sessionVars, max_participants_, sweep, sweeps,
                    peerVars, historyVars >>

-----------------------------------------------------------------------------
(* The console thread.                                                     *)

SetMaxParticipants(n) ==
    /\ svc = "running"
    /\ max_participants_' = n
    /\ UNCHANGED << loopVars, sessionVars, participants_, consoleVars, peerVars, historyVars >>

\* disconnect_all_participants walks participants_ without a lock, one session
\* at a time, while the io thread runs handlers.
DisconnectAll ==
    /\ svc = "running" /\ sweep = {} /\ sweeps < MaxSweeps
    /\ sweep' = participants_
    /\ sweeps' = sweeps + 1
    /\ torn' = FALSE
    /\ UNCHANGED << loopVars, sessionVars, roomVars, peerVars, historyVars >>

DisconnectNext(s) ==
    /\ svc = "running" /\ s \in sweep
    /\ sweep' = sweep \ {s}
    /\ IF ~Alive(s)
       THEN UNCHANGED << sock, reads, writes, ready >>
       ELSE \E now \in SUBSET reads[s], n \in 0 .. writes[s] :
              /\ Close(s, n)
              /\ reads' = [reads EXCEPT ![s] = @ \ now]
              /\ ready' = ready \o SetToSeq({ ReadDone(s, l, "error") : l \in now })
                                 \o AbortedWrites(s, n)
    /\ UNCHANGED << svc, accepting, m_id, m_descriptor, roomVars,
                    torn, sweeps, peerVars, historyVars >>

\* The set changed under the iterator: a data race.  The walk may go on as
\* above, stop short, or run into freed nodes.
DisconnectTorn ==
    /\ svc = "running" /\ sweep # {} /\ torn
    /\ sweep' = {}
    /\ svc' \in { "running", "crashed" }
    /\ UNCHANGED << accepting, ready, sessionVars, roomVars, torn, sweeps, peerVars, historyVars >>

-----------------------------------------------------------------------------
AcceptHandler == AcceptError \/ \E s \in Sessions : StartThrows(s) \/ StartHandshake(s)

HandshakeHandler(s) == \/ HelloAck(s) \/ HelloAckOverreads(s)
                       \/ HandshakeIgnores(s) \/ HandshakeReadError(s)
                       \/ JoinFull(s) \/ JoinThrows(s) \/ JoinAdmits(s)

RoomHandler(s) == \/ JoinAck(s) \/ JoinAckOfStranger(s) \/ JoinAckOverruns(s)
                  \/ NewAck(s) \/ UpdateAck(s)
                  \/ LeaveAck(s) \/ LeaveAckOfStranger(s) \/ OtherFrame(s) \/ RoomReadError(s)

DeliveryHandler(s) == \/ Deliver(s) \/ DeliverToDestroyed(s)
                      \/ WriteErrorHandler(s)

IoThread == \/ PollEnds
            \/ AcceptHandler
            \/ \E s \in Sessions : HandshakeHandler(s) \/ RoomHandler(s) \/ DeliveryHandler(s)

Reactor(s) == \/ ReadSucceeds(s) \/ ReadFails(s)
              \/ WriteSucceeds(s) \/ WriteFails(s) \/ FreedWriteFails(s)

Console == \/ \E n \in Capacities : SetMaxParticipants(n)
           \/ DisconnectAll \/ \E s \in Sessions : DisconnectNext(s)
           \/ DisconnectTorn

Next == \/ IoThread
        \/ \E s \in Sessions : Connect(s) \/ PeerCloses(s) \/ Reactor(s)
        \/ AcceptFails
        \/ Console

Spec == Init /\ [][Next]_vars

\* The io thread runs what is ready, the reactor reports the end of every
\* operation whose outcome is decided, and the console's for_each goes on.
\* Nobody is obliged to connect, to send, to close or to type a command.
Fairness == /\ WF_vars(IoThread)
            /\ \A s \in Sessions : SF_vars(ReadFails(s)) /\ SF_vars(WriteFails(s))
                                   /\ WF_vars(DisconnectNext(s))

FairSpec == Spec /\ Fairness

-----------------------------------------------------------------------------
(* Properties.                                                             *)

\* The values every variable may take.
TypeOK ==
    /\ svc \in { "running", "ended", "crashed" }
    /\ accepting \in BOOLEAN
    /\ ready \in Seq(Handlers)
    /\ sock \in [Sessions -> { "none", "open", "closed" }]
    /\ m_id \in [Sessions -> Ids]
    /\ m_descriptor \in [Sessions -> Descriptors]
    /\ reads \in [Sessions -> SUBSET Loops]
    /\ writes \in [Sessions -> Nat]
    /\ participants_ \subseteq Sessions
    /\ max_participants_ \in Nat
    /\ sweep \subseteq Sessions /\ torn \in BOOLEAN /\ sweeps \in Nat
    /\ peer \in [Sessions -> { "away", "connected", "gone" }]
    /\ sent \in [Sessions -> Nat]
    /\ told \in [Sessions -> [Ids -> Knowledge]]
    /\ loggedIn \subseteq Sessions /\ announced \subseteq Sessions

\* Only a session that sent the right login is ever in the room, although
\* check_handshake_credentials_ack calls join after a wrong one as well.
AdmittedOnlyWithLogin == participants_ \subseteq loggedIn

\* A session has at most one read outstanding or reported: the loops of the
\* handshake and of the room share read_buffer_, and the handshake's stops
\* for good when the room's starts.
OneReadLoop ==
    \A s \in Sessions :
        /\ \A k, l \in reads[s] : k = l
        /\ \A i, j \in QueuedFor(s, {"read"}) : i = j
        /\ reads[s] # {} => QueuedFor(s, {"read"}) = {}

\* Every member of the room is being read, so that the end of its connection
\* will be noticed: whichever handler stops the loop also leaves the room.
MembersAreRead ==
    \A s \in participants_ :
        \/ "room" \in reads[s]
        \/ \E i \in QueuedFor(s, {"read"}) : ready[i].loop = "room"

\* A PARTICIPANT_LEAVE on its way names nobody who is in the room: those who
\* are told of a departure are never told too early (leave, LEAVE_ACK).
FarewellsAreFinal ==
    \A i \in DOMAIN ready :
        /\ ready[i].type = "deliver"
        /\ ready[i].message.head = "PARTICIPANT_LEAVE"
        => Find(ready[i].message.participant_id) = {}

\* A member with nothing on its way to it believes in no participant that has
\* left, however the introductions and the departures were interleaved.  What
\* reaches a slow peer may be garbled.
NoGhosts ==
    \A t \in participants_ \ SlowPeers :
        IsOpen(t) /\ QueuedFor(t, {"deliver"}) = {}
        => \A s \in Sessions : told[t][s] \notin {"unknown", "self"} => s \in participants_

\* Two members that have both been announced know each other by the descriptor
\* of their JOIN_ACK, once what was posted to them is delivered.
MutualAwareness ==
    \A s, t \in participants_ \cap announced :
        /\ s # t /\ t \notin SlowPeers
        /\ IsOpen(t) /\ QueuedFor(t, {"deliver"}) = {}
        => told[t][s] = "json"

\* A client keeps to the protocol of protocol.hpp: it answers HELLO at most once,
\* in the layout the server reads, sends the right credentials once, nothing but
\* room messages after them, and neither introduces itself again nor leaves once
\* it has left.
RoomFrames == { "PARTICIPANT_JOIN_ACK", "PARTICIPANT_NEW_ACK",
                "PARTICIPANT_UPDATE_ACK", "PARTICIPANT_LEAVE_ACK" }
Presence   == { "PARTICIPANT_JOIN_ACK", "PARTICIPANT_LEAVE_ACK" }
KeepsToProtocol(script) ==
    /\ \A i \in DOMAIN script :
          script[i] \cap {"CREDENTIALS_BAD", "HANDSHAKE_HELLO_ACK_OVERSIZED"} = {}
    /\ \A i, j \in DOMAIN script : i < j =>
          /\ "HANDSHAKE_HELLO_ACK" \in script[i] => "HANDSHAKE_HELLO_ACK" \notin script[j]
          /\ "CREDENTIALS_GOOD" \in script[i] => script[j] \subseteq RoomFrames
          /\ "PARTICIPANT_LEAVE_ACK" \in script[i] => script[j] \cap Presence = {}

\* Every client does, none is dropped and none finds the room full.  A client
\* whose writes wait may be thrown out by one that fails on freed memory, and
\* must not name itself after that: it sends updates, as nr_client does.
Orderliness == /\ \A s \in Sessions : KeepsToProtocol(Script[s])
               /\ \A s \in SlowPeers : \A i \in DOMAIN Script[s] :
                     Script[s][i] \cap Presence = {}
               /\ Quitters = {} /\ MaxSweeps = 0
               /\ \A n \in Capacities : n >= MaxSessions

\* Orderly clients that stay connected never bring the service down, slow ones
\* and failing accepts included.  Without any of the premises the code may: the
\* Unity client, whose HELLO_ACK is oversized, is not orderly.
ServiceStaysUp == Orderliness => svc = "running"

\* The room keeps the contract of RoomContract.
Contract == INSTANCE RoomContract WITH
    Participants <- Sessions,
    RoomSizes    <- Capacities,
    room         <- participants_,
    left         <- { s \in Sessions : m_id[s] # 0 } \ participants_,
    known        <- loggedIn,
    capacity     <- max_participants_
KeepsContract == Contract!Spec

\* A connection that broke, or that the server closed, is let go: the session
\* leaves the room if it was in it and nothing holds it any longer.
BrokenAreReleased ==
    \A s \in Sessions : Broken(s) /\ peer[s] # "away" ~> ~Alive(s) \/ svc # "running"

\* What a member believes about somebody who has left is corrected in the end,
\* whether it left, broke off or was thrown out by a failed write.
GhostsVanish ==
    \A s \in Sessions, t \in Sessions \ SlowPeers :
        t \in participants_ /\ told[t][s] # "unknown" /\ s \notin participants_
        ~> \/ told[t][s] = "unknown" \/ t \notin participants_
           \/ ~IsOpen(t) \/ svc # "running"

-----------------------------------------------------------------------------
(* What the repository says of the program and the code does not do.       *)

\* participant.hpp: disconnect() is a "clean drop".  Dropping a client with a
\* wrong login, or one too many for the room, leaves the service running.
DropIsClean == svc = "running" \/ \A s \in Sessions : sock[s] # "closed"
=============================================================================
