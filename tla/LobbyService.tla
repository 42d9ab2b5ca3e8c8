---------------------------- MODULE LobbyService ----------------------------
(***************************************************************************)
(* The life of the service: the main thread of nr_service_console.cpp      *)
(* reads keys and calls start() and stop() of XRNetworkLobbyService, whose *)
(* thread makes an nr_server, announces it and runs the io_context.  Both  *)
(* threads share b_thread_running_, the server and the io_context; each    *)
(* step below is what one of them does between two points where the other  *)
(* may act.                                                                *)
(*                                                                         *)
(* The io_context outlives the servers.  stop() leaves in it the handlers  *)
(* that had not run; a server that starts later runs them, and those that  *)
(* refer to the old server or its room use freed memory.  A server and     *)
(* what refers to it carry the number of the start that made it.           *)
(*                                                                         *)
(* NetworkRoom models one serving: here a client is a session that is      *)
(* being accepted, in the handshake, a member of the room, or closed.      *)
(***************************************************************************)
EXTENDS Integers, Sequences, FiniteSets, SequencesExt

CONSTANTS
    MaxKeys,      \* keys n, s and c that a hasty user types (a bound)
    PatientKeys,  \* and a patient one (a bound)
    Clients,      \* clients that may connect, once each
    MayThrow      \* whether the port may be taken and a handler may throw

ASSUME ServiceAssumption == /\ MayThrow \in BOOLEAN
                            /\ MaxKeys \in Nat /\ PatientKeys \in Nat
                            /\ IsFiniteSet(Clients)

VARIABLES
    patient,             \* the user waits for what a key does before the next key, and
                         \* nothing throws (chosen by Init)
    process,             \* "up", "exited", "terminated" (std::terminate), "crashed"
    main,                \* where the main thread is
    quitting,            \* main has returned: the service is being destroyed
    keys,                \* keys typed so far
    slots,               \* slots connected to OnRunning
    b_instantiated,
    thread,              \* the thread that service_thread_ptr_ holds
    b_thread_running_,
    max_participants_,   \* of the lobby service
    server,              \* the server: number of its start (0: none yet), its room's
                         \* capacity and whether its acceptor is open
    stopped,             \* io_context_.stop() was called
    ready,               \* its FIFO of handlers
    accepting,           \* start whose async_accept is outstanding, or 0
    session              \* of each client: its state and the server it refers to

mainVars   == << patient, main, quitting, keys, slots, b_instantiated >>
threadVars == << thread, b_thread_running_ >>
ioVars     == << stopped, ready, accepting, session >>
vars == << process, mainVars, threadVars, max_participants_, server, ioVars >>

DEFAULT_MAX_PARTICIPANTS == 10
Latch(n)    == [type |-> "latch", server |-> n]
Accepted(n) == [type |-> "accept", server |-> n]
AcceptAborted(n) == [type |-> "accept_aborted", server |-> n]
Session(c)  == [type |-> "session", client |-> c]
Handlers    == [type : { "latch", "accept", "accept_aborted" }, server : Nat]
          \cup [type : { "session" }, client : Clients]

\* disconnect_all_participants: the sockets of the members are closed, the
\* handlers of their reads queued.  Who is in the handshake is not touched.
Members == { c \in Clients : session[c].state = "member" }
DisconnectAll == session' = [c \in Clients |-> IF c \in Members
                                               THEN [session[c] EXCEPT !.state = "closed"]
                                               ELSE session[c]]
Aborted == SetToSeq({ Session(c) : c \in Members })

Init == /\ patient \in BOOLEAN
        /\ process = "up" /\ main = "idle" /\ quitting = FALSE /\ keys = 0
        /\ slots = 0 /\ b_instantiated = FALSE
        /\ thread = "none" /\ b_thread_running_ = FALSE
        /\ max_participants_ = 5
        /\ server = [start |-> 0, capacity |-> 0, open |-> FALSE]
        /\ stopped = FALSE /\ ready = << >> /\ accepting = 0
        /\ session = [c \in Clients |-> [state |-> "away", server |-> 0]]

-----------------------------------------------------------------------------
(* The main thread.                                                        *)

\* Nothing more is to come from the key before: the service is at rest, or it
\* serves and has run what was queued.
Settled == \/ thread = "none"
           \/ thread = "running" /\ ready = << >> /\ accepting # 0

Ready == process = "up" /\ main = "idle" /\ (patient => Settled)
Key   == Ready /\ keys < (IF patient THEN PatientKeys ELSE MaxKeys) /\ keys' = keys + 1

\* start(): with the flag down a thread is made, and the std::thread that
\* service_thread_ptr_ held is destroyed, which must not be joinable.
StartKey ==
    /\ Key
    /\ main' = "registering"
    /\ IF b_thread_running_ THEN UNCHANGED << thread, process >>
       ELSE IF thread = "none" THEN thread' = "starting" /\ UNCHANGED process
       ELSE process' = "terminated" /\ UNCHANGED thread
    /\ UNCHANGED << patient, quitting, slots, b_instantiated, b_thread_running_,
                    max_participants_, server, ioVars >>

\* Mutant of Registers: the callback is registered for a running service only.
RegistersLate == ~b_instantiated /\ b_thread_running_

Registers == ~b_instantiated

\* The callback is registered when start() has returned.
Register ==
    /\ process = "up" /\ main = "registering"
    /\ slots' = IF Registers THEN slots + 1 ELSE slots
    /\ main' = "idle"
    /\ UNCHANGED << patient, process, quitting, keys, b_instantiated, threadVars,
                    max_participants_, server, ioVars >>

\* stop(): nothing unless the flag is up.
StopKey ==
    /\ Key
    /\ main' = IF b_thread_running_ THEN "stopping" ELSE "idle"
    /\ UNCHANGED << patient, process, quitting, slots, b_instantiated, threadVars,
                    max_participants_, server, ioVars >>

\* nr_server::stop: the members are disconnected, the acceptor is closed.
StopServer ==
    /\ process = "up" /\ main = "stopping"
    /\ main' = "stopping_io"
    /\ DisconnectAll
    /\ server' = [server EXCEPT !.open = FALSE]
    /\ ready' = ready \o Aborted
                      \o (IF accepting = 0 THEN << >> ELSE << AcceptAborted(accepting) >>)
    /\ accepting' = 0
    /\ UNCHANGED << patient, process, quitting, keys, slots, b_instantiated, threadVars,
                    max_participants_, stopped >>

\* Mutant of StopIo: io_context_ is not told to stop.
StopIoForgotten ==
    /\ process = "up" /\ main = "stopping_io"
    /\ main' = "joining"
    /\ UNCHANGED << patient, process, quitting, keys, slots, b_instantiated, threadVars,
                    max_participants_, server, ioVars >>

StopIo ==
    /\ process = "up" /\ main = "stopping_io"
    /\ stopped' = TRUE
    /\ main' = "joining"
    /\ UNCHANGED << patient, process, quitting, keys, slots, b_instantiated, threadVars,
                    max_participants_, server, ready, accepting, session >>

\* Mutant of Join: stop() returns without joining.
JoinForgotten ==
    /\ process = "up" /\ main = "joining"
    /\ main' = IF quitting THEN "leaving" ELSE "idle"
    /\ UNCHANGED << patient, process, quitting, keys, slots, b_instantiated, threadVars,
                    max_participants_, server, ioVars >>

Join ==
    /\ process = "up" /\ main = "joining" /\ thread = "finished"
    /\ thread' = "none"
    /\ main' = IF quitting THEN "leaving" ELSE "idle"
    /\ UNCHANGED << patient, process, quitting, keys, slots, b_instantiated, b_thread_running_,
                    max_participants_, server, ioVars >>

\* The help lists this key; the switch has no case for it.
RegisterKey ==
    /\ Key
    /\ UNCHANGED << patient, process, main, quitting, slots, b_instantiated, threadVars,
                    max_participants_, server, ioVars >>

\* main returns; ~XRNetworkLobbyService stops a running service.
QuitKey ==
    /\ Ready
    /\ quitting' = TRUE
    /\ main' = IF b_thread_running_ THEN "stopping" ELSE "leaving"
    /\ UNCHANGED << patient, process, keys, slots, b_instantiated, threadVars,
                    max_participants_, server, ioVars >>

\* The members of the service are destroyed, a joinable std::thread with them.
Leave ==
    /\ process = "up" /\ main = "leaving"
    /\ process' = IF thread = "none" THEN "exited" ELSE "terminated"
    /\ UNCHANGED << mainVars, threadVars, max_participants_, server, ioVars >>

-----------------------------------------------------------------------------
(* The service thread: thread_function.                                    *)

Thread(state) == process = "up" /\ thread = state

\* The thread ends, by an exception or because run() returned.
Finish == thread' = "finished" /\ b_thread_running_' = FALSE

\* Mutant of Restart: what stop() did to the io_context stays.
RestartForgotten == UNCHANGED stopped

\* io_context_.restart(): run() will run handlers again.
Restart == stopped' = FALSE

\* restart() and the constructor of nr_server: the port is bound, the latch
\* posted, accepting begins; the server of the last start is destroyed, which
\* disconnects who is still in its room.
MakeServer ==
    /\ Thread("starting")
    /\ Restart
    /\ LET n == server.start + 1
       IN  /\ server' = [start |-> n, capacity |-> DEFAULT_MAX_PARTICIPANTS, open |-> TRUE]
           /\ ready' = Append(ready, Latch(n)) \o Aborted
           /\ accepting' = n
    /\ DisconnectAll
    /\ thread' = "made"
    /\ UNCHANGED << process, mainVars, b_thread_running_, max_participants_ >>

PortTaken ==
    /\ Thread("starting") /\ MayThrow /\ ~patient
    /\ Restart
    /\ Finish
    /\ UNCHANGED << process, mainVars, max_participants_, server, ready, accepting, session >>

\* Mutant of AfterServer: the flag is up before there is a server.
BeforeServer == Thread("starting") /\ ~b_thread_running_
AfterServer  == Thread("made") /\ ~b_thread_running_

\* b_thread_running_ = true; has_started() is true since the constructor.
RaiseFlag ==
    /\ AfterServer
    /\ b_thread_running_' = TRUE
    /\ UNCHANGED << process, mainVars, thread, max_participants_, server, ioVars >>

\* Mutant of Announce: the limit of the service is set to the default.
AnnounceDefault ==
    /\ Thread("made") /\ b_thread_running_
    /\ IF slots > 0 /\ ~b_instantiated
       THEN /\ max_participants_' = DEFAULT_MAX_PARTICIPANTS
            /\ server' = [server EXCEPT !.capacity = 100]
            /\ b_instantiated' = TRUE
       ELSE UNCHANGED << max_participants_, server, b_instantiated >>
    /\ thread' = "announced"
    /\ UNCHANGED << patient, process, main, quitting, keys, slots, b_thread_running_, ioVars >>

\* OnRunning(): the slots run OnServiceStarted, which sets the service up once.
\* set_max_participants and set_max_handshake_connections both set the capacity
\* of the room.
Announce ==
    /\ Thread("made") /\ b_thread_running_
    /\ IF slots > 0 /\ ~b_instantiated
       THEN /\ max_participants_' = 100
            /\ server' = [server EXCEPT !.capacity = 100]
            /\ b_instantiated' = TRUE
       ELSE UNCHANGED << max_participants_, server, b_instantiated >>
    /\ thread' = "announced"
    /\ UNCHANGED << patient, process, main, quitting, keys, slots, b_thread_running_, ioVars >>

\* The rest of the server's settings, then run().
Configure ==
    /\ Thread("announced")
    /\ server' = [server EXCEPT !.capacity = max_participants_]
    /\ thread' = "running"
    /\ UNCHANGED << process, mainVars, b_thread_running_, max_participants_, ioVars >>

\* run() takes the next handler unless the io_context is stopped.
Runs(type) == Thread("running") /\ ~stopped /\ ready # << >> /\ Head(ready).type = type
Current(n) == n = server.start

\* What a handler does that refers to a server or a room that is no more.
UseAfterFree == process' \in { "up", "crashed" }

\* The latch waits for the server to have started, which it has.
RunLatch ==
    /\ Runs("latch") /\ Current(Head(ready).server)
    /\ ready' = Tail(ready)
    /\ UNCHANGED << process, mainVars, threadVars, max_participants_, server,
                    stopped, accepting, session >>

\* The latch of a server that is no more may also wait for ever.
RunOldLatch ==
    /\ Runs("latch") /\ ~Current(Head(ready).server)
    /\ ready' = Tail(ready)
    /\ UseAfterFree
    /\ thread' \in { "running", "hung" }
    /\ UNCHANGED << mainVars, b_thread_running_, max_participants_, server,
                    stopped, accepting, session >>

Accepts(c, n) == session' = [session EXCEPT ![c] = [state |-> "handshake", server |-> n]]

\* do_accept's handler; on a server that stopped, async_accept fails at once.
RunAccept ==
    /\ Runs("accept") /\ Current(Head(ready).server)
    /\ \E c \in Clients : session[c].state = "accepted" /\ Accepts(c, server.start)
    /\ accepting' = IF server.open THEN server.start ELSE 0
    /\ ready' = Tail(ready) \o (IF server.open THEN << >> ELSE << AcceptAborted(server.start) >>)
    /\ UNCHANGED << process, mainVars, threadVars, max_participants_, server, stopped >>

RunOldAccept ==
    /\ Runs("accept") /\ ~Current(Head(ready).server)
    /\ \E c \in Clients : session[c].state = "accepted" /\ Accepts(c, Head(ready).server)
    /\ UseAfterFree
    /\ ready' = Tail(ready)
    /\ UNCHANGED << mainVars, threadVars, max_participants_, server, stopped, accepting >>

\* The error is printed; async_accept is not called again.
RunAcceptAborted ==
    /\ Runs("accept_aborted")
    /\ ready' = Tail(ready)
    /\ UNCHANGED << process, mainVars, threadVars, max_participants_, server,
                    stopped, accepting, session >>

\* A session's handler: a client in the handshake logs in, a closed one leaves.
\* It uses the room of the server that accepted the session.
RunSession == \E c \in Clients :
    /\ Runs("session") /\ Head(ready) = Session(c)
    /\ session' = [session EXCEPT ![c].state = IF @ = "handshake" THEN "member" ELSE "gone"]
    /\ IF Current(session[c].server) THEN UNCHANGED process ELSE UseAfterFree
    /\ ready' = Tail(ready)
    /\ UNCHANGED << mainVars, threadVars, max_participants_, server, stopped, accepting >>

\* A handler throws: for the cases see NetworkRoom.
HandlerThrows ==
    /\ MayThrow /\ ~patient /\ (Runs("accept") \/ Runs("session"))
    /\ ready' = Tail(ready)
    /\ Finish
    /\ UNCHANGED << process, mainVars, max_participants_, server, stopped, accepting, session >>

Connected == { c \in Clients : session[c].state \in { "handshake", "member" } }

\* run() returns: stopped, or nothing is queued and nothing outstanding.
RunReturns ==
    /\ Thread("running")
    /\ stopped \/ (ready = << >> /\ accepting = 0 /\ Connected = {})
    /\ Finish
    /\ UNCHANGED << process, mainVars, max_participants_, server, ioVars >>

-----------------------------------------------------------------------------
(* The clients and the reactor.                                            *)

ClientConnects(c) ==
    /\ Thread("running") /\ session[c].state = "away" /\ accepting # 0
    /\ session' = [session EXCEPT ![c] = [state |-> "accepted", server |-> accepting]]
    /\ ready' = Append(ready, Accepted(accepting))
    /\ accepting' = 0
    /\ UNCHANGED << process, mainVars, threadVars, max_participants_, server, stopped >>

AcceptFails ==
    /\ Thread("running") /\ MayThrow /\ ~patient /\ accepting # 0
    /\ ready' = Append(ready, AcceptAborted(accepting))
    /\ accepting' = 0
    /\ UNCHANGED << process, mainVars, threadVars, max_participants_, server, stopped, session >>

\* A client in the handshake sends its login.
ClientLogsIn(c) ==
    /\ Thread("running") /\ session[c].state = "handshake"
    /\ ~Contains(ready, Session(c))
    /\ ready' = Append(ready, Session(c))
    /\ UNCHANGED << process, mainVars, threadVars, max_participants_, server,
                    stopped, accepting, session >>

\* A client closes: the read of its session fails.
ClientCloses(c) ==
    /\ Thread("running") /\ session[c].state \in { "handshake", "member" }
    /\ ~Contains(ready, Session(c))
    /\ session' = [session EXCEPT ![c].state = "closed"]
    /\ ready' = Append(ready, Session(c))
    /\ UNCHANGED << process, mainVars, threadVars, max_participants_, server,
                    stopped, accepting >>

-----------------------------------------------------------------------------
MainThread == Register \/ StopServer \/ StopIo \/ Join \/ Leave

ServiceThread == \/ MakeServer \/ PortTaken \/ RaiseFlag \/ Announce \/ Configure
                 \/ RunLatch \/ RunOldLatch \/ RunAccept \/ RunOldAccept
                 \/ RunAcceptAborted \/ RunSession \/ HandlerThrows \/ RunReturns

Next == \/ StartKey \/ StopKey \/ RegisterKey \/ QuitKey \/ MainThread \/ ServiceThread \/ AcceptFails
        \/ \E c \in Clients : ClientConnects(c) \/ ClientLogsIn(c) \/ ClientCloses(c)

Spec == Init /\ [][Next]_vars

\* Both threads proceed.  Nobody is obliged to type a key or to connect.
FairSpec == Spec /\ WF_vars(MainThread) /\ WF_vars(ServiceThread)

-----------------------------------------------------------------------------
(* Properties.                                                             *)

ServerStates  == [start : Nat, capacity : Nat, open : BOOLEAN]
SessionStates == [state : { "away", "accepted", "handshake", "member", "closed", "gone" },
                  server : Nat]

\* The values every variable may take.
TypeOK ==
    /\ patient \in BOOLEAN /\ process \in { "up", "exited", "terminated", "crashed" }
    /\ main \in { "idle", "registering", "stopping", "stopping_io", "joining", "leaving" }
    /\ quitting \in BOOLEAN /\ keys \in Nat /\ slots \in Nat /\ b_instantiated \in BOOLEAN
    /\ thread \in { "none", "starting", "made", "announced", "running", "finished", "hung" }
    /\ b_thread_running_ \in BOOLEAN /\ max_participants_ \in { 5, 100 }
    /\ server \in ServerStates
    /\ stopped \in BOOLEAN /\ ready \in Seq(Handlers) /\ accepting \in Nat
    /\ session \in [Clients -> SessionStates]

\* Whoever finds b_thread_running_ up may use the server: it is the one of the
\* thread in progress, whatever was started, stopped or thrown before.
FlagTellsTruth ==
    /\ b_thread_running_ => thread \in { "made", "announced", "running", "hung" }
    /\ main \in { "stopping", "stopping_io" } => server.start > 0

\* The callback that sets the service up is registered after start() and may
\* miss the first announcement; by the second serving it has run.
SetUpByRestart == thread = "running" /\ server.start >= 2 => b_instantiated

\* With a user who waits and no client, starting, stopping and starting again
\* end neither in std::terminate nor in the memory of the server before.
ProcessSurvives ==
    patient /\ (\A c \in Clients : session[c].state = "away") => process \in { "up", "exited" }

\* The first stop() returns, whoever is connected and whatever is queued or
\* thrown: the thread leaves run() and is joined.  (After a second start it may
\* be in the latch of the first server for ever.)
StopCompletes ==
    main = "stopping" /\ server.start = 1 ~> main \in { "idle", "leaving" } \/ process # "up"

\* What a patient user starts, the first time and after every stop(), comes to
\* wait for clients with nothing left to run, unless memory of the server before
\* was used: neither the stop before nor the handlers it left end this serving.
Waits == thread = "running" /\ ready = << >> /\ accepting = server.start
StartServes == patient /\ thread = "starting" ~> Waits \/ process = "crashed"

-----------------------------------------------------------------------------
(* What the help of nr_service_console.cpp says of a key.                  *)

\* "n: start service": a service that was stopped starts again.
RestartIsClean == process # "crashed"
=============================================================================
