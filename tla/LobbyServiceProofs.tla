------------------------- MODULE LobbyServiceProofs -------------------------
(***************************************************************************)
(* Theorems about LobbyService, for any number of keys, any finite set of  *)
(* clients, a port that may be taken and handlers that may throw.          *)
(***************************************************************************)
EXTENDS LobbyService, FiniteSetTheorems, SequenceTheorems, TLAPS

-----------------------------------------------------------------------------
(* The inductive invariant.                                                *)

\* A thread that got beyond the constructor of nr_server has a server.
ThreadHasServer ==
    thread \in { "made", "announced", "running", "hung" } => server.start > 0

\* b_thread_running_ is up only between its assignment in thread_function and
\* the end of that thread.
FlagIsOfThread ==
    b_thread_running_ => thread \in { "made", "announced", "running", "hung" }

\* stop() passes its guard only while the flag is up, and a server then exists.
StopsAServer == main \in { "stopping", "stopping_io" } => server.start > 0

\* The console registers its callback in the case of the key that starts the
\* service: with no slot and no set-up, at most one start was made.
FirstStartOnly ==
    ~b_instantiated /\ slots = 0 =>
        \/ thread = "none" /\ server.start = 0
        \/ /\ main = "registering" /\ server.start <= 1
           /\ thread = "starting" => server.start = 0

\* OnServiceStarted has run when a second server is announced.
SetUpWhenAnnounced ==
    thread \in { "announced", "running" } /\ server.start >= 2 => b_instantiated

ServiceInv ==
    /\ ThreadHasServer /\ FlagIsOfThread /\ StopsAServer
    /\ FirstStartOnly /\ SetUpWhenAnnounced

\* A user who waits, and nobody else.
Quiet  == patient /\ \A c \in Clients : session[c].state = "away"
Serves == thread \in { "made", "announced", "running" }

\* Where the two threads may be: the main thread stops a thread that runs, and
\* nothing ends the thread before.
Phases ==
    /\ process \in { "up", "exited" } /\ thread # "hung"
    /\ b_thread_running_ => thread \in { "made", "announced", "running" }
    /\ thread \in { "announced", "running" } => b_thread_running_
    /\ main = "idle" => thread # "finished"
    /\ main = "registering" => thread \notin { "none", "finished" }
    /\ main = "stopping" => thread = "running"
    /\ main \in { "stopping_io", "joining" } => thread \in { "running", "finished" }
    /\ main = "leaving" => thread = "none"
    /\ Serves /\ main \in { "idle", "registering", "stopping" } => accepting # 0 /\ ~stopped

\* A latch has run before its server is stopped; what stop() leaves in the
\* io_context is the aborted accept, which refers to no server.
CleanQueue == \A i \in DOMAIN ready :
    \/ ready[i].type = "accept_aborted"
    \/ /\ ready[i].type = "latch" /\ ready[i].server = server.start
       /\ Serves /\ main \in { "idle", "registering" }

Survival == Quiet => Phases /\ CleanQueue

-----------------------------------------------------------------------------
(* Types.                                                                  *)

\* The handlers that the model queues are handlers.
LEMMA HandlerKinds ==
    /\ \A n \in Nat : {Latch(n), Accepted(n), AcceptAborted(n)} \subseteq Handlers
    /\ \A c \in Clients : Session(c) \in Handlers
BY DEF Handlers, Latch, Accepted, AcceptAborted, Session

\* for_each over participants_ visits finitely many clients.
LEMMA AbortedType == Aborted \in Seq(Handlers)
<1> DEFINE S == { Session(c) : c \in Members }
<1>1. IsFiniteSet(Members)
  BY ServiceAssumption, FS_Subset DEF Members
<1>2. IsFiniteSet(S)
  <2> DEFINE f == [c \in Members |-> Session(c)]
  <2>1. f \in Surjection(Members, S)
    BY DEF Surjection
  <2> QED BY <1>1, <2>1, FS_Surjection
<1>3. Cardinality(S) \in Nat /\ ExistsBijection(1 .. Cardinality(S), S)
  BY <1>2, FS_CardinalityType
<1>4. \E f \in [1 .. Cardinality(S) -> S] : IsInjective(f)
  BY <1>3 DEF ExistsBijection, Bijection, Injection, IsInjective
<1>5. SetToSeq(S) \in [1 .. Cardinality(S) -> S]
  BY <1>4 DEF SetToSeq
<1>6. S \subseteq Handlers
  BY HandlerKinds DEF Members
<1>7. SetToSeq(S) \in Seq(Handlers)
  <2>1. \A i \in 1 .. Cardinality(S) : SetToSeq(S)[i] \in Handlers
    BY <1>5, <1>6
  <2>2. SetToSeq(S) \in [1 .. Cardinality(S) -> Handlers]
    BY <1>5, <2>1
  <2> QED BY <1>3, <2>2
<1> QED BY <1>7 DEF Aborted

\* Closing the members' sockets leaves every session in one of its states.
LEMMA DisconnectType ==
    ASSUME session \in [Clients -> SessionStates], DisconnectAll
    PROVE  session' \in [Clients -> SessionStates]
<1>1. \A c \in Clients : [session[c] EXCEPT !.state = "closed"] \in SessionStates
  BY DEF SessionStates
<1> QED BY <1>1 DEF DisconnectAll

\* A handler that ran left the queue, and what it posts is behind the rest.
LEMMA QueueType ==
    ASSUME ready \in Seq(Handlers)
    PROVE  /\ \A h \in Handlers : Append(ready, h) \in Seq(Handlers)
           /\ \A q \in Seq(Handlers) : ready \o q \in Seq(Handlers)
           /\ ready # << >> => /\ Head(ready) \in Handlers
                               /\ Tail(ready) \in Seq(Handlers)
                               /\ \A q \in Seq(Handlers) : Tail(ready) \o q \in Seq(Handlers)
BY HeadTailProperties, ConcatProperties, AppendProperties

\* The types of what each thread and the io_context own.
MainTypes ==
    /\ patient \in BOOLEAN /\ quitting \in BOOLEAN /\ keys \in Nat /\ slots \in Nat
    /\ main \in { "idle", "registering", "stopping", "stopping_io", "joining", "leaving" }
    /\ b_instantiated \in BOOLEAN
ThreadTypes ==
    /\ thread \in { "none", "starting", "made", "announced", "running",
                    "finished", "hung" }
    /\ b_thread_running_ \in BOOLEAN
ServiceTypes ==
    /\ process \in { "up", "exited", "terminated", "crashed" }
    /\ max_participants_ \in { 5, 100 } /\ server \in ServerStates
IoTypes ==
    /\ stopped \in BOOLEAN /\ ready \in Seq(Handlers) /\ accepting \in Nat
    /\ session \in [Clients -> SessionStates]

LEMMA TypeParts == TypeOK <=> MainTypes /\ ThreadTypes /\ ServiceTypes /\ IoTypes
BY DEF TypeOK, MainTypes, ThreadTypes, ServiceTypes, IoTypes

LEMMA NextTypeParts == MainTypes' /\ ThreadTypes' /\ ServiceTypes' /\ IoTypes' => TypeOK'
BY DEF TypeOK, MainTypes, ThreadTypes, ServiceTypes, IoTypes

\* A step that leaves the variables of a part alone keeps its types.
LEMMA KeptTypes == /\ MainTypes /\ UNCHANGED mainVars => MainTypes'
                   /\ ThreadTypes /\ UNCHANGED threadVars => ThreadTypes'
                   /\ IoTypes /\ UNCHANGED ioVars => IoTypes'
<1>1. MainTypes /\ UNCHANGED mainVars => MainTypes'
  BY DEF MainTypes, mainVars
<1>2. ThreadTypes /\ UNCHANGED threadVars => ThreadTypes'
  BY DEF ThreadTypes, threadVars
<1>3. IoTypes /\ UNCHANGED ioVars => IoTypes'
  BY DEF IoTypes, ioVars
<1> QED BY <1>1, <1>2, <1>3

\* What one step of any thread does to the types.
LEMMA TypeStep == TypeOK /\ [Next]_vars => TypeOK'
<1> SUFFICES ASSUME TypeOK, [Next]_vars
             PROVE  TypeOK'
  OBVIOUS
<1> USE DEF TypeOK
<1>1. CASE StartKey
  BY <1>1 DEF StartKey, Key, Ready, ioVars
<1>2. CASE StopKey
  BY <1>2 DEF StopKey, Key, Ready, threadVars, ioVars
<1>3. CASE RegisterKey
  BY <1>3 DEF RegisterKey, Key, Ready, threadVars, ioVars
<1>4. CASE QuitKey
  BY <1>4 DEF QuitKey, Ready, threadVars, ioVars
<1>5. CASE Register
  BY <1>5 DEF Register, threadVars, ioVars
<1>6. CASE StopServer
  <2>1. accepting # 0 => << AcceptAborted(accepting) >> \in Seq(Handlers)
    BY HandlerKinds
  <2>2. ready' \in Seq(Handlers)
    BY <1>6, <2>1, AbortedType, QueueType, ConcatProperties DEF StopServer
  <2>3. session' \in [Clients -> SessionStates]
    BY <1>6, DisconnectType DEF StopServer
  <2>4. server' \in ServerStates
    BY <1>6 DEF StopServer, ServerStates
  <2> QED BY <1>6, <2>2, <2>3, <2>4 DEF StopServer, threadVars
<1>7. CASE StopIo
  BY <1>7 DEF StopIo, threadVars
<1>8. CASE Join
  BY <1>8 DEF Join, ioVars
<1>9. CASE Leave
  BY <1>9 DEF Leave, mainVars, threadVars, ioVars
<1>10. CASE MakeServer
  <2> USE <1>10
  <2>1. server.start + 1 \in Nat /\ DEFAULT_MAX_PARTICIPANTS \in Nat
    BY DEF DEFAULT_MAX_PARTICIPANTS, ServerStates
  <2>2. Append(ready, Latch(server.start + 1)) \in Seq(Handlers)
    BY <2>1, HandlerKinds, QueueType
  <2>3. ready' \in Seq(Handlers)
    BY <2>2, AbortedType, ConcatProperties DEF MakeServer
  <2>4. server' \in ServerStates /\ accepting' \in Nat
    BY <2>1 DEF MakeServer, ServerStates
  <2>5. session' \in [Clients -> SessionStates]
    BY DisconnectType DEF MakeServer
  <2>6. MainTypes'
    BY TypeParts, KeptTypes DEF MakeServer
  <2>7. ThreadTypes'
    BY DEF MakeServer, ThreadTypes
  <2>8. ServiceTypes'
    BY <2>4 DEF MakeServer, ServiceTypes
  <2>9. stopped' = FALSE
    BY DEF MakeServer, Restart
  <2>10. IoTypes'
    BY <2>3, <2>4, <2>5, <2>9 DEF IoTypes
  <2> QED BY <2>6, <2>7, <2>8, <2>10, NextTypeParts
<1>11. CASE PortTaken
  BY <1>11 DEF PortTaken, Restart, Finish, mainVars
<1>12. CASE RaiseFlag
  BY <1>12 DEF RaiseFlag, mainVars, ioVars
<1>13. CASE Announce
  <2>1. server' \in ServerStates
    BY <1>13 DEF Announce, ServerStates
  <2>2. max_participants_' \in { 5, 100 } /\ b_instantiated' \in BOOLEAN
    BY <1>13 DEF Announce
  <2> QED BY <1>13, <2>1, <2>2 DEF Announce, ioVars
<1>14. CASE Configure
  BY <1>14 DEF Configure, mainVars, ioVars, ServerStates
<1>15. CASE RunLatch
  BY <1>15, QueueType DEF RunLatch, Runs, mainVars, threadVars
<1>16. CASE RunOldLatch
  BY <1>16, QueueType DEF RunOldLatch, Runs, UseAfterFree, mainVars
<1>17. CASE RunAccept
  <2>1. server.start \in Nat /\ << AcceptAborted(server.start) >> \in Seq(Handlers)
    BY HandlerKinds DEF ServerStates
  <2>2. ready' \in Seq(Handlers)
    BY <1>17, <2>1, QueueType DEF RunAccept, Runs
  <2> QED BY <1>17, <2>1, <2>2 DEF RunAccept, Accepts, SessionStates, mainVars, threadVars
<1>18. CASE RunOldAccept
  <2>1. Head(ready).server \in Nat
    BY <1>18, QueueType DEF RunOldAccept, Runs, Handlers
  <2> QED BY <1>18, <2>1, QueueType
      DEF RunOldAccept, Runs, Accepts, SessionStates, UseAfterFree, mainVars, threadVars
<1>19. CASE RunAcceptAborted
  BY <1>19, QueueType DEF RunAcceptAborted, Runs, mainVars, threadVars
<1>20. CASE RunSession
  BY <1>20, QueueType DEF RunSession, Runs, SessionStates, UseAfterFree, mainVars, threadVars
<1>21. CASE HandlerThrows
  <2> USE <1>21
  <2>1. ready' \in Seq(Handlers)
    BY QueueType DEF HandlerThrows, Runs
  <2>2. UNCHANGED mainVars /\ Finish
        /\ UNCHANGED << process, max_participants_, server, stopped, accepting, session >>
    BY DEF HandlerThrows
  <2>3. MainTypes' /\ ThreadTypes'
    BY <2>2, TypeParts, KeptTypes DEF Finish, ThreadTypes
  <2>4. ServiceTypes'
    BY <2>2 DEF ServiceTypes
  <2>5. IoTypes'
    BY <2>1, <2>2 DEF IoTypes
  <2> QED BY <2>3, <2>4, <2>5, NextTypeParts
<1>22. CASE RunReturns
  <2>1. UNCHANGED << process, mainVars, max_participants_, server, ioVars >> /\ Finish
    BY <1>22 DEF RunReturns
  <2>2. MainTypes' /\ ThreadTypes' /\ IoTypes'
    BY <2>1, TypeParts, KeptTypes DEF Finish, ThreadTypes
  <2>3. ServiceTypes'
    BY <2>1 DEF ServiceTypes
  <2> QED BY <2>2, <2>3, NextTypeParts
<1>23. CASE AcceptFails
  BY <1>23, HandlerKinds, QueueType DEF AcceptFails, mainVars, threadVars
<1>24. ASSUME NEW c \in Clients, ClientConnects(c)
       PROVE  TypeOK'
  BY <1>24, HandlerKinds, QueueType DEF ClientConnects, SessionStates, mainVars, threadVars
<1>25. ASSUME NEW c \in Clients, ClientLogsIn(c)
       PROVE  TypeOK'
  BY <1>25, HandlerKinds, QueueType DEF ClientLogsIn, mainVars, threadVars
<1>26. ASSUME NEW c \in Clients, ClientCloses(c)
       PROVE  TypeOK'
  <2>1. ready' \in Seq(Handlers)
    BY <1>26, HandlerKinds, QueueType DEF ClientCloses
  <2>2. session' \in [Clients -> SessionStates]
    BY <1>26 DEF ClientCloses, SessionStates
  <2>3. UNCHANGED << process, mainVars, threadVars, max_participants_, server,
                     stopped, accepting >>
    BY <1>26 DEF ClientCloses
  <2>4. MainTypes' /\ ThreadTypes' /\ ServiceTypes'
    BY <2>3, TypeParts, KeptTypes DEF ServiceTypes
  <2>5. IoTypes'
    BY <2>1, <2>2, <2>3 DEF IoTypes
  <2> QED BY <2>4, <2>5, NextTypeParts
<1>27. CASE UNCHANGED vars
  BY <1>27 DEF vars, mainVars, threadVars, ioVars
<1> QED BY <1>1, <1>2, <1>3, <1>4, <1>5, <1>6, <1>7, <1>8, <1>9, <1>10, <1>11, <1>12,
           <1>13, <1>14, <1>15, <1>16, <1>17, <1>18, <1>19, <1>20, <1>21, <1>22, <1>23,
           <1>24, <1>25, <1>26, <1>27 DEF Next, MainThread, ServiceThread

\* Every reachable state of the service is well typed: the queue holds handlers
\* of servers and sessions that there are or were.
THEOREM ServiceTypeCorrect == Spec => []TypeOK
<1>1. Init => TypeOK
  <2> SUFFICES ASSUME Init PROVE TypeOK
    OBVIOUS
  <2>1. server \in ServerStates /\ session \in [Clients -> SessionStates]
    BY DEF Init, ServerStates, SessionStates
  <2>2. ready \in Seq(Handlers)
    BY DEF Init
  <2> QED BY <2>1, <2>2 DEF Init, TypeOK
<1> QED BY <1>1, TypeStep, PTL DEF Spec

-----------------------------------------------------------------------------
(* The flag and the set-up.                                                *)

\* What the two threads share, apart from the queue and the sessions.
shared == << main, slots, b_instantiated, thread, b_thread_running_,
             max_participants_, server >>

\* A handler that neither hangs nor throws, and a client, leave the flag, the
\* server and the set-up alone.
LEMMA HandlersLeaveAlone ==
    ASSUME \/ RegisterKey \/ Leave \/ RunLatch \/ RunAccept \/ RunOldAccept
           \/ RunAcceptAborted \/ RunSession \/ AcceptFails
           \/ \E c \in Clients : ClientConnects(c) \/ ClientLogsIn(c) \/ ClientCloses(c)
           \/ UNCHANGED vars
    PROVE  UNCHANGED shared
BY DEF shared, RegisterKey, Key, Leave, RunLatch, RunAccept, RunOldAccept, RunAcceptAborted,
       RunSession, AcceptFails, ClientConnects, ClientLogsIn, ClientCloses,
       vars, mainVars, threadVars, ioVars

\* Key by key and step by step of the service thread.
LEMMA ServiceStep == TypeOK /\ ServiceInv /\ [Next]_vars => ServiceInv'
<1> SUFFICES ASSUME TypeOK, ServiceInv, [Next]_vars
             PROVE  ServiceInv'
  OBVIOUS
<1> USE DEF ServiceInv, ThreadHasServer, FlagIsOfThread, StopsAServer, FirstStartOnly,
            SetUpWhenAnnounced
<1>t. /\ server.start \in Nat /\ slots \in Nat
      /\ b_instantiated \in BOOLEAN /\ b_thread_running_ \in BOOLEAN
  BY DEF TypeOK, ServerStates
<1>1. CASE UNCHANGED shared
  BY <1>1 DEF shared
<1>2. CASE StartKey
  <2>1. /\ main = "idle" /\ main' = "registering"
        /\ thread' = thread \/ (thread = "none" /\ thread' = "starting")
        /\ UNCHANGED << slots, b_instantiated, b_thread_running_, max_participants_, server >>
    BY <1>2 DEF StartKey, Key, Ready
  <2>2. FirstStartOnly'
    BY <2>1, <1>t
  <2> QED BY <2>1, <2>2
<1>3. CASE StopKey
  BY <1>3, <1>t DEF StopKey, Key, Ready, threadVars
<1>4. CASE QuitKey
  BY <1>4, <1>t DEF QuitKey, Ready, threadVars
<1>5. CASE Register
  BY <1>5, <1>t DEF Register, Registers, threadVars
<1>6. CASE StopServer
  <2>1. /\ main = "stopping" /\ main' = "stopping_io"
        /\ server'.start = server.start /\ server'.capacity = server.capacity
        /\ UNCHANGED << slots, b_instantiated, thread, b_thread_running_, max_participants_ >>
    BY <1>6 DEF StopServer, TypeOK, ServerStates, threadVars
  <2> QED BY <2>1
<1>7. CASE StopIo
  BY <1>7 DEF StopIo, threadVars
<1>8. CASE Join
  BY <1>8 DEF Join
<1>9. CASE MakeServer
  <2>1. /\ thread = "starting" /\ thread' = "made"
        /\ server'.start = server.start + 1
        /\ UNCHANGED << main, slots, b_instantiated, b_thread_running_ >>
    BY <1>9 DEF MakeServer, Thread, mainVars
  <2> QED BY <2>1, <1>t
<1>10. CASE PortTaken \/ HandlerThrows \/ RunReturns
  <2>1. /\ thread \in { "starting", "running" } /\ thread' = "finished"
        /\ b_thread_running_' = FALSE
        /\ UNCHANGED << main, slots, b_instantiated, max_participants_, server >>
    BY <1>10 DEF PortTaken, HandlerThrows, RunReturns, Runs, Thread, Finish, mainVars
  <2> QED BY <2>1, <1>t
<1>11. CASE RaiseFlag
  BY <1>11 DEF RaiseFlag, AfterServer, Thread, mainVars
<1>12. CASE Announce
  <2>1. /\ thread = "made" /\ b_thread_running_ /\ thread' = "announced"
        /\ server'.start = server.start
        /\ UNCHANGED << main, slots, b_thread_running_ >>
        /\ b_instantiated => b_instantiated'
        /\ slots > 0 => b_instantiated'
    BY <1>12, <1>t DEF Announce, Thread, TypeOK, ServerStates
  <2>2. server.start >= 2 => b_instantiated \/ slots > 0
    BY <2>1, <1>t
  <2>3. SetUpWhenAnnounced'
    BY <2>1, <2>2, <1>t
  <2>4. FirstStartOnly'
    BY <2>1, <1>t
  <2> QED BY <2>1, <2>3, <2>4, <1>t
<1>13. CASE Configure
  <2>1. /\ thread = "announced" /\ thread' = "running"
        /\ server'.start = server.start
        /\ server'.capacity = max_participants_
        /\ UNCHANGED << main, slots, b_instantiated, b_thread_running_, max_participants_ >>
    BY <1>13 DEF Configure, Thread, mainVars, TypeOK, ServerStates
  <2> QED BY <2>1
<1>14. CASE RunOldLatch
  <2>1. /\ thread = "running" /\ thread' \in { "running", "hung" }
        /\ UNCHANGED << main, slots, b_instantiated, b_thread_running_, max_participants_, server >>
    BY <1>14 DEF RunOldLatch, Runs, Thread, mainVars
  <2> QED BY <2>1
<1> QED BY <1>1, <1>2, <1>3, <1>4, <1>5, <1>6, <1>7, <1>8, <1>9, <1>10, <1>11, <1>12,
           <1>13, <1>14, HandlersLeaveAlone DEF Next, MainThread, ServiceThread

\* The inductive invariant holds from the constructor of the service on.
LEMMA ServiceInvariant == Spec => []ServiceInv
<1>1. Init => ServiceInv
  BY DEF Init, ServiceInv, ThreadHasServer, FlagIsOfThread, StopsAServer, FirstStartOnly,
         SetUpWhenAnnounced
<1> QED BY <1>1, ServiceStep, ServiceTypeCorrect, PTL DEF Spec

\* Whoever finds b_thread_running_ up finds a server: stop(), which reads the
\* flag in the main thread, never calls a null server pointer.
THEOREM FlagTellsTruthHolds == Spec => []FlagTellsTruth
<1>1. ServiceInv => FlagTellsTruth
  BY DEF ServiceInv, FlagIsOfThread, StopsAServer, FlagTellsTruth
<1> QED BY <1>1, ServiceInvariant, PTL

\* The callback that OnRunning missed at the first start has run by the second.
THEOREM SetUpByRestartHolds == Spec => []SetUpByRestart
<1>1. ServiceInv => SetUpByRestart
  BY DEF ServiceInv, SetUpWhenAnnounced, SetUpByRestart
<1> QED BY <1>1, ServiceInvariant, PTL

-----------------------------------------------------------------------------
(* A user who waits, and nobody else.                                      *)

\* A client that was once accepted is never away again.
LEMMA QuietBefore ==
    ASSUME TypeOK, [Next]_vars, Quiet'
    PROVE  Quiet
<1>1. patient
  <2>1. patient' = patient
    BY DEF Next, MainThread, ServiceThread, StartKey, StopKey, RegisterKey, QuitKey, Register,
           StopServer, StopIo, Join, Leave, MakeServer, PortTaken, RaiseFlag, Announce, Configure,
           RunLatch, RunOldLatch, RunAccept, RunOldAccept, RunAcceptAborted, RunSession,
           HandlerThrows, RunReturns, AcceptFails, ClientConnects, ClientLogsIn, ClientCloses,
           vars, mainVars
  <2> QED BY <2>1 DEF Quiet
<1>2. ASSUME NEW c \in Clients PROVE session[c].state = "away"
  <2>1. session'[c].state = "away" /\ session \in [Clients -> SessionStates]
    BY DEF Quiet, TypeOK
  <2>2. CASE session' = session
    BY <2>1, <2>2
  <2>3. CASE DisconnectAll
    <3>1. CASE c \in Members
      <4>1. session'[c].state = "closed"
        BY <2>1, <2>3, <3>1 DEF DisconnectAll, SessionStates
      <4> QED BY <2>1, <4>1
    <3>2. CASE c \notin Members
      BY <2>1, <2>3, <3>2 DEF DisconnectAll
    <3> QED BY <3>1, <3>2
  <2>4. CASE \E d \in Clients, n \in Nat, s \in { "accepted", "handshake" } :
                session' = [session EXCEPT ![d] = [state |-> s, server |-> n]]
    BY <2>1, <2>4
  <2>5. CASE \E d \in Clients, s \in { "member", "gone", "closed" } :
                session' = [session EXCEPT ![d].state = s]
    <3>1. PICK d \in Clients, s \in { "member", "gone", "closed" } :
             session' = [session EXCEPT ![d].state = s]
      BY <2>5
    <3>2. CASE c = d
      <4>1. session'[c].state = s
        BY <2>1, <3>1, <3>2 DEF SessionStates
      <4> QED BY <2>1, <4>1
    <3> QED BY <2>1, <3>1, <3>2
  <2>6. CASE StopServer \/ MakeServer
    BY <2>3, <2>6 DEF StopServer, MakeServer
  <2>7. CASE RunAccept \/ RunOldAccept
    <3>1. server.start \in Nat /\ (ready # << >> => Head(ready) \in Handlers)
      BY QueueType DEF TypeOK, ServerStates
    <3>2. Runs("accept") => Head(ready).server \in Nat
      BY <3>1 DEF Runs, Handlers
    <3> QED BY <2>4, <2>7, <3>1, <3>2 DEF RunAccept, RunOldAccept, Accepts
  <2>8. CASE RunSession
    <3>1. PICK d \in Clients :
             session' = [session EXCEPT ![d].state = IF @ = "handshake" THEN "member" ELSE "gone"]
      BY <2>8 DEF RunSession
    <3>2. CASE session[d].state = "handshake"
      <4>1. session' = [session EXCEPT ![d].state = "member"]
        BY <2>1, <3>1, <3>2 DEF SessionStates
      <4> QED BY <2>5, <4>1
    <3>3. CASE session[d].state # "handshake"
      <4>1. session' = [session EXCEPT ![d].state = "gone"]
        BY <2>1, <3>1, <3>3 DEF SessionStates
      <4> QED BY <2>5, <4>1
    <3> QED BY <3>2, <3>3
  <2>9. CASE \E d \in Clients : ClientConnects(d)
    BY <2>4, <2>9 DEF ClientConnects, TypeOK
  <2>10. CASE \E d \in Clients : ClientCloses(d)
    BY <2>5, <2>10 DEF ClientCloses
  <2>11. CASE \/ StartKey \/ StopKey \/ RegisterKey \/ QuitKey \/ Register \/ StopIo \/ Join \/ Leave
              \/ PortTaken \/ RaiseFlag \/ Announce \/ Configure \/ RunLatch \/ RunOldLatch
              \/ RunAcceptAborted \/ HandlerThrows \/ RunReturns \/ AcceptFails
              \/ (\E d \in Clients : ClientLogsIn(d)) \/ UNCHANGED vars
    <3>1. session' = session
      BY <2>11 DEF StartKey, StopKey, RegisterKey, QuitKey, Register, StopIo, Join, Leave,
             PortTaken, RaiseFlag, Announce, Configure, RunLatch, RunOldLatch,
             RunAcceptAborted, HandlerThrows, RunReturns, AcceptFails, ClientLogsIn, vars, ioVars
    <3> QED BY <2>2, <3>1
  <2> QED BY <2>6, <2>7, <2>8, <2>9, <2>10, <2>11 DEF Next, MainThread, ServiceThread
<1> QED BY <1>1, <1>2 DEF Quiet

\* With no member nothing is aborted.
LEMMA NothingAborted ==
    ASSUME Quiet
    PROVE  Aborted = << >>
<1> DEFINE S == { Session(c) : c \in Members }
<1>1. S = {}
  BY DEF Members, Quiet
<1>2. Cardinality(S) = 0
  BY <1>1, FS_EmptySet
<1>3. \E f \in [1 .. Cardinality(S) -> S] : IsInjective(f)
  <2> DEFINE f == [x \in 1 .. Cardinality(S) |-> x]
  <2>1. 1 .. Cardinality(S) = {}
    BY <1>2
  <2>2. f \in [1 .. Cardinality(S) -> S] /\ IsInjective(f)
    BY <1>1, <2>1 DEF IsInjective
  <2> QED BY <2>2
<1>4. SetToSeq(S) \in [1 .. Cardinality(S) -> S]
  BY <1>3 DEF SetToSeq
<1>5. SetToSeq(S) \in [{} -> S]
  <2>1. 1 .. Cardinality(S) = {}
    BY <1>2
  <2> QED BY <1>4, <2>1
<1> DEFINE q == SetToSeq(S)
<1>6. q \in Seq(S) /\ DOMAIN q = {}
  <2>1. q \in [1 .. 0 -> S]
    BY <1>2, <1>4
  <2> QED BY <1>5, <2>1, SeqDef
<1> HIDE DEF q, S
<1>7. q = << >>
  BY <1>6, EmptySeq, LenProperties
<1> QED BY <1>7 DEF Aborted, q, S

\* What is left when the first handler is taken off, and what is behind the others.
LEMMA TailOf ==
    ASSUME ready \in Seq(Handlers), ready # << >>
    PROVE  /\ 1 \in DOMAIN ready /\ Head(ready) = ready[1]
           /\ \A i \in DOMAIN Tail(ready) : \E j \in DOMAIN ready : Tail(ready)[i] = ready[j]
<1>1. /\ Len(ready) \in Nat /\ DOMAIN ready = 1 .. Len(ready) /\ Len(ready) >= 1
      /\ Head(ready) = ready[1]
      /\ Tail(ready) \in Seq(Handlers) /\ Len(Tail(ready)) = Len(ready) - 1
      /\ \A i \in 1 .. Len(ready) - 1 : Tail(ready)[i] = ready[i + 1]
  BY LenProperties, HeadTailProperties, EmptySeq
<1>2. DOMAIN Tail(ready) = 1 .. Len(ready) - 1
  BY <1>1, LenProperties
<1>3. ASSUME NEW i \in DOMAIN Tail(ready) PROVE \E j \in DOMAIN ready : Tail(ready)[i] = ready[j]
  <2>1. i \in 1 .. Len(ready) - 1 /\ i + 1 \in DOMAIN ready
    BY <1>1, <1>2
  <2> QED BY <1>1, <2>1
<1> QED BY <1>1, <1>3

LEMMA AppendOf ==
    ASSUME ready \in Seq(Handlers), NEW h \in Handlers
    PROVE  \A i \in DOMAIN Append(ready, h) :
              \/ Append(ready, h)[i] = h
              \/ \E j \in DOMAIN ready : Append(ready, h)[i] = ready[j]
<1>1. /\ Len(ready) \in Nat /\ DOMAIN ready = 1 .. Len(ready)
      /\ Append(ready, h) \in Seq(Handlers) /\ Len(Append(ready, h)) = Len(ready) + 1
      /\ \A i \in 1 .. Len(ready) : Append(ready, h)[i] = ready[i]
      /\ Append(ready, h)[Len(ready) + 1] = h
  BY LenProperties, AppendProperties
<1>2. DOMAIN Append(ready, h) = 1 .. Len(ready) + 1
  BY <1>1, LenProperties
<1> QED BY <1>1, <1>2

\* A handler that waits for another to be run stays what it was.
LEMMA QueueShrinks ==
    ASSUME TypeOK, CleanQueue, ready' = ready \/ (ready # << >> /\ ready' = Tail(ready)),
           server'.start = server.start, Serves => Serves',
           main' = main \/ {main, main'} \subseteq { "idle", "registering" }
    PROVE  CleanQueue'
<1>1. ready \in Seq(Handlers)
  BY DEF TypeOK
<1>2. \A i \in DOMAIN ready' : \E j \in DOMAIN ready : ready'[i] = ready[j]
  BY <1>1, TailOf
<1> QED BY <1>2 DEF CleanQueue

\* Step by step, for the user who waits.
LEMMA SurvivalStep == TypeOK /\ Survival /\ [Next]_vars => Survival'
<1> SUFFICES ASSUME TypeOK, Survival, [Next]_vars, Quiet'
             PROVE  Phases' /\ CleanQueue'
  BY DEF Survival
<1>q. Quiet /\ Phases /\ CleanQueue
  BY QuietBefore DEF Survival
<1>r. patient /\ (\A c \in Clients : session[c].state = "away") /\ ready \in Seq(Handlers)
  BY <1>q DEF Quiet, TypeOK
<1>t. /\ server.start \in Nat /\ accepting \in Nat /\ b_thread_running_ \in BOOLEAN
      /\ main \in { "idle", "registering", "stopping", "stopping_io", "joining", "leaving" }
      /\ thread \in { "none", "starting", "made", "announced", "running",
                      "finished", "hung" }
  BY DEF TypeOK, ServerStates
<1>n. \* Where no latch may be.
      (~Serves \/ main \notin { "idle", "registering" })
         => \A i \in DOMAIN ready : ready[i].type = "accept_aborted"
  BY <1>q DEF CleanQueue
<1>s. ASSUME Key \/ QuitKey
      PROVE  /\ main = "idle" /\ process = "up"
             /\ \/ thread = "none" /\ ~b_thread_running_
                \/ thread = "running" /\ b_thread_running_ /\ ready = << >> /\ accepting # 0
  BY <1>s, <1>q, <1>r DEF Key, QuitKey, Ready, Settled, Phases
<1>1. CASE StartKey
  <2>1. /\ main' = "registering" /\ process' = process
        /\ UNCHANGED << b_thread_running_, server, ready, accepting, stopped >>
        /\ \/ thread = "none" /\ thread' = "starting"
           \/ thread = "running" /\ thread' = "running" /\ b_thread_running_ /\ accepting # 0
    BY <1>1, <1>s DEF StartKey, ioVars
  <2>2. main = "idle" /\ process = "up"
    BY <1>1, <1>s DEF StartKey
  <2>3. Phases'
    BY <1>q, <2>1, <2>2 DEF Phases, Serves
  <2>4. CleanQueue'
    BY <2>1, <2>2, <1>n, QueueShrinks, <1>q DEF CleanQueue, Serves
  <2> QED BY <2>3, <2>4
<1>2. CASE StopKey \/ RegisterKey \/ QuitKey
  <2>1. /\ main = "idle" /\ process = "up"
        /\ UNCHANGED << process, thread, b_thread_running_, server, ready, accepting, stopped >>
        /\ \/ main' = "idle"
           \/ main' = "leaving" /\ thread = "none"
           \/ main' = "stopping" /\ thread = "running" /\ ready = << >> /\ accepting # 0
    BY <1>2, <1>s DEF StopKey, RegisterKey, QuitKey, threadVars, ioVars
  <2>2. Phases'
    BY <1>q, <2>1 DEF Phases, Serves
  <2>3. ready = << >> => DOMAIN ready = {}
    OBVIOUS
  <2>4. CleanQueue'
    BY <1>n, <1>q, <2>1, <2>3 DEF CleanQueue, Serves
  <2> QED BY <2>2, <2>4
<1>3. CASE Register
  <2>1. /\ main = "registering" /\ main' = "idle"
        /\ UNCHANGED << process, thread, b_thread_running_, server, ready, accepting, stopped >>
    BY <1>3 DEF Register, threadVars, ioVars
  <2>2. Phases'
    BY <1>q, <2>1 DEF Phases, Serves
  <2>3. CleanQueue'
    BY <1>q, <2>1 DEF CleanQueue, Serves
  <2> QED BY <2>2, <2>3
<1>4. CASE StopServer
  <2>1. /\ main = "stopping" /\ main' = "stopping_io"
        /\ ready' = ready \o Aborted
                      \o (IF accepting = 0 THEN << >> ELSE << AcceptAborted(accepting) >>)
        /\ UNCHANGED << process, thread, b_thread_running_ >>
    BY <1>4 DEF StopServer, threadVars
  <2>2. thread = "running" /\ accepting # 0
    BY <1>q, <2>1 DEF Phases, Serves
  <2>3. AcceptAborted(accepting) \in Handlers /\ AcceptAborted(accepting).type = "accept_aborted"
    BY <1>t, HandlerKinds DEF AcceptAborted
  <2>4. ready' = Append(ready, AcceptAborted(accepting))
    <3>1. ready \o << >> = ready
      BY <1>r, ConcatEmptySeq
    <3>2. ready \o << AcceptAborted(accepting) >> = Append(ready, AcceptAborted(accepting))
      BY <1>r, <2>3, AppendIsConcat
    <3> QED BY <1>q, <2>1, <2>2, <3>1, <3>2, NothingAborted
  <2>5. Phases'
    BY <1>q, <2>1, <2>2 DEF Phases, Serves
  <2>6. \A i \in DOMAIN ready' : ready'[i].type = "accept_aborted"
    BY <1>n, <1>r, <2>1, <2>3, <2>4, AppendOf
  <2> QED BY <2>5, <2>6 DEF CleanQueue
<1>5. CASE StopIo
  <2>1. /\ main = "stopping_io" /\ main' = "joining"
        /\ UNCHANGED << process, thread, b_thread_running_, server, ready, accepting >>
    BY <1>5 DEF StopIo, threadVars
  <2>2. Phases'
    BY <1>q, <2>1 DEF Phases, Serves
  <2>3. CleanQueue'
    BY <1>q, <2>1 DEF CleanQueue, Serves
  <2> QED BY <2>2, <2>3
<1>6. CASE Join
  <2>1. /\ main = "joining" /\ main' \in { "idle", "leaving" } /\ thread = "finished" /\ thread' = "none"
        /\ UNCHANGED << process, b_thread_running_, server, ready, accepting >>
    BY <1>6 DEF Join, ioVars
  <2>2. Phases'
    BY <1>q, <2>1 DEF Phases, Serves
  <2>3. CleanQueue'
    BY <1>n, <2>1 DEF CleanQueue
  <2> QED BY <2>2, <2>3
<1>7. CASE Leave
  <2>1. /\ main = "leaving" /\ process' \in { "exited", "terminated" }
        /\ thread = "none" => process' = "exited"
        /\ UNCHANGED << main, thread, b_thread_running_, server, ready, accepting, stopped >>
    BY <1>7 DEF Leave, mainVars, threadVars, ioVars
  <2>2. Phases'
    BY <1>q, <2>1 DEF Phases, Serves
  <2>3. CleanQueue'
    BY <1>q, <2>1 DEF CleanQueue, Serves
  <2> QED BY <2>2, <2>3
<1>8. CASE MakeServer
  <2> DEFINE n == server.start + 1
  <2>1. /\ thread = "starting" /\ thread' = "made" /\ stopped' = FALSE /\ accepting' = n
        /\ server'.start = n /\ ready' = Append(ready, Latch(n)) \o Aborted
        /\ UNCHANGED << process, main, b_thread_running_ >>
    BY <1>8 DEF MakeServer, Restart, Thread, mainVars
  <2>2. main \in { "idle", "registering" }
    BY <1>q, <1>t, <2>1 DEF Phases
  <2>3. n \in Nat /\ n # 0
    BY <1>t
  <2> HIDE DEF n
  <2>4. Latch(n) \in Handlers /\ Latch(n).type = "latch" /\ Latch(n).server = n
    BY <2>3, HandlerKinds DEF Latch
  <2>5. ready' = Append(ready, Latch(n))
    BY <1>q, <1>r, <2>1, <2>4, NothingAborted, AppendProperties, ConcatEmptySeq
  <2>6. Phases'
    BY <1>q, <2>1, <2>2, <2>3 DEF Phases, Serves
  <2>7. \A i \in DOMAIN ready : ready[i].type = "accept_aborted"
    BY <1>n, <2>1 DEF Serves
  <2>8. \A i \in DOMAIN ready' : ready'[i].type = "accept_aborted" \/ ready'[i] = Latch(n)
    BY <1>r, <2>4, <2>5, <2>7, AppendOf
  <2>9. Serves' /\ main' \in { "idle", "registering" }
    BY <2>1, <2>2 DEF Serves
  <2> QED BY <2>1, <2>4, <2>6, <2>8, <2>9 DEF CleanQueue
<1>9. CASE RaiseFlag \/ Announce \/ Configure
  <2>1. /\ \/ thread = "made" /\ thread' = "made" /\ b_thread_running_' = TRUE
           \/ thread = "made" /\ thread' = "announced" /\ b_thread_running_ /\ b_thread_running_'
           \/ thread = "announced" /\ thread' = "running" /\ b_thread_running_' = b_thread_running_
        /\ server'.start = server.start
        /\ UNCHANGED << process, main, ready, accepting, stopped >>
    <3>1. server \in [start : Nat, capacity : Nat, open : BOOLEAN]
      BY DEF TypeOK, ServerStates
    <3>2. CASE RaiseFlag
      BY <3>2 DEF RaiseFlag, AfterServer, Thread, mainVars, ioVars
    <3>3. CASE Announce
      BY <3>1, <3>3 DEF Announce, Thread, ioVars
    <3>4. CASE Configure
      BY <3>1, <3>4 DEF Configure, Thread, mainVars, ioVars
    <3> QED BY <1>9, <3>2, <3>3, <3>4
  <2>2. Phases'
    BY <1>q, <2>1 DEF Phases, Serves
  <2>3. CleanQueue'
    BY <1>q, <2>1 DEF CleanQueue, Serves
  <2> QED BY <2>2, <2>3
<1>10. CASE RunLatch \/ RunAcceptAborted
  <2>1. /\ ready # << >> /\ ready' = Tail(ready)
        /\ UNCHANGED << process, main, thread, b_thread_running_, server, accepting, stopped >>
    BY <1>10 DEF RunLatch, RunAcceptAborted, Runs, mainVars, threadVars
  <2>2. Phases'
    BY <1>q, <2>1 DEF Phases, Serves
  <2>3. CleanQueue'
    BY <1>q, <2>1, QueueShrinks DEF Serves
  <2> QED BY <2>2, <2>3
<1>11. CASE RunReturns
  <2>1. /\ thread = "running" /\ thread' = "finished" /\ b_thread_running_' = FALSE
        /\ stopped \/ accepting = 0
        /\ UNCHANGED << process, main, server, ready, accepting, stopped >>
    BY <1>11 DEF RunReturns, Thread, Finish, mainVars, ioVars
  <2>2. main \in { "stopping_io", "joining" }
    BY <1>q, <1>t, <2>1 DEF Phases, Serves
  <2>3. Phases'
    BY <1>q, <2>1, <2>2 DEF Phases, Serves
  <2>4. CleanQueue'
    BY <1>n, <2>1, <2>2 DEF CleanQueue
  <2> QED BY <2>3, <2>4
<1>12. CASE UNCHANGED vars
  BY <1>12, <1>q DEF vars, mainVars, threadVars, ioVars, Phases, CleanQueue, Serves
<1>13. ~PortTaken /\ ~HandlerThrows /\ ~AcceptFails
  BY <1>r DEF PortTaken, HandlerThrows, AcceptFails
<1>14. ~RunOldLatch /\ ~RunAccept /\ ~RunOldAccept /\ ~RunSession
  <2>1. \A type : Runs(type) => \/ type = "accept_aborted"
                                \/ type = "latch" /\ Current(Head(ready).server)
    BY <1>q, <1>r, TailOf DEF Runs, CleanQueue, Current
  <2>2. ~Runs("accept") /\ ~Runs("session")
    BY <2>1
  <2>3. Runs("latch") => Current(Head(ready).server)
    BY <2>1
  <2>4. ~RunOldLatch
    BY <2>3 DEF RunOldLatch
  <2>5. ~RunAccept /\ ~RunOldAccept /\ ~RunSession
    BY <2>2 DEF RunAccept, RunOldAccept, RunSession
  <2> QED BY <2>4, <2>5
<1>15. ASSUME NEW c \in Clients PROVE ~ClientConnects(c) /\ ~ClientLogsIn(c) /\ ~ClientCloses(c)
  <2>1. ~ClientConnects(c)
    <3> SUFFICES ASSUME ClientConnects(c) PROVE FALSE
      OBVIOUS
    <3>1. session'[c].state = "accepted"
      BY DEF ClientConnects, TypeOK
    <3> QED BY <3>1 DEF Quiet
  <2> QED BY <1>r, <2>1 DEF ClientLogsIn, ClientCloses
<1> QED BY <1>1, <1>2, <1>3, <1>4, <1>5, <1>6, <1>7, <1>8, <1>9, <1>10, <1>11, <1>12, <1>13,
           <1>14, <1>15 DEF Next, MainThread, ServiceThread

\* With a user who waits and no client the service may be started, stopped and
\* started again as often as one likes: nothing that stop() left in the
\* io_context refers to the server before, and no joinable std::thread is lost.
THEOREM ProcessSurvivesHolds == Spec => []ProcessSurvives
<1>1. Init => Survival
  <2> SUFFICES ASSUME Init PROVE Phases /\ CleanQueue
    BY DEF Survival
  <2>1. /\ process = "up" /\ main = "idle" /\ thread = "none" /\ b_thread_running_ = FALSE
        /\ DOMAIN ready = {}
    BY DEF Init
  <2>2. Phases
    BY <2>1 DEF Phases, Serves
  <2> QED BY <2>1, <2>2 DEF CleanQueue
<1>2. Survival => ProcessSurvives
  BY DEF Survival, Quiet, Phases, ProcessSurvives
<1> QED BY <1>1, <1>2, SurvivalStep, ServiceTypeCorrect, PTL DEF Spec
=============================================================================
