--------------------- MODULE NetworkRoomContractProofs ---------------------
(***************************************************************************)
(* NetworkRoom keeps the contract of RoomContract: the room, the sessions  *)
(* that have left it, the logins and the capacity change as the contract   *)
(* lets them, whatever handlers and sockets are in between; and while its  *)
(* clients keep to the protocol, nothing brings the service down.          *)
(***************************************************************************)
EXTENDS NetworkRoomProofs

\* The refinement mapping, by name.
Left == { s \in Sessions : m_id[s] # 0 } \ participants_
contractVars == << participants_, Left, loggedIn, max_participants_ >>

-----------------------------------------------------------------------------
(* How the steps of the server change the room.                            *)

\* A step that is none of the room's business.
LEMMA Stutters ==
    ASSUME UNCHANGED << participants_, m_id, loggedIn, max_participants_ >>
    PROVE  UNCHANGED contractVars
BY DEF contractVars, Left

\* leave and disconnect_participant: the session leaves, if it was there.
LEMMA Leaves ==
    ASSUME TypeOK, ReadChains, NEW s \in Sessions, RoomBecomes(Without(m_id[s])),
           UNCHANGED << m_id, loggedIn, max_participants_ >>
    PROVE  UNCHANGED contractVars \/ Contract!Leave(s)
<1>1. participants_' = participants_ \ {s}
  BY FindOwn DEF RoomBecomes
<1>2. CASE s \notin participants_
  BY <1>1, <1>2, Stutters
<1>3. CASE s \in participants_
  <2>1. m_id[s] = s /\ s # 0
    BY <1>3 DEF ReadChains, ChainOK, MemberRead, Sessions
  <2>2. Left' = Left \cup {s}
    BY <1>1, <1>3, <2>1 DEF Left
  <2> QED BY <1>1, <1>3, <2>2 DEF Contract!Leave, Left
<1> QED BY <1>2, <1>3

\* check_handshake_credentials_ack: the login is noted, and join admits the
\* session, throws after it drew the id, or finds the room full.
LEMMA Joins ==
    ASSUME TypeOK, ReadChains, NEW s \in Sessions
    PROVE  /\ JoinFull(s) => UNCHANGED contractVars \/ Contract!Login(s)
           /\ JoinThrows(s) => Contract!TurnAway(s)
           /\ JoinAdmits(s) => Contract!Enter(s)
<1>0. s # 0
  BY DEF Sessions
<1>1. ASSUME JoinFull(s) PROVE UNCHANGED contractVars \/ Contract!Login(s)
  <2>1. /\ loggedIn' \in {loggedIn, loggedIn \cup {s}}
        /\ UNCHANGED << participants_, m_id, max_participants_ >>
    BY <1>1 DEF JoinFull, CredentialsAck
  <2>2. UNCHANGED << participants_, Left, max_participants_ >>
    BY <2>1 DEF Left
  <2> QED BY <2>1, <2>2 DEF Contract!Login, contractVars, Left
<1>2. ASSUME JoinThrows(s) PROVE Contract!TurnAway(s)
  <2>0. PICK f \in Presented(s) :
           \E started \in EarlyRead(s, "room", PassesCredentials(s, f)) :
              CredentialsAck(s, f, started)
    BY <1>2 DEF JoinThrows
  <2>1. PICK started \in EarlyRead(s, "room", PassesCredentials(s, f)) :
           CredentialsAck(s, f, started)
    BY <2>0
  <2>2. s \notin participants_ /\ m_id[s] = 0
    BY <2>1, CredentialsChain
  <2>3. /\ loggedIn' \in {loggedIn, loggedIn \cup {s}}
        /\ m_id' = [m_id EXCEPT ![s] = s]
        /\ UNCHANGED << participants_, max_participants_ >>
    BY <1>2 DEF JoinThrows, CredentialsAck
  <2>4. Left' = Left \cup {s}
    BY <1>0, <2>2, <2>3 DEF Left, TypeOK
  <2> QED BY <2>2, <2>3, <2>4 DEF Contract!TurnAway, Left
<1>3. ASSUME JoinAdmits(s) PROVE Contract!Enter(s)
  <2>0. PICK f \in Presented(s) :
           \E started \in EarlyRead(s, "room", PassesCredentials(s, f)) :
              CredentialsAck(s, f, started) /\ PassesCredentials(s, f)
    BY <1>3 DEF JoinAdmits
  <2>1. PICK started \in EarlyRead(s, "room", PassesCredentials(s, f)) :
           CredentialsAck(s, f, started) /\ PassesCredentials(s, f)
    BY <2>0
  <2>2. s \notin participants_ /\ m_id[s] = 0
    BY <2>1, CredentialsChain
  <2>3. /\ loggedIn' = loggedIn \cup {s} /\ max_participants_' = max_participants_
        /\ m_id' = [m_id EXCEPT ![s] = s] /\ participants_' = participants_ \cup {s}
    BY <1>3, <2>1 DEF JoinAdmits, CredentialsAck, PassesCredentials, RoomBecomes
  <2>4. Left' = Left /\ s \notin Left
    BY <1>0, <2>2, <2>3 DEF Left, TypeOK
  <2>5. Cardinality(participants_) < max_participants_
    <3>1. Cardinality(participants_) \in Nat /\ max_participants_ \in Nat
      BY SessionsFinite, FS_CardinalityType DEF TypeOK
    <3> QED BY <1>3, <3>1 DEF JoinAdmits, RoomFull
  <2>6. /\ s \notin participants_ \cup Left
        /\ loggedIn' \in {loggedIn, loggedIn \cup {s}} /\ s \in loggedIn'
        /\ participants_' = participants_ \cup {s}
        /\ UNCHANGED << Left, max_participants_ >>
    BY <2>2, <2>3, <2>4
  <2>7. Contract!Cardinality(participants_) = Cardinality(participants_)
    BY DEF Contract!Cardinality, Cardinality, Contract!IsFiniteSet, IsFiniteSet
  <2> QED BY <2>5, <2>6, <2>7 DEF Contract!Enter, Left
<1> QED BY <1>1, <1>2, <1>3

\* Each handler of the io thread is one step of the contract, or none.
LEMMA HandlersKeep ==
    ASSUME TypeOK, ReadChains, IoThread
    PROVE  \/ UNCHANGED contractVars
           \/ \E s \in Sessions : \/ Contract!Login(s) \/ Contract!Enter(s)
                                  \/ Contract!TurnAway(s) \/ Contract!Leave(s)
<1>1. CASE PollEnds
  BY <1>1, Stutters DEF PollEnds, roomVars, historyVars
<1>2. CASE AcceptHandler
  BY <1>2, Stutters
  DEF AcceptHandler, AcceptError, StartThrows, StartHandshake,
      sessionVars, roomVars, historyVars
<1>3. ASSUME NEW s \in Sessions, \/ HelloAck(s) \/ HelloAckOverreads(s)
                                \/ HandshakeIgnores(s) \/ HandshakeReadError(s)
      PROVE  UNCHANGED contractVars
  BY <1>3, Stutters
  DEF HelloAck, HelloAckOverreads, HandshakeIgnores, HandshakeReadError, roomVars, historyVars
<1>4. ASSUME NEW s \in Sessions, JoinFull(s) \/ JoinThrows(s) \/ JoinAdmits(s)
      PROVE  \/ UNCHANGED contractVars
             \/ Contract!Login(s) \/ Contract!Enter(s) \/ Contract!TurnAway(s)
  BY <1>4, Joins
<1>5. ASSUME NEW s \in Sessions,
             \/ JoinAck(s) \/ JoinAckOfStranger(s) \/ JoinAckOverruns(s)
             \/ NewAck(s) \/ UpdateAck(s)
             \/ LeaveAckOfStranger(s) \/ OtherFrame(s) \/ Deliver(s) \/ DeliverToDestroyed(s)
      PROVE  UNCHANGED contractVars
  BY <1>5, Stutters
  DEF JoinAck, JoinAckOfStranger, JoinAckOverruns, NewAck, UpdateAck, LeaveAckOfStranger,
      OtherFrame, Deliver, DeliverToDestroyed, sessionVars, roomVars, historyVars
<1>6. ASSUME NEW s \in Sessions, LeaveAck(s) \/ RoomReadError(s) \/ WriteErrorHandler(s)
      PROVE  UNCHANGED contractVars \/ Contract!Leave(s)
  BY <1>6, Leaves
  DEF LeaveAck, RoomReadError, WriteErrorHandler, Departure, sessionVars, historyVars
<1> QED BY <1>1, <1>2, <1>3, <1>4, <1>5, <1>6
    DEF IoThread, HandshakeHandler, RoomHandler, DeliveryHandler

\* The console changes the capacity; peers and the reactor change nothing of it.
LEMMA OthersKeep ==
    ASSUME \/ \E s \in Sessions : Connect(s) \/ PeerCloses(s) \/ Reactor(s)
           \/ AcceptFails
           \/ Console
    PROVE  \/ UNCHANGED contractVars
           \/ \E n \in Capacities : Contract!Resize(n)
<1>1. CASE \E s \in Sessions : Connect(s) \/ PeerCloses(s) \/ Reactor(s)
  BY <1>1, Stutters
  DEF Connect, PeerCloses, Reactor, ReadSucceeds, ReadFails, ReadCompletes,
      WriteSucceeds, WriteFails, FreedWriteFails, sessionVars, roomVars, historyVars
<1>2. CASE AcceptFails
  BY <1>2, Stutters DEF AcceptFails, sessionVars, roomVars, historyVars
<1>3. ASSUME NEW n \in Capacities, SetMaxParticipants(n) PROVE Contract!Resize(n)
  <2>1. UNCHANGED << participants_, m_id, loggedIn >> /\ max_participants_' = n
    BY <1>3 DEF SetMaxParticipants, sessionVars, historyVars
  <2>2. Left' = Left
    BY <2>1 DEF Left
  <2> QED BY <2>1, <2>2 DEF Contract!Resize, Left
<1>4. CASE DisconnectAll \/ DisconnectTorn \/ \E s \in Sessions : DisconnectNext(s)
  BY <1>4, Stutters
  DEF DisconnectAll, DisconnectTorn, DisconnectNext, sessionVars, roomVars, historyVars
<1> QED BY <1>1, <1>2, <1>3, <1>4 DEF Console

\* Every step of the server is a step of the contract or leaves it alone.
LEMMA StepsKeep ==
    ASSUME TypeOK, ReadChains, [Next]_vars
    PROVE  [Contract!Next]_contractVars
<1>1. CASE UNCHANGED vars
  BY <1>1, Stutters DEF vars, sessionVars, roomVars, historyVars
<1>2. CASE IoThread
  BY <1>2, HandlersKeep DEF Contract!Next
<1>3. CASE Next /\ ~IoThread
  BY <1>3, OthersKeep DEF Next, Contract!Next
<1> QED BY <1>1, <1>2, <1>3

\* network_room and nr_session implement the contract of the room: join is the
\* only way in, with a login and a free place, and nobody enters twice.
THEOREM ContractKept == Spec => KeepsContract
<1>1. Init => Contract!Init
  BY CapacityAssumption DEF Init, Contract!Init
<1>2. TypeOK /\ ReadChains /\ [Next]_vars => [Contract!Next]_(Contract!vars)
  BY StepsKeep DEF contractVars, Left, Contract!vars
<1> QED BY <1>1, <1>2, ChainsHold, PTL DEF Spec, KeepsContract, Contract!Spec

\* A session that sent a wrong login is never in the room, although
\* check_handshake_credentials_ack calls join for it: the exception of
\* set_keep_alive on its closed socket comes before the insertion.
THEOREM AdmittedOnlyWithLoginHolds == Spec => []AdmittedOnlyWithLogin
<1>1. Init => AdmittedOnlyWithLogin
  BY DEF Init, AdmittedOnlyWithLogin
<1>2. /\ TypeOK /\ ReadChains /\ AdmittedOnlyWithLogin /\ [Next]_vars
      => AdmittedOnlyWithLogin'
  <2> SUFFICES ASSUME TypeOK, ReadChains, AdmittedOnlyWithLogin, [Next]_vars
               PROVE  AdmittedOnlyWithLogin'
    OBVIOUS
  <2>1. [Contract!Next]_contractVars
    BY StepsKeep
  <2>2. CASE UNCHANGED contractVars
    BY <2>2 DEF contractVars, AdmittedOnlyWithLogin
  <2>3. CASE Contract!Next
    BY <2>3 DEF Contract!Next, Contract!Login, Contract!Enter, Contract!TurnAway,
                Contract!Leave, Contract!Resize, AdmittedOnlyWithLogin
  <2> QED BY <2>1, <2>2, <2>3
<1> QED BY <1>1, <1>2, ChainsHold, PTL DEF Spec
-----------------------------------------------------------------------------
(* The service stays up for orderly clients.  The inductive invariant says *)
(* where each of them is in its script, that only sound handlers are       *)
(* queued, and that a connected session is held by its chain of reads.     *)

\* Peer s may have sent frame f as one of its first k.
Offered(s, f, k) == \E i \in 1 .. k : f \in Script[s][i]

\* A slow peer may be thrown out by a write that fails; nobody else is.
HasLeft(s) == m_id[s] # 0 /\ s \notin participants_ /\ s \notin SlowPeers

\* What k frames handled say of a session read in loop l: a configuration
\* follows HELLO_ACK, the room's loop the right credentials, a departure
\* LEAVE_ACK.
Progress(s, l, k) ==
    /\ l = "handshake" /\ m_descriptor[s] # "empty" => Offered(s, "HANDSHAKE_HELLO_ACK", k)
    /\ l = "room" => m_id[s] # 0 /\ Offered(s, "CREDENTIALS_GOOD", k)
    /\ HasLeft(s) => Offered(s, "PARTICIPANT_LEAVE_ACK", k)

\* The last frame that was sent, reported to a loop it may be reported to.
Reported(s, l, f) ==
    /\ sent[s] \in DOMAIN Script[s] /\ f \in Script[s][sent[s]]
    /\ Progress(s, l, sent[s] - 1)

\* No operation has failed, except the writes of slow peers, no session is posted
\* to before it is accepted, and nothing is known of one that is being accepted.
Unsound == { h \in Handlers :
    \/ h.type = "accept" /\ h.session # 0 /\ m_descriptor[h.session] # "empty"
    \/ h.type = "write" /\ h.session \notin SlowPeers
    \/ h.type = "deliver" /\ peer[h.session] = "away"
    \/ h.type = "read" /\ ~Reported(h.session, h.loop, h.frame) }

Served(s) ==
    /\ peer[s] # "gone"
    /\ peer[s] = "away" => writes[s] = 0 /\ m_descriptor[s] = "empty"
    /\ peer[s] # "away" => IsOpen(s) /\ (reads[s] # {} \/ ~Never(ready, Carriers(s)))
    /\ sent[s] <= Len(Script[s])
    /\ \A l \in reads[s] : Progress(s, l, sent[s])
    /\ m_descriptor[s] # "overlong"

\* The console only changes the capacity, and leaves everybody a place.
Unhindered == /\ svc = "running" /\ sweep = {} /\ sweeps = 0
              /\ max_participants_ >= MaxSessions

Peaceful == Unhindered /\ Never(ready, Unsound) /\ \A s \in Sessions : Served(s)

\* Script is what PeersAssumption says.
LEMMA ScriptFacts ==
    ASSUME NEW s \in Sessions
    PROVE  /\ Script[s] \in Seq(SUBSET Frames)
           /\ Len(Script[s]) \in Nat /\ DOMAIN Script[s] = 1 .. Len(Script[s])
           /\ \A i \in 1 .. Len(Script[s]) : Script[s][i] \subseteq Frames
<1>1. Script[s] \in Seq(SUBSET Frames)
  BY PeersAssumption
<1> QED BY <1>1, LenProperties

\* What the handlers in the queue are.
LEMMA UnsoundKinds ==
    ASSUME NEW s \in Sessions
    PROVE  /\ Poll \notin Unsound' /\ Accepted(0) \notin Unsound'
           /\ m_descriptor'[s] = "empty" => Accepted(s) \notin Unsound'
           /\ Accepted(s) \notin Unsound => m_descriptor[s] = "empty"
           /\ s \notin SlowPeers <=> WriteError(s) \in Unsound
           /\ s \in SlowPeers => WriteError(s) \notin Unsound'
           /\ \A m \in Messages : peer'[s] # "away" => Delivery(s, m) \notin Unsound'
           /\ \A m \in Messages : Delivery(s, m) \notin Unsound => peer[s] # "away"
           /\ \A l \in Loops, f \in Frames \cup {"error"} :
                 /\ ReadDone(s, l, f) \notin Unsound => Reported(s, l, f)
                 /\ Reported(s, l, f)' => ReadDone(s, l, f) \notin Unsound'
<1>1. s # 0
  BY DEF Sessions
<1> QED BY <1>1, HandlerKinds DEF Unsound, Poll, Accepted, WriteError, Delivery, ReadDone

\* Deliveries to sessions that are connected.
LEMMA DeliveriesSound ==
    ASSUME NEW p \in Seq(Quiet),
           \A i \in DOMAIN p : p[i].type = "deliver" /\ peer'[p[i].session] # "away"
    PROVE  p \in Seq(Handlers) /\ Never(p, Unsound')
<1>1. p \in Seq(Handlers)
  BY QuietHandlers
<1>2. ASSUME NEW i \in DOMAIN p PROVE p[i] \notin Unsound'
  BY <1>2 DEF Unsound
<1> QED BY <1>1, <1>2 DEF Never

\* Whoever is in the room is connected.
LEMMA MembersConnected ==
    ASSUME TypeOK, ReadChains
    PROVE  \A t \in participants_ : t \in Sessions /\ peer[t] # "away"
<1> SUFFICES ASSUME NEW t \in participants_ PROVE t \in Sessions /\ peer[t] # "away"
  OBVIOUS
<1>1. t \in Sessions
  BY DEF TypeOK
<1>2. m_id[t] = t /\ t # 0
  BY <1>1 DEF ReadChains, ChainOK, MemberRead, Sessions
<1> QED BY <1>1, <1>2 DEF ReadChains, ChainOK, NoneYet

\* deliver_byte for the members of the room.
LEMMA DeliverToAllSound ==
    ASSUME TypeOK, ReadChains, peer' = peer, NEW S \in SUBSET participants_, NEW m \in Messages
    PROVE  DeliverToAll(S, m) \in Seq(Handlers) /\ Never(DeliverToAll(S, m), Unsound')
<1>1. S \in SUBSET Sessions /\ \A t \in S : peer'[t] # "away"
  BY MembersConnected
<1>2. DeliverToAll(S, m) \in Seq(Quiet)
  BY <1>1, DeliverToAllType
<1>3. Cardinality(S) \in Nat /\ SetToSeq(S) \in [1 .. Cardinality(S) -> S]
  BY <1>1, SessionsFinite, SetToSeqType
<1>4. \A i \in DOMAIN DeliverToAll(S, m) :
         /\ DeliverToAll(S, m)[i].type = "deliver"
         /\ peer'[DeliverToAll(S, m)[i].session] # "away"
  BY <1>1, <1>3 DEF DeliverToAll, Delivery
<1> QED BY <1>2, <1>4, DeliveriesSound

\* The introductions of a newcomer go to it and to the members.
LEMMA IntroductionsSound ==
    ASSUME TypeOK, ReadChains, peer' = peer, NEW s \in Sessions, peer[s] # "away"
    PROVE  Introductions(s) \in Seq(Handlers) /\ Never(Introductions(s), Unsound')
<1> DEFINE others == SetToSeq(Without(m_id[s]))
           toMembers == DeliverToAll(Without(m_id[s]), ParticipantNew(s, "json"))
           toNewcomer == [i \in DOMAIN others |->
                            Delivery(s, ParticipantNew(others[i], m_descriptor[others[i]]))]
<1>1. Without(m_id[s]) \in SUBSET participants_ /\ Without(m_id[s]) \in SUBSET Sessions
  BY DEF TypeOK, Without
<1>2. Cardinality(Without(m_id[s])) \in Nat
      /\ others \in [1 .. Cardinality(Without(m_id[s])) -> Without(m_id[s])]
  BY <1>1, SessionsFinite, SetToSeqType
<1>3. ParticipantNew(s, "json") \in Messages
  BY MessageType DEF TypeOK, Descriptors
<1>4. toMembers \in Seq(Handlers) /\ Never(toMembers, Unsound')
  BY <1>1, <1>3, DeliverToAllSound
<1>5. \A i \in DOMAIN others :
         Delivery(s, ParticipantNew(others[i], m_descriptor[others[i]])) \in Quiet
  <2> SUFFICES ASSUME NEW i \in DOMAIN others
               PROVE  ParticipantNew(others[i], m_descriptor[others[i]]) \in Messages
    BY QuietHandlers
  <2>1. others[i] \in Sessions /\ m_descriptor[others[i]] \in Descriptors
    BY <1>1, <1>2 DEF TypeOK
  <2> QED BY <2>1, MessageType DEF TypeOK
<1>6. toNewcomer \in Seq(Quiet)
  BY <1>2, <1>5, SeqDef
<1>7. \A i \in DOMAIN toNewcomer :
         toNewcomer[i].type = "deliver" /\ peer'[toNewcomer[i].session] # "away"
  BY DEF Delivery
<1>8. toNewcomer \in Seq(Handlers) /\ Never(toNewcomer, Unsound')
  <2> HIDE DEF toNewcomer
  <2> QED BY <1>6, <1>7, DeliveriesSound
<1>9. Introductions(s) = toMembers \o toNewcomer
  BY DEF Introductions
<1> HIDE DEF toMembers, toNewcomer
<1> QED BY <1>4, <1>8, <1>9, ConcatNever, ConcatProperties

\* A handler that was sound stays so, unless its own session is served.
LEMMA SoundRemains ==
    ASSUME NEW S \in SUBSET Sessions,
           \A t \in Sessions : peer'[t] = "away" => peer[t] = "away",
           \A t \in Sessions \ S : /\ sent'[t] = sent[t] /\ m_id'[t] = m_id[t]
                                   /\ m_descriptor'[t] = m_descriptor[t]
                                   /\ HasLeft(t)' => HasLeft(t)
    PROVE  \A h \in Unsound' : h \in Unsound \/ \E s \in S : h \in Carriers(s)
<1> SUFFICES ASSUME NEW h \in Unsound', h \notin Unsound, \A s \in S : h \notin Carriers(s)
             PROVE  FALSE
  OBVIOUS
<1>1. h \in Handlers
  BY DEF Unsound
<1>2. CASE h.type = "read"
  <2>1. h.session \in Sessions
    BY <1>1, <1>2 DEF Handlers
  <2>2. h.session \notin S
    BY <1>1, <1>2 DEF Carriers
  <2>3. Reported(h.session, h.loop, h.frame) /\ ~Reported(h.session, h.loop, h.frame)'
    BY <1>1, <1>2 DEF Unsound
  <2> QED BY <2>1, <2>2, <2>3 DEF Reported, Progress
<1>3. CASE h.type = "deliver"
  <2>1. h.session \in Sessions
    BY <1>1, <1>3 DEF Handlers
  <2> QED BY <1>1, <1>3, <2>1 DEF Unsound
<1>4. CASE h.type = "accept"
  <2>1. h.session # 0 => h.session \in Sessions
    BY <1>1, <1>4 DEF Handlers, Ids, Sessions
  <2>2. h.session # 0 => h.session \notin S
    BY <1>1, <1>4 DEF Carriers
  <2> QED BY <1>1, <1>4, <2>1, <2>2 DEF Unsound
<1>5. CASE h.type \notin {"read", "deliver", "accept"}
  BY <1>1, <1>5 DEF Unsound
<1> QED BY <1>2, <1>3, <1>4, <1>5

\* A session the step does not serve.
LEMMA ServedElsewhere ==
    ASSUME NEW t \in Sessions, Served(t),
           reads'[t] = reads[t], sent'[t] = sent[t], m_id'[t] = m_id[t],
           m_descriptor'[t] = m_descriptor[t],
           peer'[t] = peer[t], sock'[t] = sock[t], HasLeft(t)' => HasLeft(t),
           peer[t] = "away" => writes'[t] = 0,
           Never(ready', Carriers(t)) => Never(ready, Carriers(t))
    PROVE  Served(t)'
BY DEF Served, IsOpen, Progress

\* A step that serves no session: deliveries, completed writes, the poll, the
\* console.
LEMMA Undisturbed ==
    ASSUME TypeOK, Peaceful, Unhindered',
           NEW p \in Seq(Handlers), Never(p, Unsound'),
           \/ ready' = ready
           \/ ready' = ready \o p
           \/ /\ ready # << >> /\ ready' = Tail(ready) \o p
              /\ \A t \in Sessions : Head(ready) \notin Carriers(t),
           UNCHANGED << sock, m_id, m_descriptor, reads, peer, sent >>,
           \A t \in Sessions \ SlowPeers : t \in participants_ => t \in participants_',
           \A t \in Sessions : peer[t] = "away" => writes'[t] = 0
    PROVE  Peaceful'
<1>1. /\ ready \in Seq(Handlers)
      /\ ready # << >> => Tail(ready) \in Seq(Handlers)
  BY HeadTailProperties DEF TypeOK
<1>2. \A t \in Sessions : HasLeft(t)' => HasLeft(t)
  BY DEF HasLeft
<1>3. \A h \in Unsound' : h \in Unsound
  <2>1. \A h \in Unsound' : h \in Unsound \/ \E s \in {} : h \in Carriers(s)
    <3>1. {} \in SUBSET Sessions
      OBVIOUS
    <3>2. \A t \in Sessions \ {} : /\ sent'[t] = sent[t] /\ m_id'[t] = m_id[t]
                                   /\ m_descriptor'[t] = m_descriptor[t]
                                   /\ HasLeft(t)' => HasLeft(t)
      BY <1>2
    <3>3. \A t \in Sessions : peer'[t] = "away" => peer[t] = "away"
      OBVIOUS
    <3> QED BY <3>1, <3>2, <3>3, SoundRemains
  <2> QED BY <2>1
<1>4. Never(ready, Unsound') /\ (ready # << >> => Never(Tail(ready), Unsound'))
  <2>1. Never(ready, Unsound')
    BY <1>3 DEF Peaceful, Never
  <2> QED BY <1>1, <2>1, TailFacts
<1>5. Never(ready', Unsound')
  BY <1>1, <1>4, ConcatNever
<1>6. ASSUME NEW t \in Sessions, Never(ready', Carriers(t)) PROVE Never(ready, Carriers(t))
  <2>1. CASE ready' = ready \/ ready' = ready \o p
    BY <1>1, <1>6, <2>1, ConcatNever
  <2>2. CASE /\ ready # << >> /\ ready' = Tail(ready) \o p
             /\ \A k \in Sessions : Head(ready) \notin Carriers(k)
    <3>1. Never(Tail(ready), Carriers(t))
      BY <1>1, <1>6, <2>2, ConcatNever
    <3> QED BY <1>1, <2>2, <3>1, TailFacts
  <2> QED BY <2>1, <2>2
<1>7. \A t \in Sessions : Served(t)'
  BY <1>2, <1>6, ServedElsewhere DEF Peaceful
<1> QED BY <1>5, <1>7 DEF Peaceful

\* The read a handler of s starts: outstanding, or reported with the frame
\* that follows.
LEMMA StartedSound ==
    ASSUME TypeOK, NEW s \in Sessions, NEW l \in Loops, Served(s), reads[s] = {},
           NEW started \in EarlyRead(s, l, TRUE), Reading(s, l, started),
           l = "handshake" /\ m_descriptor'[s] # "empty" =>
              Offered(s, "HANDSHAKE_HELLO_ACK", sent[s]),
           l = "room" => m_id'[s] # 0 /\ Offered(s, "CREDENTIALS_GOOD", sent[s]),
           HasLeft(s)' => Offered(s, "PARTICIPANT_LEAVE_ACK", sent[s])
    PROVE  /\ started \in Seq(Handlers) /\ Never(started, Unsound')
           /\ \A t \in Sessions : t # s => sent'[t] = sent[t] /\ reads'[t] = reads[t]
           /\ sent'[s] <= Len(Script[s])
           /\ \A k \in reads'[s] : Progress(s, k, sent[s])'
<1>1. /\ sent[s] \in Nat /\ Len(Script[s]) \in Nat /\ DOMAIN Script[s] = 1 .. Len(Script[s])
      /\ sent[s] <= Len(Script[s])
  BY ScriptFacts DEF TypeOK, Served
<1>2. \A t \in Sessions : t # s => sent'[t] = sent[t] /\ reads'[t] = reads[t]
  BY DEF Reading, TypeOK
<1>3. CASE started = << >>
  <2>1. reads'[s] = {l} /\ sent'[s] = sent[s]
    BY <1>3 DEF Reading, TypeOK
  <2>2. started \in Seq(Handlers) /\ Never(started, Unsound')
    BY <1>3, EmptySeq DEF Never
  <2>3. Progress(s, l, sent[s])'
    BY <2>1 DEF Progress
  <2> QED BY <1>1, <1>2, <2>1, <2>2, <2>3
<1>4. ASSUME NEW f \in Arrivals(s), started = << ReadDone(s, l, f) >>
      PROVE  /\ started \in Seq(Handlers) /\ Never(started, Unsound')
             /\ sent'[s] <= Len(Script[s]) /\ reads'[s] = {}
  <2>1. /\ f \in Frames /\ sent[s] < Len(Script[s]) /\ f \in Script[s][sent[s] + 1]
    BY DEF Arrivals, Served
  <2>2. started # << >> /\ started[1].frame = f
    BY <1>4 DEF ReadDone
  <2>3. reads'[s] = {} /\ sent'[s] = sent[s] + 1
    BY <2>1, <2>2 DEF Reading, TypeOK
  <2>4. sent'[s] \in DOMAIN Script[s] /\ f \in Script[s][sent'[s]] /\ sent'[s] - 1 = sent[s]
    BY <1>1, <2>1, <2>3
  <2>5. Reported(s, l, f)'
    BY <2>4 DEF Reported, Progress
  <2>6. ReadDone(s, l, f) \notin Unsound'
    BY <2>1, <2>5, UnsoundKinds
  <2>7. started \in Seq(Handlers) /\ Never(started, Unsound')
    BY <1>4, <2>1, <2>6, HandlerKinds DEF Never
  <2> QED BY <1>1, <2>3, <2>4, <2>7
<1>5. started = << >> \/ \E f \in Arrivals(s) : started = << ReadDone(s, l, f) >>
  BY DEF EarlyRead, StartRead
<1> QED BY <1>2, <1>3, <1>4, <1>5

\* A handler of s takes its frame and carries the chain on.
LEMMA CarriedOn ==
    ASSUME TypeOK, ReadChains, Peaceful, Unhindered',
           NEW s \in Sessions, ready # << >>, Head(ready) \in Carriers(s),
           NEW l \in Loops, NEW started \in EarlyRead(s, l, TRUE), Reading(s, l, started),
           l = "handshake" /\ m_descriptor'[s] # "empty" =>
              Offered(s, "HANDSHAKE_HELLO_ACK", sent[s]),
           l = "room" => m_id'[s] # 0 /\ Offered(s, "CREDENTIALS_GOOD", sent[s]),
           HasLeft(s)' => Offered(s, "PARTICIPANT_LEAVE_ACK", sent[s]),
           NEW q \in Seq(Quiet), Never(q, Unsound'),
           NEW p \in { started, started \o q, q \o started }, Return(p),
           UNCHANGED << sock, peer, writes >>, m_descriptor'[s] # "overlong",
           \A t \in Sessions : t # s => /\ m_id'[t] = m_id[t]
                                        /\ m_descriptor'[t] = m_descriptor[t],
           participants_ \subseteq participants_' \cup {s}
    PROVE  Peaceful'
<1>1. /\ ready \in Seq(Handlers) /\ Tail(ready) \in Seq(Handlers)
      /\ ready' = Tail(ready) \o p
      /\ reads[s] = {} /\ peer[s] # "away" /\ Never(Tail(ready), Carriers(s))
  BY HeadCarries DEF TypeOK, ReadChains, Return
<1>2. /\ Served(s)
      /\ started \in Seq(Handlers) /\ Never(started, Unsound')
      /\ \A t \in Sessions : t # s => sent'[t] = sent[t] /\ reads'[t] = reads[t]
      /\ sent'[s] <= Len(Script[s])
      /\ \A k \in reads'[s] : Progress(s, k, sent[s])'
  BY <1>1, StartedSound DEF Peaceful
<1>3. ContinuesIn(p, s, l) /\ p \in Seq(Handlers) /\ Never(p, Unsound')
  <2>1. ContinuesIn(started, s, l)
    BY <1>1, StartedReads, ReadingContinues
  <2>2. ContinuesIn(p, s, l)
    BY <2>1, QuietContinues
  <2>3. q \in Seq(Handlers)
    BY QuietHandlers
  <2>4. Never(p, Unsound')
    BY <1>2, <2>3, ConcatNever
  <2> QED BY <2>2, <2>4 DEF ContinuesIn
<1>4. \A t \in Sessions : t # s => (HasLeft(t)' => HasLeft(t))
  BY DEF HasLeft
<1>5. \A h \in Unsound' : h \in Unsound \/ h \in Carriers(s)
  <2>1. \A t \in Sessions \ {s} : /\ sent'[t] = sent[t] /\ m_id'[t] = m_id[t]
                                  /\ m_descriptor'[t] = m_descriptor[t]
                                  /\ HasLeft(t)' => HasLeft(t)
    BY <1>2, <1>4
  <2>2. {s} \in SUBSET Sessions
    OBVIOUS
  <2> QED BY <2>1, <2>2, SoundRemains
<1>6. Never(ready', Unsound')
  <2>1. Never(Tail(ready), Unsound)
    BY <1>1, TailFacts DEF Peaceful
  <2>2. Never(Tail(ready), Unsound')
    BY <1>1, <1>5, <2>1 DEF Never
  <2> QED BY <1>1, <1>3, <2>2, ConcatNever
<1>7. Served(s)'
  <2>1. reads'[s] # {} \/ ~Never(ready', Carriers(s))
    BY <1>1, <1>3, ConcatNever DEF ContinuesIn
  <2> QED BY <1>1, <1>2, <2>1 DEF Served, IsOpen
<1>8. ASSUME NEW t \in Sessions, t # s PROVE Served(t)'
  <2>1. Never(ready', Carriers(t)) => Never(ready, Carriers(t))
    <3>1. Head(ready) \notin Carriers(t)
      BY <1>8 DEF Carriers
    <3> QED BY <1>1, <1>3, <3>1, ConcatNever, TailFacts
  <2>2. Served(t)
    BY DEF Peaceful
  <2>3. peer[t] = "away" => writes'[t] = 0
    BY <2>2 DEF Served
  <2> QED BY <1>2, <1>4, <1>8, <2>1, <2>2, <2>3, ServedElsewhere
<1> QED BY <1>6, <1>7, <1>8 DEF Peaceful

-----------------------------------------------------------------------------
(* The steps that remain, and those that never happen.                     *)

\* The handler the io thread takes is sound.
LEMMA HeadSound ==
    ASSUME TypeOK, Peaceful, ready # << >>
    PROVE  Head(ready) \notin Unsound
BY TailFacts DEF TypeOK, Peaceful

\* A frame read in the handshake: not a wrong login, the first right one, and
\* the first HELLO_ACK, in the layout the server reads.
LEMMA HandshakeFrame ==
    ASSUME Orderliness, TypeOK, ReadChains, Peaceful, ready # << >>,
           NEW s \in Sessions, NEW f \in Frames \cup {"error"},
           Head(ready) = ReadDone(s, "handshake", f)
    PROVE  /\ Head(ready) \in Carriers(s) /\ peer[s] # "away" /\ IsOpen(s)
           /\ m_id[s] = 0 /\ s \notin participants_ /\ ~HasLeft(s)
           /\ f \in Frames \ {"CREDENTIALS_BAD", "HANDSHAKE_HELLO_ACK_OVERSIZED"}
           /\ f = "CREDENTIALS_GOOD" => Offered(s, "CREDENTIALS_GOOD", sent[s])
           /\ m_descriptor[s] # "empty" => f # "HANDSHAKE_HELLO_ACK"
           /\ f = "HANDSHAKE_HELLO_ACK" \/ m_descriptor[s] # "empty" =>
                 Offered(s, "HANDSHAKE_HELLO_ACK", sent[s])
<1>1. Head(ready) \in Carriers(s) /\ Head(ready) \in HandshakeCarriers(s)
  BY HeadOf
<1>2. peer[s] # "away" /\ IsOpen(s) /\ m_id[s] = 0 /\ s \notin participants_
  BY <1>1, HeadCarries DEF ReadChains, Peaceful, Served
<1>3. Reported(s, "handshake", f)
  BY HeadSound, UnsoundKinds DEF Loops
<1>4. /\ sent[s] \in 1 .. Len(Script[s]) /\ Len(Script[s]) \in Nat
      /\ DOMAIN Script[s] = 1 .. Len(Script[s])
      /\ f \in Script[s][sent[s]] /\ f \in Frames
      /\ m_descriptor[s] # "empty" => Offered(s, "HANDSHAKE_HELLO_ACK", sent[s] - 1)
  BY <1>3, ScriptFacts DEF Reported, Progress
<1>5. KeepsToProtocol(Script[s])
  BY DEF Orderliness
<1>6. f \notin {"CREDENTIALS_BAD", "HANDSHAKE_HELLO_ACK_OVERSIZED"}
  BY <1>4, <1>5 DEF KeepsToProtocol
<1>7. \A g \in { "CREDENTIALS_GOOD", "HANDSHAKE_HELLO_ACK" } :
         f = g => Offered(s, g, sent[s])
  BY <1>4 DEF Offered
<1>8. m_descriptor[s] # "empty" =>
         f # "HANDSHAKE_HELLO_ACK" /\ Offered(s, "HANDSHAKE_HELLO_ACK", sent[s])
  <2> SUFFICES ASSUME m_descriptor[s] # "empty"
               PROVE  f # "HANDSHAKE_HELLO_ACK" /\ Offered(s, "HANDSHAKE_HELLO_ACK", sent[s])
    OBVIOUS
  <2>1. PICK i \in 1 .. sent[s] - 1 : "HANDSHAKE_HELLO_ACK" \in Script[s][i]
    BY <1>4 DEF Offered
  <2>2. i \in 1 .. sent[s] /\ i \in 1 .. Len(Script[s]) /\ i < sent[s]
    BY <1>4
  <2>3. "HANDSHAKE_HELLO_ACK" \notin Script[s][sent[s]]
    BY <1>4, <1>5, <2>1, <2>2 DEF KeepsToProtocol
  <2> QED BY <1>4, <2>1, <2>2, <2>3 DEF Offered
<1> QED BY <1>1, <1>2, <1>4, <1>6, <1>7, <1>8 DEF HasLeft

\* A frame read in the room: a room frame, and JOIN_ACK or LEAVE_ACK only of a
\* session that is a member.
LEMMA RoomFrame ==
    ASSUME Orderliness, TypeOK, ReadChains, Peaceful, ready # << >>,
           NEW s \in Sessions, NEW f \in Frames \cup {"error"},
           Head(ready) = ReadDone(s, "room", f)
    PROVE  /\ Head(ready) \in Carriers(s) /\ peer[s] # "away" /\ IsOpen(s) /\ m_id[s] # 0
           /\ f \in RoomFrames
           /\ f \in Presence => s \in participants_
           /\ Offered(s, "CREDENTIALS_GOOD", sent[s])
           /\ HasLeft(s) \/ f = "PARTICIPANT_LEAVE_ACK" =>
                 Offered(s, "PARTICIPANT_LEAVE_ACK", sent[s])
<1>1. Head(ready) \in Carriers(s)
  BY HeadOf
<1>2. peer[s] # "away" /\ IsOpen(s)
  BY <1>1, HeadCarries DEF ReadChains, Peaceful, Served
<1>3. Reported(s, "room", f)
  BY HeadSound, UnsoundKinds DEF Loops
<1>4. /\ sent[s] \in 1 .. Len(Script[s]) /\ Len(Script[s]) \in Nat
      /\ DOMAIN Script[s] = 1 .. Len(Script[s])
      /\ f \in Script[s][sent[s]]
      /\ m_id[s] # 0 /\ Offered(s, "CREDENTIALS_GOOD", sent[s] - 1)
      /\ HasLeft(s) => Offered(s, "PARTICIPANT_LEAVE_ACK", sent[s] - 1)
  BY <1>3, ScriptFacts DEF Reported, Progress
<1>5. \A i \in 1 .. sent[s] - 1 : i \in 1 .. sent[s] /\ i \in 1 .. Len(Script[s]) /\ i < sent[s]
  BY <1>4
<1>6. KeepsToProtocol(Script[s])
  BY DEF Orderliness
<1>7. f \in RoomFrames
  <2>1. PICK i \in 1 .. sent[s] - 1 : "CREDENTIALS_GOOD" \in Script[s][i]
    BY <1>4 DEF Offered
  <2>2. Script[s][sent[s]] \subseteq RoomFrames
    BY <1>4, <1>5, <1>6, <2>1 DEF KeepsToProtocol
  <2> QED BY <1>4, <2>2
<1>8. HasLeft(s) => f \notin Presence
  <2> SUFFICES ASSUME HasLeft(s) PROVE f \notin Presence
    OBVIOUS
  <2>1. PICK i \in 1 .. sent[s] - 1 : "PARTICIPANT_LEAVE_ACK" \in Script[s][i]
    BY <1>4 DEF Offered
  <2>2. Script[s][sent[s]] \cap Presence = {}
    BY <1>4, <1>5, <1>6, <2>1 DEF KeepsToProtocol
  <2> QED BY <1>4, <2>2
<1>9. /\ Offered(s, "CREDENTIALS_GOOD", sent[s])
      /\ HasLeft(s) => Offered(s, "PARTICIPANT_LEAVE_ACK", sent[s])
      /\ f = "PARTICIPANT_LEAVE_ACK" => Offered(s, "PARTICIPANT_LEAVE_ACK", sent[s])
  BY <1>4, <1>5 DEF Offered
<1>10. s \in SlowPeers => f \notin Presence
  BY <1>4 DEF Orderliness
<1> QED BY <1>1, <1>2, <1>4, <1>7, <1>8, <1>9, <1>10 DEF HasLeft

\* One message to a session that is connected.
LEMMA OneDelivery ==
    ASSUME NEW s \in Sessions, NEW m \in Messages, peer'[s] # "away"
    PROVE  << Delivery(s, m) >> \in Seq(Quiet) /\ Never(<< Delivery(s, m) >>, Unsound')
BY QuietHandlers, UnsoundKinds DEF Never

\* do_accept: start finds the peer that connected still there.
LEMMA PeacefulAccept ==
    ASSUME Orderliness, TypeOK, ReadChains, Peaceful, AcceptHandler
    PROVE  Peaceful'
<1>0. Unhindered /\ \A s \in Sessions : Served(s)
  BY DEF Peaceful
<1>1. CASE AcceptError
  <2>1. /\ ready # << >> /\ ready' = Tail(ready) \o << >> /\ Unhindered'
        /\ \A t \in Sessions : Head(ready) \notin Carriers(t)
        /\ UNCHANGED << sock, m_id, m_descriptor, reads, writes, participants_, peer, sent >>
    BY <1>0, <1>1, CarrierFacts
    DEF AcceptError, Return, Unhindered, Accepted, Carriers, Sessions,
        sessionVars, roomVars, consoleVars, peerVars
  <2>2. << >> \in Seq(Handlers) /\ Never(<< >>, Unsound')
    BY EmptySeq DEF Never
  <2>3. \A t \in Sessions : peer[t] = "away" => writes'[t] = 0
    BY <1>0, <2>1 DEF Served
  <2> QED BY <2>1, <2>2, <2>3, Undisturbed
<1>2. ASSUME NEW s \in Sessions, StartThrows(s) PROVE FALSE
  BY <1>0, <1>2 DEF StartThrows, Served
<1>3. ASSUME NEW s \in Sessions, StartHandshake(s) PROVE Peaceful'
  <2> DEFINE hello == << Delivery(s, Message("HANDSHAKE_HELLO", m_id[s])) >>
  <2>1. PICK started \in EarlyRead(s, "handshake", TRUE) :
           Reading(s, "handshake", started) /\ Return(started \o hello)
    BY <1>3 DEF StartHandshake
  <2>2. /\ ready # << >> /\ Head(ready) = Accepted(s) /\ Unhindered'
        /\ UNCHANGED << sock, m_id, m_descriptor, writes, participants_, peer >>
    BY <1>0, <1>3 DEF StartHandshake, Unhindered, roomVars, consoleVars
  <2>3. Head(ready) \in Carriers(s) /\ Head(ready) \in HandshakeCarriers(s)
    BY <2>2, HeadOf
  <2>4. peer[s] # "away" /\ m_id[s] = 0
    BY <2>2, <2>3, HeadCarries DEF ReadChains
  <2>5. hello \in Seq(Quiet) /\ Never(hello, Unsound')
    <3>1. Message("HANDSHAKE_HELLO", m_id[s]) \in Messages
      BY MessageType DEF Heads, TypeOK
    <3> QED BY <2>2, <2>4, <3>1, OneDelivery
  <2>6. ~HasLeft(s)'
    BY <2>2, <2>4 DEF HasLeft
  <2>7. m_descriptor'[s] = "empty"
    BY <2>2, HeadSound, UnsoundKinds
  <2> HIDE DEF hello
  <2> QED BY <2>1, <2>2, <2>3, <2>5, <2>6, <2>7, CarriedOn DEF Loops
<1> QED BY <1>1, <1>2, <1>3 DEF AcceptHandler

\* do_read_handshake answers HELLO_ACK, ignores other frames, and reads on.
LEMMA PeacefulHandshake ==
    ASSUME Orderliness, TypeOK, ReadChains, Peaceful, NEW s \in Sessions,
           \/ HelloAck(s) \/ HelloAckOverreads(s)
           \/ HandshakeIgnores(s) \/ HandshakeReadError(s)
    PROVE  Peaceful'
<1> DEFINE login == << Delivery(s, Message("HANDSHAKE_CREDENTIALS", 0)) >>
<1>1. PICK f \in Frames \cup {"error"} : Head(ready) = ReadDone(s, "handshake", f)
  BY DEF HelloAck, HelloAckOverreads, HandshakeIgnores, HandshakeReadError, HandshakeReads,
         HelloAcks, Frames
<1>2. ready # << >>
  BY DEF HelloAck, HelloAckOverreads, HandshakeIgnores, HandshakeReadError, HandshakeReads
<1>3. /\ Head(ready) \in Carriers(s) /\ peer[s] # "away" /\ IsOpen(s) /\ ~HasLeft(s)
      /\ m_id[s] = 0
      /\ f \in Frames \ {"CREDENTIALS_BAD", "HANDSHAKE_HELLO_ACK_OVERSIZED"}
      /\ m_descriptor[s] # "empty" => f # "HANDSHAKE_HELLO_ACK"
      /\ f = "HANDSHAKE_HELLO_ACK" \/ m_descriptor[s] # "empty" =>
            Offered(s, "HANDSHAKE_HELLO_ACK", sent[s])
  BY <1>1, <1>2, HandshakeFrame
<1>4. \A g : Head(ready) = ReadDone(s, "handshake", g) => g = f
  BY <1>1 DEF ReadDone
<1>5. login \in Seq(Quiet) /\ (peer' = peer => Never(login, Unsound'))
  <2>1. Message("HANDSHAKE_CREDENTIALS", 0) \in Messages
    BY MessageType, BoundsAssumption DEF Heads, Ids
  <2>2. login \in Seq(Quiet)
    BY <2>1, QuietHandlers
  <2>3. peer' = peer => Never(login, Unsound')
    BY <1>3, <2>1, OneDelivery
  <2> QED BY <2>2, <2>3
<1>6. ASSUME NEW started \in EarlyRead(s, "handshake", IsOpen(s)),
             Reading(s, "handshake", started),
             Return(started) \/ Return(login \o started),
             UNCHANGED << svc, sock, m_id, writes, participants_, max_participants_,
                          sweep, sweeps, peer >>,
             \A t \in Sessions : t # s => m_descriptor'[t] = m_descriptor[t],
             m_descriptor'[s] # "overlong",
             m_descriptor'[s] # "empty" => Offered(s, "HANDSHAKE_HELLO_ACK", sent[s])
      PROVE  Peaceful'
  <2>1. started \in EarlyRead(s, "handshake", TRUE)
    BY <1>3, <1>6 DEF IsOpen
  <2>2. ~HasLeft(s)'
    BY <1>3, <1>6 DEF HasLeft
  <2>3. Unhindered'
    BY <1>6 DEF Peaceful, Unhindered
  <2>4. Never(login, Unsound')
    BY <1>5, <1>6
  <2> HIDE DEF login
  <2> QED BY <1>2, <1>3, <1>5, <1>6, <2>1, <2>2, <2>3, <2>4, CarriedOn DEF Loops
<1>7. CASE HelloAck(s)
  <2>1. f = "HANDSHAKE_HELLO_ACK" /\ m_descriptor[s] = "empty"
    BY <1>3, <1>4, <1>7 DEF HelloAck, HandshakeReads, HelloAcks
  <2>2. m_descriptor' = [m_descriptor EXCEPT ![s] = "configuration"]
    BY <1>4, <1>7, <2>1 DEF HelloAck, HandshakeReads, Configured
  <2>3. /\ m_descriptor'[s] = "configuration"
        /\ \A t \in Sessions : t # s => m_descriptor'[t] = m_descriptor[t]
    BY <2>2 DEF TypeOK
  <2>4. PICK started \in EarlyRead(s, "handshake", IsOpen(s)) :
           Reading(s, "handshake", started) /\ Return(login \o started)
    BY <1>7 DEF HelloAck
  <2>5. UNCHANGED << svc, sock, m_id, writes, participants_, max_participants_,
                     sweep, sweeps, peer >>
    BY <1>7 DEF HelloAck, roomVars, consoleVars
  <2> QED BY <1>3, <1>6, <2>1, <2>3, <2>4, <2>5
<1>8. CASE HandshakeIgnores(s)
  <2>1. PICK started \in EarlyRead(s, "handshake", IsOpen(s)) :
           Reading(s, "handshake", started) /\ Return(started)
    BY <1>8 DEF HandshakeIgnores
  <2>2. UNCHANGED << svc, sock, m_id, m_descriptor, writes, participants_, max_participants_,
                     sweep, sweeps, peer >>
    BY <1>8 DEF HandshakeIgnores, roomVars, consoleVars
  <2>3. m_descriptor[s] # "overlong"
    BY DEF Peaceful, Served
  <2> QED BY <1>3, <1>6, <2>1, <2>2, <2>3
<1>9. ~HelloAckOverreads(s) /\ ~HandshakeReadError(s)
  BY <1>3, <1>4 DEF HelloAckOverreads, HandshakeReadError, HandshakeReads, Frames, HelloAcks
<1> QED BY <1>7, <1>8, <1>9

\* There is a place for a session that is not in the room.
LEMMA RoomForAll ==
    ASSUME TypeOK, Unhindered, NEW s \in Sessions, s \notin participants_
    PROVE  ~RoomFull
<1>1. IsFiniteSet(Sessions) /\ Cardinality(Sessions) = MaxSessions
  BY BoundsAssumption, FS_Interval DEF Sessions
<1>2. /\ Cardinality(Sessions \ {s}) = Cardinality(Sessions) - 1
      /\ IsFiniteSet(Sessions \ {s})
  BY <1>1, FS_RemoveElement
<1>3. participants_ \subseteq Sessions \ {s}
  BY DEF TypeOK
<1>4. Cardinality(participants_) <= MaxSessions - 1 /\ Cardinality(participants_) \in Nat
  BY <1>1, <1>2, <1>3, FS_Subset, FS_CardinalityType
<1>5. MaxSessions \in Nat /\ max_participants_ \in Nat /\ max_participants_ >= MaxSessions
  BY BoundsAssumption DEF TypeOK, Unhindered
<1> QED BY <1>4, <1>5 DEF RoomFull

\* check_handshake_credentials_ack: the login is right, the socket open and the
\* room not full, so join admits.
LEMMA PeacefulJoin ==
    ASSUME Orderliness, TypeOK, ReadChains, Peaceful, NEW s \in Sessions,
           JoinFull(s) \/ JoinThrows(s) \/ JoinAdmits(s)
    PROVE  Peaceful'
<1>1. \A f \in Presented(s) : /\ f \in Frames \cup {"error"} /\ ready # << >>
                              /\ Head(ready) = ReadDone(s, "handshake", f)
                              /\ f \in Credentials
  BY DEF Presented, Credentials, Frames
<1>2. PICK g \in Presented(s) : TRUE
  BY DEF JoinFull, JoinThrows, JoinAdmits
<1>3. /\ Head(ready) \in Carriers(s) /\ peer[s] # "away" /\ IsOpen(s)
      /\ m_id[s] = 0 /\ s \notin participants_ /\ ready # << >>
  BY <1>1, <1>2, HandshakeFrame
<1>4. \A f \in Presented(s) : f = "CREDENTIALS_GOOD" /\ PassesCredentials(s, f)
  <2> TAKE f \in Presented(s)
  <2>1. f \in Frames \ {"CREDENTIALS_BAD"} /\ f \in Credentials
    BY <1>1, HandshakeFrame
  <2> QED BY <1>3, <2>1 DEF Credentials, PassesCredentials
<1>5. Offered(s, "CREDENTIALS_GOOD", sent[s])
  BY <1>1, <1>2, <1>4, HandshakeFrame
<1>6. ~RoomFull
  BY <1>3, RoomForAll DEF Peaceful
<1>7. JoinAdmits(s)
  BY <1>4, <1>6 DEF JoinFull, JoinThrows
<1> DEFINE joined == << Delivery(s, Message("PARTICIPANT_JOIN", s)) >>
<1>8. PICK f \in Presented(s) :
         \E started \in EarlyRead(s, "room", PassesCredentials(s, f)) :
            CredentialsAck(s, f, started) /\ Return(started \o joined)
  BY <1>7 DEF JoinAdmits
<1>9. PassesCredentials(s, f) = TRUE
  BY <1>4 DEF PassesCredentials
<1>10. PICK started \in EarlyRead(s, "room", TRUE) :
          Reading(s, "room", started) /\ Return(started \o joined)
  BY <1>8, <1>9 DEF CredentialsAck
<1>11. /\ m_id' = [m_id EXCEPT ![s] = s] /\ participants_' = participants_ \cup {s}
       /\ UNCHANGED << sock, writes, peer, m_descriptor >>
       /\ m_descriptor[s] # "overlong" /\ Unhindered'
  BY <1>7 DEF JoinAdmits, CredentialsAck, RoomBecomes, Peaceful, Unhindered, Served
<1>12. s # 0 /\ s \in Ids /\ m_id'[s] = s /\ \A t \in Sessions : t # s => m_id'[t] = m_id[t]
  BY <1>11 DEF Sessions, Ids, TypeOK
<1>13. ~HasLeft(s)'
  BY <1>11 DEF HasLeft
<1>14. joined \in Seq(Quiet) /\ Never(joined, Unsound')
  <2>1. Message("PARTICIPANT_JOIN", s) \in Messages
    BY <1>12, MessageType DEF Heads
  <2> QED BY <1>3, <1>11, <2>1, OneDelivery
<1> HIDE DEF joined
<1> QED BY <1>3, <1>5, <1>10, <1>11, <1>12, <1>13, <1>14, CarriedOn DEF Loops

\* do_read_byte finds the participant of every frame that names it, and reads on.
LEMMA PeacefulRoom ==
    ASSUME Orderliness, TypeOK, ReadChains, Peaceful, NEW s \in Sessions, RoomHandler(s)
    PROVE  Peaceful'
<1>1. PICK f \in Frames \cup {"error"} : Head(ready) = ReadDone(s, "room", f)
  BY DEF RoomHandler, JoinAck, JoinAckOfStranger, JoinAckOverruns, NewAck, UpdateAck,
         LeaveAck, LeaveAckOfStranger, OtherFrame, RoomReadError, RoomReads, HelloAcks, Frames
<1>2. ready # << >>
  BY DEF RoomHandler, JoinAck, JoinAckOfStranger, JoinAckOverruns, NewAck, UpdateAck,
         LeaveAck, LeaveAckOfStranger, OtherFrame, RoomReadError, RoomReads
<1>3. /\ Head(ready) \in Carriers(s) /\ peer[s] # "away" /\ IsOpen(s) /\ m_id[s] # 0
      /\ f \in RoomFrames
      /\ f \in Presence => s \in participants_
      /\ Offered(s, "CREDENTIALS_GOOD", sent[s])
      /\ HasLeft(s) \/ f = "PARTICIPANT_LEAVE_ACK" => Offered(s, "PARTICIPANT_LEAVE_ACK", sent[s])
  BY <1>1, <1>2, RoomFrame
<1>4. \A g : Head(ready) = ReadDone(s, "room", g) => g = f
  BY <1>1 DEF ReadDone
<1>5. EarlyRead(s, "room", IsOpen(s)) = EarlyRead(s, "room", TRUE)
  BY <1>3 DEF IsOpen
<1>6. ASSUME NEW posted \in Seq(Quiet), Never(posted, Unsound'), ReadsOn(s, posted),
             UNCHANGED << svc, sock, m_id, writes, max_participants_, sweep, sweeps, peer >>,
             m_descriptor' \in { m_descriptor, [m_descriptor EXCEPT ![s] = "json"] },
             participants_ \subseteq participants_' \cup {s},
             HasLeft(s)' => HasLeft(s) \/ f = "PARTICIPANT_LEAVE_ACK"
      PROVE  Peaceful'
  <2>1. PICK started \in EarlyRead(s, "room", TRUE) :
           Reading(s, "room", started) /\ Return(posted \o started)
    BY <1>5, <1>6 DEF ReadsOn
  <2>2. Unhindered' /\ m_id'[s] # 0
    BY <1>3, <1>6 DEF Peaceful, Unhindered
  <2>3. /\ m_descriptor'[s] # "overlong"
        /\ \A t \in Sessions : t # s => m_descriptor'[t] = m_descriptor[t]
    BY <1>6 DEF Peaceful, Served, TypeOK
  <2> QED BY <1>2, <1>3, <1>6, <2>1, <2>2, <2>3, CarriedOn DEF Loops
<1>7. m_id[s] \in Ids /\ Without(m_id[s]) \in SUBSET participants_
      /\ Without(m_id[s]) \in SUBSET Sessions
  BY DEF TypeOK, Without
<1>8. CASE JoinAck(s)
  <2>1. /\ ReadsOn(s, Introductions(s)) /\ participants_' = participants_
        /\ m_descriptor' = [m_descriptor EXCEPT ![s] = "json"]
        /\ UNCHANGED << svc, sock, m_id, writes, max_participants_, sweep, sweeps, peer >>
    BY <1>8 DEF JoinAck, roomVars, consoleVars
  <2>2. Introductions(s) \in Seq(Quiet) /\ Never(Introductions(s), Unsound')
    BY <1>3, <2>1, IntroductionsType, IntroductionsSound
  <2>3. HasLeft(s)' => HasLeft(s)
    BY <2>1 DEF HasLeft
  <2> QED BY <1>6, <2>1, <2>2, <2>3
<1>9. CASE NewAck(s)
  <2>1. /\ ReadsOn(s, << >>) /\ participants_' = participants_ /\ m_descriptor' = m_descriptor
        /\ UNCHANGED << svc, sock, m_id, writes, max_participants_, sweep, sweeps, peer >>
    BY <1>9 DEF NewAck, roomVars, consoleVars
  <2>2. << >> \in Seq(Quiet) /\ Never(<< >>, Unsound')
    BY EmptySeq DEF Never
  <2>3. HasLeft(s)' => HasLeft(s)
    BY <2>1 DEF HasLeft
  <2> QED BY <1>6, <2>1, <2>2, <2>3
<1>10. CASE UpdateAck(s)
  <2> DEFINE posted == DeliverToAll(Without(m_id[s]), Message("PARTICIPANT_UPDATE_ACK", m_id[s]))
  <2>1. /\ ReadsOn(s, posted) /\ participants_' = participants_ /\ m_descriptor' = m_descriptor
        /\ UNCHANGED << svc, sock, m_id, writes, max_participants_, sweep, sweeps, peer >>
    BY <1>10 DEF UpdateAck, roomVars, consoleVars
  <2>2. posted \in Seq(Quiet) /\ Never(posted, Unsound')
    <3>1. Message("PARTICIPANT_UPDATE_ACK", m_id[s]) \in Messages
      BY <1>7, MessageType DEF Heads
    <3> QED BY <1>7, <2>1, <3>1, DeliverToAllType, DeliverToAllSound
  <2>3. HasLeft(s)' => HasLeft(s)
    BY <2>1 DEF HasLeft
  <2> HIDE DEF posted
  <2> QED BY <1>6, <2>1, <2>2, <2>3
<1>11. CASE LeaveAck(s)
  <2> DEFINE posted == DeliverToAll(Without(m_id[s]), Message("PARTICIPANT_LEAVE", m_id[s]))
  <2>1. /\ ReadsOn(s, posted) /\ participants_' = participants_ \ {s}
        /\ m_descriptor' = m_descriptor
        /\ UNCHANGED << svc, sock, m_id, writes, max_participants_, sweep, sweeps, peer >>
    BY <1>11, FindOwn DEF LeaveAck, RoomBecomes
  <2>2. posted \in Seq(Quiet) /\ Never(posted, Unsound')
    <3>1. Message("PARTICIPANT_LEAVE", m_id[s]) \in Messages
      BY <1>7, MessageType DEF Heads
    <3> QED BY <1>7, <2>1, <3>1, DeliverToAllType, DeliverToAllSound
  <2>3. f = "PARTICIPANT_LEAVE_ACK"
    BY <1>4, <1>11 DEF LeaveAck, RoomReads
  <2> HIDE DEF posted
  <2> QED BY <1>6, <2>1, <2>2, <2>3
<1>12. ~JoinAckOfStranger(s) /\ ~LeaveAckOfStranger(s)
  BY <1>3, <1>4, FindOwn DEF JoinAckOfStranger, LeaveAckOfStranger, RoomReads, Presence
<1>13. ~OtherFrame(s) /\ ~RoomReadError(s)
  BY <1>3, <1>4 DEF OtherFrame, RoomReadError, RoomReads, RoomFrames, HelloAcks
<1>14. ~JoinAckOverruns(s)
  BY <1>7 DEF JoinAckOverruns, Peaceful, Served
<1> QED BY <1>8, <1>9, <1>10, <1>11, <1>12, <1>13, <1>14 DEF RoomHandler

\* A write of a slow peer that failed throws it out of the room, and nothing else.
LEMMA PeacefulWriteError ==
    ASSUME TypeOK, ReadChains, Peaceful, NEW s \in Sessions, WriteErrorHandler(s)
    PROVE  Peaceful'
<1> DEFINE posted == DeliverToAll(Without(m_id[s]), Message("PARTICIPANT_LEAVE", m_id[s]))
<1>1. /\ ready # << >> /\ Head(ready) = WriteError(s) /\ ready' = Tail(ready) \o posted
      /\ participants_' = Without(m_id[s])
      /\ UNCHANGED << sock, m_id, m_descriptor, reads, writes, peer, sent >> /\ Unhindered'
  BY DEF WriteErrorHandler, Departure, RoomBecomes, Return, Peaceful, Unhindered,
         sessionVars, peerVars
<1>2. s \in SlowPeers
  BY <1>1, HeadSound, UnsoundKinds
<1>3. \A t \in Sessions : Head(ready) \notin Carriers(t)
  BY <1>1 DEF Carriers, WriteError
<1>4. \A t \in Sessions \ SlowPeers : t \in participants_ => t \in participants_'
  BY <1>1, <1>2, FindOwn
<1>5. posted \in Seq(Handlers) /\ Never(posted, Unsound')
  <2>1. Without(m_id[s]) \in SUBSET participants_
    BY DEF Without
  <2>2. Message("PARTICIPANT_LEAVE", m_id[s]) \in Messages
    BY MessageType DEF Heads, TypeOK
  <2> QED BY <1>1, <2>1, <2>2, DeliverToAllSound
<1>6. \A t \in Sessions : peer[t] = "away" => writes'[t] = 0
  BY <1>1 DEF Peaceful, Served
<1> HIDE DEF posted
<1> QED BY <1>1, <1>3, <1>4, <1>5, <1>6, Undisturbed

\* deliver_byte finds its session held by the chain of reads, and its socket open.
LEMMA PeacefulDelivery ==
    ASSUME TypeOK, ReadChains, Peaceful, NEW s \in Sessions,
           Deliver(s) \/ DeliverToDestroyed(s)
    PROVE  Peaceful'
<1>2. /\ ready # << >> /\ \A t \in Sessions : Head(ready) \notin Carriers(t)
      /\ peer[s] # "away"
  <2>1. PICK m \in Messages : ready # << >> /\ Head(ready) = Delivery(s, m)
    BY DEF Deliver, DeliverToDestroyed
  <2>2. peer[s] # "away"
    BY <2>1, HeadSound, UnsoundKinds
  <2>3. \A t \in Sessions : Head(ready) \notin Carriers(t)
    BY <2>1 DEF Carriers, Delivery
  <2> QED BY <2>1, <2>2, <2>3
<1>3. Served(s) /\ IsOpen(s)
  BY <1>2 DEF Peaceful, Served
<1>4. Alive(s)
  <2>1. CASE reads[s] # {}
    BY <2>1 DEF Alive
  <2>2. CASE ~Never(ready, Carriers(s))
    <3>1. PICK i \in DOMAIN ready : ready[i] \in Carriers(s)
      BY <2>2 DEF Never
    <3>2. i \in QueuedFor(s, {"accept", "read", "write"})
      BY <3>1 DEF QueuedFor, Carriers
    <3> QED BY <3>2 DEF Alive
  <2> QED BY <1>2, <1>3, <2>1, <2>2 DEF Served
<1>5. Deliver(s)
  BY <1>4 DEF DeliverToDestroyed
<1>6. /\ ready' = Tail(ready) \o << >>
      /\ UNCHANGED << sock, m_id, m_descriptor, reads, participants_, peer, sent >> /\ Unhindered'
      /\ writes' = [writes EXCEPT ![s] = @ + 1]
  BY <1>3, <1>5 DEF Deliver, Return, Peaceful, Unhindered, roomVars, consoleVars
<1>7. << >> \in Seq(Handlers) /\ Never(<< >>, Unsound')
  BY EmptySeq DEF Never
<1>8. \A t \in Sessions : peer[t] = "away" => writes'[t] = 0
  BY <1>2, <1>6 DEF Peaceful, Served, TypeOK
<1> QED BY <1>2, <1>6, <1>7, <1>8, Undisturbed

\* The poll ends; an accept fails.
LEMMA PeacefulPoll ==
    ASSUME TypeOK, ReadChains, Peaceful, PollEnds \/ AcceptFails
    PROVE  Peaceful'
<1>0. ready \in Seq(Handlers) /\ ready # << >> /\ Head(ready) = Poll
      /\ Tail(ready) \in Seq(Handlers)
  BY HeadTailProperties DEF TypeOK, PollEnds, AcceptFails, Polling
<1>1. /\ UNCHANGED << sock, m_id, m_descriptor, reads, participants_, peer, sent >>
      /\ Unhindered'
      /\ \A t \in Sessions : peer[t] = "away" => writes'[t] = 0
  BY DEF PollEnds, AcceptFails, Peaceful, Served, Unhindered,
         sessionVars, roomVars, consoleVars, peerVars
<1>2. CASE PollEnds
  <2>1. ready' = Tail(ready) \o << Poll >> /\ << Poll >> \in Seq(Handlers)
    <3>1. Poll \in Handlers
      BY DEF Handlers, Poll
    <3> QED BY <1>0, <1>2, <3>1, QueuedBehind DEF PollEnds
  <2>2. Never(<< Poll >>, Unsound')
    BY DEF Never, Unsound, Poll
  <2>3. \A t \in Sessions : Head(ready) \notin Carriers(t)
    BY <1>0 DEF Carriers, Poll
  <2> QED BY <1>0, <1>1, <2>1, <2>2, <2>3, Undisturbed
<1>3. CASE AcceptFails
  <2>1. Accepted(0) \in Handlers
    BY BoundsAssumption DEF Accepted, Handlers, Ids
  <2>2. ready' = ready \o << Accepted(0) >> /\ << Accepted(0) >> \in Seq(Handlers)
    BY <1>0, <1>3, <2>1, QueuedBehind DEF AcceptFails
  <2>3. Never(<< Accepted(0) >>, Unsound')
    BY DEF Never, Unsound, Accepted
  <2> QED BY <1>1, <2>2, <2>3, Undisturbed
<1> QED BY <1>2, <1>3

\* A connection is accepted: its chain begins.
LEMMA PeacefulConnect ==
    ASSUME TypeOK, ReadChains, Peaceful, NEW s \in Sessions, Connect(s)
    PROVE  Peaceful'
<1>1. /\ peer[s] = "away" /\ peer' = [peer EXCEPT ![s] = "connected"]
      /\ sock' = [sock EXCEPT ![s] = "open"]
      /\ UNCHANGED << m_id, m_descriptor, reads, writes, participants_, sent >>
      /\ m_descriptor[s] = "empty" /\ Unhindered'
  BY DEF Connect, Peaceful, Served, Unhindered, roomVars, consoleVars
<1>2. /\ peer'[s] = "connected" /\ sock'[s] = "open"
      /\ \A t \in Sessions : t # s => peer'[t] = peer[t] /\ sock'[t] = sock[t]
  BY <1>1 DEF TypeOK
<1>3. /\ ready \in Seq(Handlers)
      /\ ready' = ready \o << Accepted(s) >> /\ << Accepted(s) >> \in Seq(Handlers)
  BY HandlerKinds, QueuedBehind DEF Connect, TypeOK
<1>4. Never(<< Accepted(s) >>, Unsound') /\ ~Never(<< Accepted(s) >>, Carriers(s))
  BY <1>1, UnsoundKinds, HeadOf DEF Never
<1>5. \A t \in Sessions : HasLeft(t)' => HasLeft(t)
  BY <1>1 DEF HasLeft
<1>6. Never(ready, Unsound')
  <2>1. \A h \in Unsound' : h \in Unsound
    <3>1. \A t \in Sessions : peer'[t] = "away" => peer[t] = "away"
      BY <1>2
    <3>2. \A t \in Sessions \ {} : /\ sent'[t] = sent[t] /\ m_id'[t] = m_id[t]
                                   /\ m_descriptor'[t] = m_descriptor[t]
                                   /\ HasLeft(t)' => HasLeft(t)
      BY <1>1, <1>5
    <3>3. {} \in SUBSET Sessions
      OBVIOUS
    <3>4. \A h \in Unsound' : h \in Unsound \/ \E t \in {} : h \in Carriers(t)
      BY <3>1, <3>2, <3>3, SoundRemains
    <3> QED BY <3>4
  <2> QED BY <2>1 DEF Peaceful, Never
<1>7. Never(ready', Unsound') /\ ~Never(ready', Carriers(s))
  BY <1>3, <1>4, <1>6, ConcatNever
<1>8. Served(s)'
  <2>1. Served(s) /\ reads[s] = {}
    BY <1>1 DEF Peaceful, ReadChains, ChainOK, NoneYet
  <2> QED BY <1>1, <1>2, <1>7, <2>1 DEF Served, IsOpen
<1>9. ASSUME NEW t \in Sessions, t # s PROVE Served(t)'
  <2>1. Never(ready', Carriers(t)) => Never(ready, Carriers(t))
    BY <1>3, ConcatNever
  <2>2. Served(t) /\ (peer[t] = "away" => writes'[t] = 0)
    BY <1>1 DEF Peaceful, Served
  <2> QED BY <1>1, <1>2, <1>5, <1>9, <2>1, <2>2, ServedElsewhere
<1> QED BY <1>1, <1>7, <1>8, <1>9 DEF Peaceful

\* The next frame of a peer arrives.
LEMMA PeacefulArrival ==
    ASSUME TypeOK, ReadChains, Peaceful, NEW s \in Sessions, ReadSucceeds(s)
    PROVE  Peaceful'
<1>1. PICK l \in reads[s], f \in Arrivals(s) \ {"error"} :
         ReadCompletes(s, l, f) /\ sent' = [sent EXCEPT ![s] = @ + 1]
  BY DEF ReadSucceeds
<1>2. /\ f \in Frames /\ sent[s] < Len(Script[s]) /\ f \in Script[s][sent[s] + 1]
  BY DEF Arrivals
<1>3. /\ l \in Loops /\ reads[s] = {l} /\ Served(s) /\ Progress(s, l, sent[s])
      /\ Never(ready, Carriers(s))
  BY DEF TypeOK, ReadChains, ChainOK, OneCarrier, Peaceful, Served
<1>4. /\ UNCHANGED << sock, m_id, m_descriptor, writes, participants_, peer >> /\ Unhindered'
      /\ reads' = [reads EXCEPT ![s] = @ \ {l}]
  BY <1>1 DEF ReadCompletes, Peaceful, Unhindered, roomVars, consoleVars
<1>5. /\ sent'[s] = sent[s] + 1 /\ reads'[s] = {}
      /\ \A t \in Sessions : t # s => sent'[t] = sent[t] /\ reads'[t] = reads[t]
  BY <1>1, <1>3, <1>4 DEF TypeOK
<1> DEFINE p == << ReadDone(s, l, f) >>
<1>6. ready \in Seq(Handlers) /\ p \in Seq(Handlers) /\ ready' = ready \o p
  BY <1>1, <1>2, <1>3, HandlerKinds, QueuedBehind DEF ReadCompletes, TypeOK
<1>7. /\ sent'[s] \in DOMAIN Script[s] /\ sent'[s] <= Len(Script[s])
      /\ f \in Script[s][sent'[s]] /\ sent'[s] - 1 = sent[s]
  <2>1. sent[s] \in Nat
    BY DEF TypeOK
  <2> QED BY <1>2, <1>5, <2>1, ScriptFacts
<1>8. \A t \in Sessions : HasLeft(t)' => HasLeft(t)
  BY <1>4 DEF HasLeft
<1>9. Reported(s, l, f)'
  BY <1>3, <1>4, <1>7, <1>8 DEF Reported, Progress
<1>10. Never(p, Unsound') /\ ~Never(p, Carriers(s))
  BY <1>2, <1>3, <1>9, UnsoundKinds, CarrierFacts DEF Never
<1>11. Never(ready, Unsound')
  <2>1. \A t \in Sessions \ {s} : /\ sent'[t] = sent[t] /\ m_id'[t] = m_id[t]
                                  /\ m_descriptor'[t] = m_descriptor[t]
                                  /\ HasLeft(t)' => HasLeft(t)
    BY <1>4, <1>5, <1>8
  <2>2. {s} \in SUBSET Sessions /\ \A t \in Sessions : peer'[t] = "away" => peer[t] = "away"
    BY <1>4
  <2>3. \A h \in Unsound' : h \in Unsound \/ h \in Carriers(s)
    BY <2>1, <2>2, SoundRemains
  <2> QED BY <1>3, <2>3 DEF Peaceful, Never
<1> HIDE DEF p
<1>12. Never(ready', Unsound') /\ ~Never(ready', Carriers(s))
  BY <1>6, <1>10, <1>11, ConcatNever
<1>13. Served(s)'
  <2>1. Served(s)
    BY <1>3
  <2> QED BY <1>4, <1>5, <1>7, <1>12, <2>1 DEF Served, IsOpen
<1>14. ASSUME NEW t \in Sessions, t # s PROVE Served(t)'
  <2>1. Never(ready', Carriers(t)) => Never(ready, Carriers(t))
    BY <1>6, ConcatNever
  <2>2. Served(t) /\ (peer[t] = "away" => writes'[t] = 0)
    BY <1>4 DEF Peaceful, Served
  <2> QED BY <1>4, <1>5, <1>8, <1>14, <2>1, <2>2, ServedElsewhere
<1> QED BY <1>4, <1>12, <1>13, <1>14 DEF Peaceful

\* Peers stay, and nothing fails but writes of slow peers.
LEMMA PeacefulReactor ==
    ASSUME Orderliness, TypeOK, ReadChains, Peaceful, NEW s \in Sessions,
           Connect(s) \/ PeerCloses(s) \/ Reactor(s)
    PROVE  Peaceful'
<1>1. ~PeerCloses(s)
  BY DEF PeerCloses, Orderliness
<1>2. Broken(s) => peer[s] = "away" /\ reads[s] = {} /\ writes[s] = 0
  BY DEF Broken, Peaceful, Served, ReadChains, ChainOK, NoneYet
<1>3. ~ReadFails(s)
  BY <1>2 DEF ReadFails
<1>4. ~WriteFails(s)
  BY <1>2 DEF WriteFails
<1>5. CASE WriteSucceeds(s)
  <2>1. /\ ready' = ready
        /\ UNCHANGED << sock, m_id, m_descriptor, reads, participants_, peer, sent >>
        /\ writes[s] > 0 /\ writes' = [writes EXCEPT ![s] = @ - 1] /\ Unhindered'
    BY <1>5 DEF WriteSucceeds, Peaceful, Unhindered, loopVars, roomVars, consoleVars, peerVars
  <2>2. << >> \in Seq(Handlers) /\ Never(<< >>, Unsound')
    BY EmptySeq DEF Never
  <2>3. \A t \in Sessions : peer[t] = "away" => writes'[t] = 0
    <3>1. \A t \in Sessions : peer[t] = "away" => writes[t] = 0
      BY DEF Peaceful, Served
    <3>2. peer[s] # "away"
      BY <2>1, <3>1
    <3> QED BY <2>1, <3>1, <3>2 DEF TypeOK
  <2> QED BY <2>1, <2>2, <2>3, Undisturbed
<1>6. CASE FreedWriteFails(s)
  <2>1. /\ UNCHANGED << sock, m_id, m_descriptor, reads, participants_, peer, sent >>
        /\ writes[s] > 0 /\ writes' = [writes EXCEPT ![s] = @ - 1] /\ s \in SlowPeers
        /\ Unhindered'
    BY <1>6 DEF FreedWriteFails, Peaceful, Unhindered, roomVars, consoleVars, peerVars
  <2>2. /\ ready \in Seq(Handlers) /\ << WriteError(s) >> \in Seq(Handlers)
        /\ ready' = ready \o << WriteError(s) >>
    BY <1>6, HandlerKinds, QueuedBehind DEF FreedWriteFails, TypeOK
  <2>3. Never(<< WriteError(s) >>, Unsound')
    BY <2>1, UnsoundKinds DEF Never
  <2>4. \A t \in Sessions : peer[t] = "away" => writes'[t] = 0
    <3>1. \A t \in Sessions : peer[t] = "away" => writes[t] = 0
      BY DEF Peaceful, Served
    <3>2. peer[s] # "away"
      BY <2>1, <3>1
    <3> QED BY <2>1, <3>1, <3>2 DEF TypeOK
  <2> QED BY <2>1, <2>2, <2>3, <2>4, Undisturbed
<1> QED BY <1>1, <1>3, <1>4, <1>5, <1>6, PeacefulConnect, PeacefulArrival DEF Reactor

\* The console changes the capacity; nothing was ever swept.
LEMMA PeacefulConsole ==
    ASSUME Orderliness, TypeOK, Peaceful, Console
    PROVE  Peaceful'
<1>1. PICK n \in Capacities : SetMaxParticipants(n)
  BY DEF Console, DisconnectAll, DisconnectNext, DisconnectTorn, Orderliness, Peaceful,
         Unhindered
<1>2. /\ ready' = ready
      /\ UNCHANGED << sock, m_id, m_descriptor, reads, writes, participants_, peer, sent >>
      /\ Unhindered'
  BY <1>1 DEF SetMaxParticipants, Orderliness, Peaceful, Unhindered,
              loopVars, sessionVars, consoleVars, peerVars
<1>3. << >> \in Seq(Handlers) /\ Never(<< >>, Unsound')
  BY EmptySeq DEF Never
<1>4. \A t \in Sessions : peer[t] = "away" => writes'[t] = 0
  BY <1>2 DEF Peaceful, Served
<1> QED BY <1>2, <1>3, <1>4, Undisturbed

\* When the constructor of the server returns nobody is connected.
LEMMA InitPeaceful == Orderliness /\ Init => Peaceful
<1> SUFFICES ASSUME Orderliness, Init PROVE Peaceful
  OBVIOUS
<1>1. Unhindered
  BY CapacityAssumption DEF Init, Unhindered, Orderliness
<1>2. Never(ready, Unsound)
  BY DEF Init, Never, Unsound, Poll
<1>3. \A s \in Sessions : Served(s)
  BY ScriptFacts DEF Init, Served
<1> QED BY <1>1, <1>2, <1>3 DEF Peaceful

\* Every step of orderly clients keeps the peace.
LEMMA NextPeaceful ==
    Orderliness /\ TypeOK /\ ReadChains /\ Peaceful /\ [Next]_vars => Peaceful'
<1> SUFFICES ASSUME Orderliness, TypeOK, ReadChains, Peaceful, [Next]_vars PROVE Peaceful'
  OBVIOUS
<1>1. CASE IoThread
  BY <1>1, PeacefulPoll, PeacefulAccept, PeacefulHandshake, PeacefulJoin, PeacefulRoom,
     PeacefulDelivery, PeacefulWriteError
  DEF IoThread, HandshakeHandler, DeliveryHandler
<1>2. CASE \E s \in Sessions : Connect(s) \/ PeerCloses(s) \/ Reactor(s)
  BY <1>2, PeacefulReactor
<1>3. CASE AcceptFails
  BY <1>3, PeacefulPoll
<1>4. CASE Console
  BY <1>4, PeacefulConsole
<1>5. CASE UNCHANGED vars
  <2>1. /\ ready' = ready
        /\ UNCHANGED << sock, m_id, m_descriptor, reads, writes, participants_, peer, sent >>
        /\ Unhindered'
    BY <1>5 DEF vars, loopVars, sessionVars, roomVars, consoleVars, peerVars,
                Peaceful, Unhindered
  <2>2. << >> \in Seq(Handlers) /\ Never(<< >>, Unsound')
    BY EmptySeq DEF Never
  <2>3. \A t \in Sessions : peer[t] = "away" => writes'[t] = 0
    BY <2>1 DEF Peaceful, Served
  <2> QED BY <2>1, <2>2, <2>3, Undisturbed
<1> QED BY <1>1, <1>2, <1>3, <1>4, <1>5 DEF Next

\* Any number of orderly clients that stay connected, however their handlers
\* interleave, never end the io thread or crash the process.  Those whose writes
\* wait may be thrown out of the room by a write from freed memory that fails; no
\* other write and no read does, every delivery finds its session alive, every
\* participant a frame names is in the room, and every descriptor fits.
THEOREM ServiceStaysUpHolds == Spec => []ServiceStaysUp
<1>1. CASE Orderliness
  <2>1. Init => Peaceful
    BY <1>1, InitPeaceful
  <2>2. TypeOK /\ ReadChains /\ Peaceful /\ [Next]_vars => Peaceful'
    BY <1>1, NextPeaceful
  <2>3. Peaceful => ServiceStaysUp
    BY DEF Peaceful, Unhindered, ServiceStaysUp
  <2> QED BY <2>1, <2>2, <2>3, ChainsHold, PTL DEF Spec
<1>2. CASE ~Orderliness
  <2>1. ServiceStaysUp
    BY <1>2 DEF ServiceStaysUp
  <2> QED BY <2>1, PTL
<1> QED BY <1>1, <1>2
=============================================================================
