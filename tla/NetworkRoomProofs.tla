------------------------- MODULE NetworkRoomProofs -------------------------
(***************************************************************************)
(* Theorems about NetworkRoom, for every number of sessions, every script  *)
(* of the peers and every set of capacities: the types of its state, and   *)
(* the read loop of every session.                                         *)
(***************************************************************************)
EXTENDS NetworkRoom, FiniteSetTheorems, SequenceTheorems, TLAPS

-----------------------------------------------------------------------------
(* The queue of completion handlers.                                       *)

\* What each kind of queue item is: the async handlers NetworkRoom names.
LEMMA HandlerKinds ==
    ASSUME NEW s \in Sessions
    PROVE  /\ Poll \in Handlers
           /\ Accepted(s) \in Handlers /\ Accepted(0) \in Handlers
           /\ WriteError(s) \in Handlers
           /\ \A l \in Loops, f \in Frames \cup {"error"} : ReadDone(s, l, f) \in Handlers
           /\ \A m \in Messages : Delivery(s, m) \in Handlers
BY BoundsAssumption
   DEF Handlers, Poll, Accepted, WriteError, ReadDone, Delivery, Sessions, Ids

\* What a handler posts that is no part of a session's reading.
Quiet == [type : {"poll"}]
    \cup [type : {"write"}, session : Sessions]
    \cup [type : {"deliver"}, session : Sessions, message : Messages]

\* Deliveries, write errors and the poll are such handlers.
LEMMA QuietHandlers ==
    /\ Poll \in Quiet
    /\ \A s \in Sessions : WriteError(s) \in Quiet
    /\ \A s \in Sessions, m \in Messages : Delivery(s, m) \in Quiet
    /\ \A q : q \in Seq(Quiet) => q \in Seq(Handlers)
<1>1. Quiet \subseteq Handlers
  BY DEF Quiet, Handlers
<1>2. \A q : q \in Seq(Quiet) => q \in Seq(Handlers)
  BY <1>1, SeqMonotonic
<1> QED BY <1>2 DEF Quiet, Poll, WriteError, Delivery

\* A handler of the io thread takes the head and posts behind the rest.
LEMMA ReturnType ==
    ASSUME ready \in Seq(Handlers), ready # << >>,
           NEW posted \in Seq(Handlers), Return(posted)
    PROVE  ready' \in Seq(Handlers)
BY HeadTailProperties, ConcatProperties DEF Return

\* Messages carry the number of a session that drew its id, or 0.
LEMMA MessageType ==
    /\ \A head \in Heads, id \in Ids : Message(head, id) \in Messages
    /\ m_id \in [Sessions -> Ids] =>
          \A s \in Sessions, d \in Descriptors : ParticipantNew(s, d) \in Messages
BY DEF Message, ParticipantNew, Messages, Heads, Descriptors

\* Sets of sessions are finite, and SetToSeq lists a finite set.
LEMMA SessionsFinite == \A S \in SUBSET Sessions : IsFiniteSet(S)
<1>1. IsFiniteSet(Sessions)
  BY BoundsAssumption, FS_Interval DEF Sessions
<1> QED BY <1>1, FS_Subset

\* for_each over participants_ visits a finite set in some order.
LEMMA SetToSeqType ==
    ASSUME NEW S, IsFiniteSet(S)
    PROVE  /\ Cardinality(S) \in Nat
           /\ SetToSeq(S) \in [1 .. Cardinality(S) -> S]
           /\ SetToSeq(S) \in Seq(S)
<1>1. Cardinality(S) \in Nat /\ ExistsBijection(1 .. Cardinality(S), S)
  BY FS_CardinalityType
<1>2. \E f \in [1 .. Cardinality(S) -> S] : IsInjective(f)
  BY <1>1 DEF ExistsBijection, Bijection, Injection, IsInjective
<1>3. SetToSeq(S) \in [1 .. Cardinality(S) -> S]
  BY <1>2 DEF SetToSeq
<1> QED BY <1>1, <1>3, SeqDef

\* deliver_byte for every member of a set posts one delivery each.
LEMMA DeliverToAllType ==
    ASSUME NEW S \in SUBSET Sessions, NEW m \in Messages
    PROVE  /\ DeliverToAll(S, m) \in Seq(Quiet)
           /\ DeliverToAll(S, m) \in Seq(Handlers)
<1>1. Cardinality(S) \in Nat /\ SetToSeq(S) \in [1 .. Cardinality(S) -> S]
  BY SessionsFinite, SetToSeqType
<1>2. \A i \in 1 .. Cardinality(S) : Delivery(SetToSeq(S)[i], m) \in Quiet
  BY <1>1, QuietHandlers
<1>3. DeliverToAll(S, m) \in [1 .. Cardinality(S) -> Quiet]
  BY <1>2 DEF DeliverToAll
<1>4. DeliverToAll(S, m) \in Seq(Quiet)
  BY <1>1, <1>3, SeqDef
<1> QED BY <1>4, QuietHandlers

\* The newcomer is introduced to the members, and the members to it.
LEMMA IntroductionsType ==
    ASSUME TypeOK, NEW s \in Sessions
    PROVE  Introductions(s) \in Seq(Quiet) /\ Introductions(s) \in Seq(Handlers)
<1> DEFINE others == SetToSeq(Without(m_id[s]))
           toNewcomer == [i \in DOMAIN others |->
                            Delivery(s, ParticipantNew(others[i], m_descriptor[others[i]]))]
<1>1. Without(m_id[s]) \in SUBSET Sessions
  BY DEF TypeOK, Without
<1>2. Cardinality(Without(m_id[s])) \in Nat
      /\ others \in [1 .. Cardinality(Without(m_id[s])) -> Without(m_id[s])]
  BY <1>1, SessionsFinite, SetToSeqType
<1>3. \A i \in DOMAIN others :
         Delivery(s, ParticipantNew(others[i], m_descriptor[others[i]])) \in Quiet
  <2> SUFFICES ASSUME NEW i \in DOMAIN others
               PROVE  Delivery(s, ParticipantNew(others[i], m_descriptor[others[i]])) \in Quiet
    OBVIOUS
  <2>1. others[i] \in Sessions
    BY <1>1, <1>2
  <2>2. m_descriptor[others[i]] \in Descriptors
    BY <2>1 DEF TypeOK
  <2>3. ParticipantNew(others[i], m_descriptor[others[i]]) \in Messages
    BY <2>1, <2>2, MessageType DEF TypeOK
  <2> QED BY <2>3, QuietHandlers
<1>4. toNewcomer \in Seq(Quiet)
  BY <1>2, <1>3, SeqDef
<1>5. ParticipantNew(s, "json") \in Messages
  BY MessageType DEF TypeOK, Descriptors
<1>6. DeliverToAll(Without(m_id[s]), ParticipantNew(s, "json")) \in Seq(Quiet)
  BY <1>1, <1>5, DeliverToAllType
<1>7. Introductions(s) \in Seq(Quiet)
  BY <1>4, <1>6, ConcatProperties DEF Introductions
<1> QED BY <1>7, QuietHandlers

-----------------------------------------------------------------------------
(* The parts that the handlers share.                                      *)

\* async_read queues at most its own completion.
LEMMA StartReadType ==
    ASSUME NEW s \in Sessions, NEW l \in Loops, NEW open \in BOOLEAN
    PROVE  /\ StartRead(s, l, open) \in Seq(Handlers)
           /\ EarlyRead(s, l, open) \subseteq Seq(Handlers)
<1>1. \A f \in Frames \cup {"error"} : << ReadDone(s, l, f) >> \in Seq(Handlers)
  BY HandlerKinds
<1>2. Arrivals(s) \subseteq Frames \cup {"error"}
  BY DEF Arrivals
<1>3. StartRead(s, l, open) \in Seq(Handlers)
  BY <1>1, EmptySeq DEF StartRead
<1> QED BY <1>1, <1>2, <1>3 DEF EarlyRead

\* do_read_handshake and do_read_byte after they started a read.
LEMMA ReadingType ==
    ASSUME TypeOK, NEW s \in Sessions, NEW l \in Loops, NEW started, Reading(s, l, started)
    PROVE  reads' \in [Sessions -> SUBSET Loops] /\ sent' \in [Sessions -> Nat]
BY DEF TypeOK, Reading

\* do_close aborts the operations in progress: their handlers are queued.
LEMMA CloseType ==
    ASSUME TypeOK, NEW s \in Sessions, NEW n \in 0 .. writes[s]
    PROVE  /\ AbortedWrites(s, n) \in Seq(Quiet)
           /\ AbortedWrites(s, n) \in Seq(Handlers)
           /\ Close(s, n) => /\ sock' \in [Sessions -> { "none", "open", "closed" }]
                             /\ writes' \in [Sessions -> Nat]
<1>1. writes[s] \in Nat /\ n \in Nat
  BY DEF TypeOK
<1>2. AbortedWrites(s, n) \in [1 .. n -> Quiet]
  BY QuietHandlers DEF AbortedWrites
<1>3. AbortedWrites(s, n) \in Seq(Quiet) /\ AbortedWrites(s, n) \in Seq(Handlers)
  BY <1>1, <1>2, SeqDef, QuietHandlers
<1>4. writes[s] - n \in Nat
  BY <1>1
<1>5. ASSUME Close(s, n)
      PROVE  /\ sock' \in [Sessions -> { "none", "open", "closed" }]
             /\ writes' \in [Sessions -> Nat]
  BY <1>4, <1>5 DEF Close, TypeOK
<1> QED BY <1>3, <1>5

\* leave and disconnect_participant: PARTICIPANT_LEAVE to those who stay.
LEMMA DepartureType ==
    ASSUME TypeOK, NEW id \in Ids
    PROVE  /\ RoomBecomes(Without(id)) =>
                 participants_' \subseteq Sessions /\ torn' \in BOOLEAN
           /\ DeliverToAll(Without(id), Message("PARTICIPANT_LEAVE", id)) \in Seq(Quiet)
           /\ DeliverToAll(Without(id), Message("PARTICIPANT_LEAVE", id)) \in Seq(Handlers)
<1>1. Without(id) \in SUBSET Sessions
  BY DEF TypeOK, Without
<1>2. Message("PARTICIPANT_LEAVE", id) \in Messages
  BY MessageType DEF Heads
<1> QED BY <1>1, <1>2, DeliverToAllType DEF RoomBecomes, TypeOK

\* What a session that is written a message may have told its peer.
LEMMA LearnedType ==
    ASSUME TypeOK, NEW s \in Sessions, NEW m \in Messages
    PROVE  Learned(s, m) \in [Ids -> Knowledge]
<1>1. told[s] \in [Ids -> Knowledge]
  BY DEF TypeOK
<1>2. m.participant_id \in Ids /\ m.descriptor \in Knowledge
  BY DEF Messages, Knowledge
<1>3. "self" \in Knowledge /\ "unknown" \in Knowledge
  BY DEF Knowledge
<1> QED BY <1>1, <1>2, <1>3 DEF Learned

-----------------------------------------------------------------------------
(* Type correctness.                                                       *)

\* nr_server when its constructor returns.
LEMMA InitType == Init => TypeOK
<1> SUFFICES ASSUME Init PROVE TypeOK
  OBVIOUS
<1>1. ready \in Seq(Handlers)
  BY BoundsAssumption, FS_EmptySet, HandlerKinds DEF Init, Poll, Handlers
<1>2. told \in [Sessions -> [Ids -> Knowledge]]
  BY DEF Init, Knowledge
<1>3. /\ max_participants_ \in Nat
      /\ m_id \in [Sessions -> Ids]
      /\ m_descriptor \in [Sessions -> Descriptors]
  BY BoundsAssumption, CapacityAssumption DEF Init, Ids, Descriptors
<1>4. /\ reads \in [Sessions -> SUBSET Loops]
      /\ writes \in [Sessions -> Nat] /\ sent \in [Sessions -> Nat]
      /\ sock \in [Sessions -> { "none", "open", "closed" }]
      /\ peer \in [Sessions -> { "away", "connected", "gone" }]
  BY DEF Init
<1> QED BY <1>1, <1>2, <1>3, <1>4 DEF Init, TypeOK

\* The reactor, the acceptor and the peers keep the types.
LEMMA PollType ==
    ASSUME TypeOK
    PROVE  /\ PollEnds => TypeOK'
           /\ AcceptFails => TypeOK'
           /\ \A s \in Sessions : Connect(s) \/ PeerCloses(s) \/ Reactor(s) => TypeOK'
<1>1. ASSUME PollEnds PROVE TypeOK'
  <2>1. ready' \in Seq(Handlers)
    BY <1>1, HeadTailProperties DEF PollEnds, Polling, TypeOK
  <2>2. writes' \in [Sessions -> Nat]
    <3>1. \A s \in Sessions : (IF Taken(s) THEN 0 ELSE writes[s]) \in Nat
      BY DEF TypeOK
    <3> QED BY <1>1, <3>1 DEF PollEnds
  <2> QED BY <1>1, <2>1, <2>2
    DEF PollEnds, TypeOK, roomVars, consoleVars, peerVars, historyVars
<1>2. ASSUME NEW s \in Sessions, Connect(s) PROVE TypeOK'
  <2>1. ready' \in Seq(Handlers)
    BY <1>2, HandlerKinds DEF Connect, TypeOK
  <2> QED BY <1>2, <2>1 DEF Connect, TypeOK, roomVars, consoleVars, historyVars
<1>3. ASSUME AcceptFails PROVE TypeOK'
  <2>1. Accepted(0) \in Handlers
    BY BoundsAssumption DEF Accepted, Handlers, Ids
  <2>2. ready' \in Seq(Handlers)
    BY <1>3, <2>1 DEF AcceptFails, TypeOK
  <2> QED BY <1>3, <2>2
    DEF AcceptFails, TypeOK, sessionVars, roomVars, consoleVars, peerVars, historyVars
<1>4. ASSUME NEW s \in Sessions, PeerCloses(s) PROVE TypeOK'
  BY <1>4
  DEF PeerCloses, TypeOK, loopVars, sessionVars, roomVars, consoleVars, historyVars
<1>5. ASSUME NEW s \in Sessions, Reactor(s) PROVE TypeOK'
  <2>1. CASE \E l \in reads[s], f \in Frames \cup {"error"} :
               ReadCompletes(s, l, f) /\ sent' \in {sent, [sent EXCEPT ![s] = @ + 1]}
    <3>1. PICK l \in reads[s], f \in Frames \cup {"error"} :
             ReadCompletes(s, l, f) /\ sent' \in {sent, [sent EXCEPT ![s] = @ + 1]}
      BY <2>1
    <3>2. l \in Loops
      BY DEF TypeOK
    <3>3. ready' \in Seq(Handlers)
      BY <3>1, <3>2, HandlerKinds DEF ReadCompletes, TypeOK
    <3>4. reads[s] \ {l} \in SUBSET Loops
      BY DEF TypeOK
    <3>5. reads' \in [Sessions -> SUBSET Loops]
      BY <3>1, <3>4 DEF ReadCompletes, TypeOK
    <3>6. sent' \in [Sessions -> Nat]
      BY <3>1 DEF TypeOK
    <3> QED BY <3>1, <3>3, <3>5, <3>6
      DEF ReadCompletes, TypeOK, roomVars, consoleVars, historyVars
  <2>2. CASE WriteSucceeds(s) \/ WriteFails(s) \/ FreedWriteFails(s)
    <3>1. ready' \in {ready, Append(ready, WriteError(s))}
      BY <2>2 DEF WriteSucceeds, WriteFails, FreedWriteFails, loopVars
    <3>2. ready' \in Seq(Handlers)
      <4>1. ready \in Seq(Handlers) /\ WriteError(s) \in Handlers
        BY HandlerKinds DEF TypeOK
      <4>2. Append(ready, WriteError(s)) \in Seq(Handlers)
        BY <4>1
      <4> QED BY <3>1, <4>1, <4>2
    <3>3. writes[s] > 0 /\ writes' = [writes EXCEPT ![s] = @ - 1]
      BY <2>2 DEF WriteSucceeds, WriteFails, FreedWriteFails
    <3>4. writes' \in [Sessions -> Nat]
      <4>1. writes[s] - 1 \in Nat
        BY <3>3 DEF TypeOK
      <4> QED BY <3>3, <4>1 DEF TypeOK
    <3>5. UNCHANGED << svc, accepting, sock, m_id, m_descriptor, reads,
                       roomVars, consoleVars, peerVars, historyVars >>
      BY <2>2 DEF WriteSucceeds, WriteFails, FreedWriteFails, loopVars
    <3> QED BY <3>2, <3>4, <3>5 DEF TypeOK, roomVars, consoleVars, peerVars, historyVars
  <2> QED BY <1>5, <2>1, <2>2 DEF Reactor, ReadSucceeds, ReadFails, Arrivals
<1> QED BY <1>1, <1>2, <1>3, <1>4, <1>5

\* do_accept and start keep the types.
LEMMA AcceptType ==
    ASSUME TypeOK, AcceptHandler
    PROVE  TypeOK'
<1>1. CASE AcceptError
  <2>1. ready' \in Seq(Handlers)
    BY <1>1, EmptySeq, ReturnType DEF AcceptError, TypeOK
  <2> QED BY <1>1, <2>1
    DEF AcceptError, TypeOK, sessionVars, roomVars, consoleVars, peerVars, historyVars
<1>2. ASSUME NEW s \in Sessions, StartThrows(s) PROVE TypeOK'
  <2>1. ready' \in Seq(Handlers)
    BY <1>2, EmptySeq, ReturnType DEF StartThrows, TypeOK
  <2> QED BY <1>2, <2>1
    DEF StartThrows, TypeOK, sessionVars, roomVars, consoleVars, peerVars, historyVars
<1>3. ASSUME NEW s \in Sessions, StartHandshake(s) PROVE TypeOK'
  <2>1. PICK started \in EarlyRead(s, "handshake", TRUE) :
           /\ Reading(s, "handshake", started)
           /\ Return(started \o << Delivery(s, Message("HANDSHAKE_HELLO", m_id[s])) >>)
    BY <1>3 DEF StartHandshake
  <2>2. started \in Seq(Handlers)
    BY StartReadType DEF Loops
  <2>3. Message("HANDSHAKE_HELLO", m_id[s]) \in Messages
    BY MessageType DEF Heads, TypeOK
  <2>4. << Delivery(s, Message("HANDSHAKE_HELLO", m_id[s])) >> \in Seq(Handlers)
    BY <2>3, HandlerKinds
  <2>5. ready' \in Seq(Handlers)
    <3>1. started \o << Delivery(s, Message("HANDSHAKE_HELLO", m_id[s])) >> \in Seq(Handlers)
      BY <2>2, <2>4, ConcatProperties
    <3> QED BY <1>3, <2>1, <3>1, ReturnType DEF StartHandshake, TypeOK
  <2>6. reads' \in [Sessions -> SUBSET Loops] /\ sent' \in [Sessions -> Nat]
    BY <2>1, ReadingType DEF Loops
  <2> QED BY <1>3, <2>5, <2>6
    DEF StartHandshake, TypeOK, roomVars, consoleVars, historyVars
<1> QED BY <1>1, <1>2, <1>3 DEF AcceptHandler

\* do_read_handshake keeps the types, CREDENTIALS_ACK apart.
LEMMA HandshakeType ==
    ASSUME TypeOK, NEW s \in Sessions
    PROVE  /\ HelloAck(s) => TypeOK'
           /\ HelloAckOverreads(s) => TypeOK'
           /\ HandshakeIgnores(s) => TypeOK'
           /\ HandshakeReadError(s) => TypeOK'
<1>1. EarlyRead(s, "handshake", IsOpen(s)) \subseteq Seq(Handlers)
  BY StartReadType DEF Loops, IsOpen
<1>2. ASSUME HelloAck(s) PROVE TypeOK'
  <2> DEFINE login == << Delivery(s, Message("HANDSHAKE_CREDENTIALS", 0)) >>
  <2>1. Message("HANDSHAKE_CREDENTIALS", 0) \in Messages
    BY MessageType, BoundsAssumption DEF Heads, Ids
  <2>2. login \in Seq(Handlers)
    BY <2>1, HandlerKinds
  <2> HIDE DEF login
  <2>3. PICK started \in EarlyRead(s, "handshake", IsOpen(s)) :
           Reading(s, "handshake", started) /\ Return(login \o started)
    BY <1>2 DEF HelloAck, login
  <2>4. login \o started \in Seq(Handlers)
    BY <1>1, <2>2, ConcatProperties
  <2>5. ready' \in Seq(Handlers)
    BY <1>2, <2>3, <2>4, ReturnType DEF HelloAck, HandshakeReads, TypeOK
  <2>6. reads' \in [Sessions -> SUBSET Loops] /\ sent' \in [Sessions -> Nat]
    BY <2>3, ReadingType DEF Loops
  <2>7. m_descriptor' \in [Sessions -> Descriptors]
    <3>1. \A f : Configured(s, f) \subseteq Descriptors
      BY DEF Configured, Descriptors, TypeOK
    <3> QED BY <1>2, <3>1 DEF HelloAck, TypeOK
  <2> QED BY <1>2, <2>5, <2>6, <2>7 DEF HelloAck, TypeOK, roomVars, consoleVars, historyVars
<1>3. ASSUME HandshakeIgnores(s) PROVE TypeOK'
  <2>1. PICK started \in EarlyRead(s, "handshake", IsOpen(s)) :
           Reading(s, "handshake", started) /\ Return(started)
    BY <1>3 DEF HandshakeIgnores
  <2>2. ready' \in Seq(Handlers)
    BY <1>1, <1>3, <2>1, ReturnType DEF HandshakeIgnores, HandshakeReads, TypeOK
  <2>3. reads' \in [Sessions -> SUBSET Loops] /\ sent' \in [Sessions -> Nat]
    BY <2>1, ReadingType DEF Loops
  <2> QED BY <1>3, <2>2, <2>3 DEF HandshakeIgnores, TypeOK, roomVars, consoleVars, historyVars
<1>4. ASSUME HandshakeReadError(s) PROVE TypeOK'
  <2>1. PICK n \in 0 .. writes[s] : Close(s, n) /\ Return(AbortedWrites(s, n))
    BY <1>4 DEF HandshakeReadError
  <2>2. /\ AbortedWrites(s, n) \in Seq(Handlers)
        /\ sock' \in [Sessions -> { "none", "open", "closed" }]
        /\ writes' \in [Sessions -> Nat]
    BY <2>1, CloseType
  <2>3. ready' \in Seq(Handlers)
    BY <1>4, <2>1, <2>2, ReturnType DEF HandshakeReadError, HandshakeReads, TypeOK
  <2> QED BY <1>4, <2>2, <2>3
    DEF HandshakeReadError, HandshakeReads, TypeOK, roomVars, consoleVars, peerVars, historyVars
<1>5. ASSUME HelloAckOverreads(s) PROVE TypeOK'
  <2>1. ready' \in Seq(Handlers)
    BY <1>5, EmptySeq, ReturnType DEF HelloAckOverreads, HandshakeReads, TypeOK
  <2>2. m_descriptor' \in [Sessions -> Descriptors]
    BY <1>5 DEF HelloAckOverreads, TypeOK, Descriptors
  <2> QED BY <1>5, <2>1, <2>2
    DEF HelloAckOverreads, TypeOK, roomVars, consoleVars, peerVars, historyVars
<1> QED BY <1>2, <1>3, <1>4, <1>5

\* What the three outcomes of a CREDENTIALS_ACK share.
LEMMA CredentialsType ==
    ASSUME TypeOK, NEW s \in Sessions, NEW f \in Presented(s),
           NEW started \in EarlyRead(s, "room", PassesCredentials(s, f))
                            \cup { StartRead(s, "room", FALSE) },
           CredentialsAck(s, f, started)
    PROVE  /\ ready # << >> /\ started \in Seq(Handlers)
           /\ reads' \in [Sessions -> SUBSET Loops] /\ sent' \in [Sessions -> Nat]
           /\ accepting' \in BOOLEAN /\ m_descriptor' \in [Sessions -> Descriptors]
           /\ max_participants_' \in Nat /\ sweeps' \in Nat
           /\ peer' \in [Sessions -> { "away", "connected", "gone" }]
           /\ told' \in [Sessions -> [Ids -> Knowledge]]
           /\ loggedIn' \subseteq Sessions /\ announced' \subseteq Sessions
<1>1. started \in Seq(Handlers)
  BY StartReadType DEF Loops, PassesCredentials, IsOpen
<1>2. reads' \in [Sessions -> SUBSET Loops] /\ sent' \in [Sessions -> Nat]
  BY ReadingType DEF Presented, CredentialsAck, Loops
<1>3. loggedIn' \subseteq Sessions
  BY DEF Presented, CredentialsAck, TypeOK
<1> QED BY <1>1, <1>2, <1>3 DEF Presented, CredentialsAck, TypeOK

\* join keeps the types, full, throwing or admitting.
LEMMA JoinType ==
    ASSUME TypeOK, NEW s \in Sessions
    PROVE  JoinFull(s) \/ JoinThrows(s) \/ JoinAdmits(s) => TypeOK'
<1>0. s \in Ids
  BY DEF Sessions, Ids
<1>1. \A id \in Ids : << Delivery(s, Message("PARTICIPANT_JOIN", id)) >> \in Seq(Handlers)
  BY MessageType, HandlerKinds DEF Heads
<1>2. ASSUME JoinFull(s) PROVE TypeOK'
  <2>0. PICK f \in Presented(s) :
           \E started \in EarlyRead(s, "room", PassesCredentials(s, f))
                         \cup { StartRead(s, "room", FALSE) } :
              /\ CredentialsAck(s, f, started)
              /\ \E n \in 0 .. writes[s] :
                    /\ Close(s, n)
                    /\ Return(started \o AbortedWrites(s, n)
                              \o << Delivery(s, Message("PARTICIPANT_JOIN", m_id[s])) >>)
    BY <1>2 DEF JoinFull
  <2>1. PICK started \in EarlyRead(s, "room", PassesCredentials(s, f))
                         \cup { StartRead(s, "room", FALSE) },
             n \in 0 .. writes[s] :
           /\ CredentialsAck(s, f, started)
           /\ Close(s, n)
           /\ Return(started \o AbortedWrites(s, n)
                     \o << Delivery(s, Message("PARTICIPANT_JOIN", m_id[s])) >>)
    BY <2>0
  <2>2. started \o AbortedWrites(s, n)
           \o << Delivery(s, Message("PARTICIPANT_JOIN", m_id[s])) >> \in Seq(Handlers)
    <3>1. started \o AbortedWrites(s, n) \in Seq(Handlers)
      BY <2>1, CredentialsType, CloseType, ConcatProperties
    <3>2. << Delivery(s, Message("PARTICIPANT_JOIN", m_id[s])) >> \in Seq(Handlers)
      BY <1>1 DEF TypeOK
    <3> QED BY <3>1, <3>2, ConcatProperties
  <2>3. ready' \in Seq(Handlers)
    BY <2>1, <2>2, CredentialsType, ReturnType DEF TypeOK
  <2>4. sock' \in [Sessions -> { "none", "open", "closed" }] /\ writes' \in [Sessions -> Nat]
    BY <2>1, CloseType
  <2> QED BY <1>2, <2>1, <2>3, <2>4, CredentialsType DEF JoinFull, TypeOK
<1>3. ASSUME JoinThrows(s) PROVE TypeOK'
  <2>0. PICK f \in Presented(s) :
           \E started \in EarlyRead(s, "room", PassesCredentials(s, f)) :
              /\ CredentialsAck(s, f, started)
              /\ \E n \in 0 .. writes[s] :
                    Close(s, n) /\ Return(AbortedWrites(s, n) \o started)
    BY <1>3 DEF JoinThrows
  <2>1. PICK started \in EarlyRead(s, "room", PassesCredentials(s, f)), n \in 0 .. writes[s] :
           /\ CredentialsAck(s, f, started)
           /\ Close(s, n)
           /\ Return(AbortedWrites(s, n) \o started)
    BY <2>0
  <2>2. AbortedWrites(s, n) \o started \in Seq(Handlers)
    BY <2>1, CredentialsType, CloseType, ConcatProperties
  <2>3. ready' \in Seq(Handlers)
    BY <2>1, <2>2, CredentialsType, ReturnType DEF TypeOK
  <2>4. sock' \in [Sessions -> { "none", "open", "closed" }] /\ writes' \in [Sessions -> Nat]
    BY <2>1, CloseType
  <2>5. m_id' \in [Sessions -> Ids]
    BY <1>0, <1>3 DEF JoinThrows, TypeOK
  <2> QED BY <1>3, <2>1, <2>3, <2>4, <2>5, CredentialsType DEF JoinThrows, TypeOK
<1>4. ASSUME JoinAdmits(s) PROVE TypeOK'
  <2>0. PICK f \in Presented(s) :
           \E started \in EarlyRead(s, "room", PassesCredentials(s, f)) :
              /\ CredentialsAck(s, f, started)
              /\ Return(started \o << Delivery(s, Message("PARTICIPANT_JOIN", s)) >>)
    BY <1>4 DEF JoinAdmits
  <2>1. PICK started \in EarlyRead(s, "room", PassesCredentials(s, f)) :
           /\ CredentialsAck(s, f, started)
           /\ Return(started \o << Delivery(s, Message("PARTICIPANT_JOIN", s)) >>)
    BY <2>0
  <2>2. started \o << Delivery(s, Message("PARTICIPANT_JOIN", s)) >> \in Seq(Handlers)
    BY <1>0, <1>1, <2>1, CredentialsType, ConcatProperties
  <2>3. ready' \in Seq(Handlers)
    BY <2>1, <2>2, CredentialsType, ReturnType DEF TypeOK
  <2>4. m_id' \in [Sessions -> Ids]
    BY <1>0, <1>4 DEF JoinAdmits, TypeOK
  <2>5. participants_' \subseteq Sessions /\ torn' \in BOOLEAN /\ sweep' \subseteq Sessions
    BY <1>4 DEF JoinAdmits, RoomBecomes, TypeOK
  <2> QED BY <1>4, <2>1, <2>3, <2>4, <2>5, CredentialsType DEF JoinAdmits, TypeOK
<1> QED BY <1>2, <1>3, <1>4

\* A handler of the room posts, then reads on.
LEMMA ReadsOnType ==
    ASSUME TypeOK, ready # << >>, NEW s \in Sessions,
           NEW posted \in Seq(Handlers), ReadsOn(s, posted)
    PROVE  /\ ready' \in Seq(Handlers)
           /\ reads' \in [Sessions -> SUBSET Loops] /\ sent' \in [Sessions -> Nat]
<1>1. PICK started \in EarlyRead(s, "room", IsOpen(s)) :
         Reading(s, "room", started) /\ Return(posted \o started)
  BY DEF ReadsOn
<1>2. started \in Seq(Handlers)
  BY StartReadType DEF Loops, IsOpen
<1>3. posted \o started \in Seq(Handlers)
  BY <1>2, ConcatProperties
<1>4. ready' \in Seq(Handlers)
  BY <1>1, <1>3, ReturnType DEF TypeOK
<1> QED BY <1>1, <1>4, ReadingType DEF Loops

\* do_read_byte keeps the types.
LEMMA RoomType ==
    ASSUME TypeOK, NEW s \in Sessions, RoomHandler(s)
    PROVE  TypeOK'
<1>0. ready # << >> /\ << >> \in Seq(Handlers) /\ m_id[s] \in Ids
  BY EmptySeq DEF RoomHandler, JoinAck, JoinAckOfStranger, JoinAckOverruns, NewAck,
                  UpdateAck, LeaveAck, LeaveAckOfStranger, OtherFrame, RoomReadError, RoomReads, TypeOK
<1>1. CASE JoinAck(s)
  <2>1. ReadsOn(s, Introductions(s))
    BY <1>1 DEF JoinAck
  <2>2. /\ ready' \in Seq(Handlers)
        /\ reads' \in [Sessions -> SUBSET Loops] /\ sent' \in [Sessions -> Nat]
    BY <1>0, <2>1, IntroductionsType, ReadsOnType
  <2>3. m_descriptor' \in [Sessions -> Descriptors] /\ announced' \subseteq Sessions
    BY <1>1 DEF JoinAck, TypeOK, Descriptors
  <2> QED BY <1>1, <2>2, <2>3 DEF JoinAck, TypeOK, roomVars, consoleVars
<1>2. CASE JoinAckOfStranger(s)
  <2>1. ready' \in Seq(Handlers)
    BY <1>0, <1>2, ReturnType DEF JoinAckOfStranger, TypeOK
  <2>2. m_descriptor' \in [Sessions -> Descriptors]
    BY <1>2 DEF JoinAckOfStranger, TypeOK, Descriptors
  <2> QED BY <1>2, <2>1, <2>2
    DEF JoinAckOfStranger, TypeOK, roomVars, consoleVars, peerVars, historyVars
<1>3. CASE NewAck(s)
  <2>1. /\ ready' \in Seq(Handlers)
        /\ reads' \in [Sessions -> SUBSET Loops] /\ sent' \in [Sessions -> Nat]
    BY <1>0, <1>3, ReadsOnType DEF NewAck
  <2> QED BY <1>3, <2>1 DEF NewAck, TypeOK, roomVars, consoleVars, historyVars
<1>4. CASE UpdateAck(s)
  <2>1. Message("PARTICIPANT_UPDATE_ACK", m_id[s]) \in Messages
    BY <1>0, MessageType DEF Heads
  <2>2. DeliverToAll(Without(m_id[s]), Message("PARTICIPANT_UPDATE_ACK", m_id[s]))
           \in Seq(Handlers)
    BY <2>1, DeliverToAllType DEF Without, TypeOK
  <2>3. /\ ready' \in Seq(Handlers)
        /\ reads' \in [Sessions -> SUBSET Loops] /\ sent' \in [Sessions -> Nat]
    BY <1>0, <1>4, <2>2, ReadsOnType DEF UpdateAck
  <2> QED BY <1>4, <2>3 DEF UpdateAck, TypeOK, roomVars, consoleVars, historyVars
<1>5. CASE LeaveAck(s)
  <2>1. /\ ready' \in Seq(Handlers)
        /\ reads' \in [Sessions -> SUBSET Loops] /\ sent' \in [Sessions -> Nat]
    BY <1>0, <1>5, DepartureType, ReadsOnType DEF LeaveAck
  <2>2. participants_' \subseteq Sessions /\ torn' \in BOOLEAN
    BY <1>0, <1>5, DepartureType DEF LeaveAck
  <2> QED BY <1>5, <2>1, <2>2 DEF LeaveAck, TypeOK, historyVars
<1>6. CASE LeaveAckOfStranger(s)
  <2>1. ready' \in Seq(Handlers)
    BY <1>0, <1>6, ReturnType DEF LeaveAckOfStranger, TypeOK
  <2> QED BY <1>6, <2>1
    DEF LeaveAckOfStranger, TypeOK, sessionVars, roomVars, consoleVars, peerVars, historyVars
<1>7. CASE OtherFrame(s)
  <2>1. PICK n \in 0 .. writes[s] :
           /\ Close(s, n)
           /\ Reading(s, "room", StartRead(s, "room", FALSE))
           /\ Return(AbortedWrites(s, n) \o StartRead(s, "room", FALSE))
    BY <1>7 DEF OtherFrame
  <2>2. AbortedWrites(s, n) \o StartRead(s, "room", FALSE) \in Seq(Handlers)
    BY <2>1, CloseType, StartReadType, ConcatProperties DEF Loops
  <2>3. ready' \in Seq(Handlers)
    BY <1>0, <2>1, <2>2, ReturnType DEF TypeOK
  <2>4. reads' \in [Sessions -> SUBSET Loops] /\ sent' \in [Sessions -> Nat]
    BY <2>1, ReadingType DEF Loops
  <2>5. sock' \in [Sessions -> { "none", "open", "closed" }] /\ writes' \in [Sessions -> Nat]
    BY <2>1, CloseType
  <2> QED BY <1>7, <2>3, <2>4, <2>5 DEF OtherFrame, TypeOK, roomVars, consoleVars, historyVars
<1>8. CASE RoomReadError(s)
  <2>1. Departure(m_id[s])
    BY <1>8 DEF RoomReadError
  <2>2. ready' \in Seq(Handlers)
    BY <1>0, <2>1, DepartureType, ReturnType DEF Departure, TypeOK
  <2>3. participants_' \subseteq Sessions /\ torn' \in BOOLEAN
    BY <1>0, <2>1, DepartureType DEF Departure
  <2> QED BY <1>8, <2>2, <2>3 DEF RoomReadError, TypeOK, sessionVars, peerVars, historyVars
<1>9. CASE JoinAckOverruns(s)
  <2>1. m_descriptor' \in [Sessions -> Descriptors]
    BY <1>9 DEF JoinAckOverruns, TypeOK, Descriptors
  <2> QED BY <1>9, <2>1
    DEF JoinAckOverruns, TypeOK, roomVars, consoleVars, peerVars, historyVars
<1> QED BY <1>1, <1>2, <1>3, <1>4, <1>5, <1>6, <1>7, <1>8, <1>9 DEF RoomHandler

\* deliver_byte and do_write_byte keep the types.
LEMMA DeliveryType ==
    ASSUME TypeOK, NEW s \in Sessions, DeliveryHandler(s)
    PROVE  TypeOK'
<1>0. ready # << >> /\ << >> \in Seq(Handlers) /\ m_id[s] \in Ids
  BY EmptySeq DEF DeliveryHandler, Deliver, DeliverToDestroyed, WriteErrorHandler, TypeOK
<1>1. CASE Deliver(s)
  <2>1. PICK m \in Messages :
           told' \in { told, [told EXCEPT ![s] = Learned(s, m)], [told EXCEPT ![s] = Garbled] }
    BY <1>1 DEF Deliver
  <2>2. told' \in [Sessions -> [Ids -> Knowledge]]
    <3>1. Garbled \in [Ids -> Knowledge]
      BY DEF Garbled, Knowledge
    <3>2. \A k \in [Ids -> Knowledge] :
             [told EXCEPT ![s] = k] \in [Sessions -> [Ids -> Knowledge]]
      BY DEF TypeOK
    <3>3. told \in [Sessions -> [Ids -> Knowledge]] /\ Learned(s, m) \in [Ids -> Knowledge]
      BY LearnedType DEF TypeOK
    <3> QED BY <2>1, <3>1, <3>2, <3>3
  <2>3. (IF IsOpen(s) THEN << >> ELSE << WriteError(s) >>) \in Seq(Handlers)
    BY <1>0, HandlerKinds
  <2>4. ready' \in Seq(Handlers)
    BY <1>0, <1>1, <2>3, ReturnType DEF Deliver, TypeOK
  <2>5. writes' \in [Sessions -> Nat]
    <3>1. writes[s] \in Nat /\ writes[s] + 1 \in Nat
      BY DEF TypeOK
    <3> QED BY <1>1, <3>1 DEF Deliver, TypeOK
  <2> QED BY <1>1, <2>2, <2>4, <2>5 DEF Deliver, TypeOK, roomVars, consoleVars, historyVars
<1>2. CASE DeliverToDestroyed(s)
  <2>1. ready' \in Seq(Handlers)
    BY <1>0, <1>2, ReturnType DEF DeliverToDestroyed, TypeOK
  <2> QED BY <1>2, <2>1
    DEF DeliverToDestroyed, TypeOK, sessionVars, roomVars, consoleVars, peerVars, historyVars
<1>3. CASE WriteErrorHandler(s)
  <2>1. Departure(m_id[s])
    BY <1>3 DEF WriteErrorHandler
  <2>2. ready' \in Seq(Handlers)
    BY <1>0, <2>1, DepartureType, ReturnType DEF Departure, TypeOK
  <2>3. participants_' \subseteq Sessions /\ torn' \in BOOLEAN
    BY <1>0, <2>1, DepartureType DEF Departure
  <2> QED BY <1>3, <2>2, <2>3 DEF WriteErrorHandler, TypeOK, sessionVars, peerVars, historyVars
<1> QED BY <1>1, <1>2, <1>3 DEF DeliveryHandler

\* The console's commands keep the types.
LEMMA ConsoleType ==
    ASSUME TypeOK, Console
    PROVE  TypeOK'
<1>1. ASSUME NEW n \in Capacities, SetMaxParticipants(n) PROVE TypeOK'
  <2>1. max_participants_' \in Nat
    BY <1>1, CapacityAssumption DEF SetMaxParticipants
  <2> QED BY <1>1, <2>1
    DEF SetMaxParticipants, TypeOK, loopVars, sessionVars, consoleVars, peerVars, historyVars
<1>2. CASE DisconnectAll
  <2>1. sweep' \subseteq Sessions /\ torn' \in BOOLEAN
    BY <1>2 DEF DisconnectAll, TypeOK
  <2>2. sweeps' \in Nat
    <3>1. sweeps' = sweeps + 1 /\ sweeps \in Nat
      BY <1>2 DEF DisconnectAll, TypeOK
    <3> QED BY <3>1
  <2> QED BY <1>2, <2>1, <2>2
    DEF DisconnectAll, TypeOK, loopVars, sessionVars, roomVars, peerVars, historyVars
<1>3. ASSUME NEW s \in Sessions, DisconnectNext(s) PROVE TypeOK'
  <2>1. CASE ~Alive(s)
    BY <1>3, <2>1 DEF DisconnectNext, TypeOK, roomVars, peerVars, historyVars
  <2>2. CASE Alive(s)
    <3>1. PICK now \in SUBSET reads[s], n \in 0 .. writes[s] :
             /\ Close(s, n)
             /\ reads' = [reads EXCEPT ![s] = @ \ now]
             /\ ready' = ready \o SetToSeq({ ReadDone(s, l, "error") : l \in now })
                               \o AbortedWrites(s, n)
      BY <1>3, <2>2 DEF DisconnectNext
    <3> DEFINE R == { ReadDone(s, l, "error") : l \in now }
    <3>2. now \subseteq Loops
      BY DEF TypeOK
    <3>3. R \subseteq Handlers
      BY <3>2, HandlerKinds
    <3>4. IsFiniteSet(R)
      <4> DEFINE a == ReadDone(s, "handshake", "error")
                 b == ReadDone(s, "room", "error")
      <4> HIDE DEF a, b
      <4>1. IsFiniteSet({a, b})
        <5>1. IsFiniteSet({a})
          BY FS_Singleton
        <5>2. {a, b} = {a} \cup {b}
          OBVIOUS
        <5> QED BY <5>1, <5>2, FS_AddElement
      <4>2. R \subseteq {a, b}
        BY <3>2 DEF Loops, a, b
      <4> QED BY <4>1, <4>2, FS_Subset
    <3>5. SetToSeq(R) \in Seq(Handlers)
      BY <3>3, <3>4, SetToSeqType, SeqMonotonic
    <3>6. ready' \in Seq(Handlers)
      <4>1. ready \o SetToSeq(R) \in Seq(Handlers)
        BY <3>5, ConcatProperties DEF TypeOK
      <4> QED BY <3>1, <4>1, CloseType, ConcatProperties
    <3>7. reads' \in [Sessions -> SUBSET Loops]
      <4>1. reads[s] \ now \in SUBSET Loops
        BY DEF TypeOK
      <4> QED BY <3>1, <4>1 DEF TypeOK
    <3>8. sock' \in [Sessions -> { "none", "open", "closed" }] /\ writes' \in [Sessions -> Nat]
      BY <3>1, CloseType
    <3> QED BY <1>3, <3>6, <3>7, <3>8 DEF DisconnectNext, TypeOK, roomVars, peerVars, historyVars
  <2> QED BY <2>1, <2>2
<1>4. CASE DisconnectTorn
  BY <1>4 DEF DisconnectTorn, TypeOK, sessionVars, roomVars, peerVars, historyVars
<1> QED BY <1>1, <1>2, <1>3, <1>4 DEF Console

\* Every step of the server, of its peers and of the console keeps the values
\* of the variables where the declarations of the code put them.
LEMMA NextType == TypeOK /\ [Next]_vars => TypeOK'
<1> SUFFICES ASSUME TypeOK, [Next]_vars PROVE TypeOK'
  OBVIOUS
<1>1. CASE IoThread
  BY <1>1, PollType, AcceptType, HandshakeType, JoinType, RoomType, DeliveryType
  DEF IoThread, HandshakeHandler
<1>2. CASE \E s \in Sessions : Connect(s) \/ PeerCloses(s) \/ Reactor(s)
  BY <1>2, PollType
<1>3. CASE AcceptFails
  BY <1>3, PollType
<1>4. CASE Console
  BY <1>4, ConsoleType
<1>5. CASE UNCHANGED vars
  BY <1>5 DEF vars, TypeOK, loopVars, sessionVars, roomVars, consoleVars, peerVars, historyVars
<1> QED BY <1>1, <1>2, <1>3, <1>4, <1>5 DEF Next

\* The handlers of the server, the console's commands and the failures of its
\* peers leave every variable with a value of its type.
THEOREM TypeCorrect == Spec => []TypeOK
<1> QED BY InitType, NextType, PTL DEF Spec

-----------------------------------------------------------------------------
(* The read loop of a session, and what rests on it: every accepted        *)
(* connection is served by one chain of reads, which starts in the accept  *)
(* handler, passes from the handshake to the room once, and does not end   *)
(* while the session is a member.                                          *)


\* The handlers that carry the chain of session s, those of its handshake and
\* those of the room.
Carriers(s) == { h \in Handlers : h.type \in {"accept", "read"} /\ h.session = s }
RoomCarriers(s) == { h \in Carriers(s) : h.type = "read" /\ h.loop = "room" }
HandshakeCarriers(s) == Carriers(s) \ RoomCarriers(s)

Never(q, M)      == \A i \in DOMAIN q : q[i] \notin M
AtMostOnce(q, M) == \A i, j \in DOMAIN q : q[i] \in M /\ q[j] \in M => i = j

\* One chain: at most one read of s is outstanding or reported.
OneCarrier(s) == /\ AtMostOnce(ready, Carriers(s))
                 /\ reads[s] # {} => Never(ready, Carriers(s))
                 /\ \A k, l \in reads[s] : k = l

\* It begins with the accept handler.
NoneYet(s) == peer[s] = "away" =>
                  reads[s] = {} /\ Never(ready, Carriers(s)) /\ m_id[s] = 0

\* join is called once, by the last handler of the handshake.
JoinedOnce(s) == /\ m_id[s] \in {0, s}
                 /\ m_id[s] # 0 => /\ "handshake" \notin reads[s]
                                   /\ Never(ready, HandshakeCarriers(s))

\* A member has its id, and a read of the room in progress or reported.
MemberRead(s) == s \in participants_ =>
                     m_id[s] = s /\ ("room" \in reads[s] \/ ~Never(ready, RoomCarriers(s)))

ChainOK(s) == OneCarrier(s) /\ NoneYet(s) /\ JoinedOnce(s) /\ MemberRead(s)

\* The inductive invariant.
ReadChains == \A s \in Sessions : ChainOK(s)

-----------------------------------------------------------------------------
(* Queues and the handlers in them.                                        *)

\* Posting behind a queue: the handlers of both parts.
LEMMA ConcatNever ==
    ASSUME NEW H, NEW M, NEW q \in Seq(H), NEW p \in Seq(H)
    PROVE  Never(q \o p, M) <=> Never(q, M) /\ Never(p, M)
<1>1. /\ q \o p \in Seq(H) /\ Len(q \o p) = Len(q) + Len(p)
      /\ \A i \in 1 .. Len(q) + Len(p) :
            (q \o p)[i] = IF i <= Len(q) THEN q[i] ELSE p[i - Len(q)]
  BY ConcatProperties
<1>2. /\ DOMAIN q = 1 .. Len(q) /\ DOMAIN p = 1 .. Len(p)
      /\ DOMAIN (q \o p) = 1 .. Len(q) + Len(p)
      /\ Len(q) \in Nat /\ Len(p) \in Nat
  BY <1>1, LenProperties
<1>3. ASSUME Never(q, M), Never(p, M) PROVE Never(q \o p, M)
  BY <1>1, <1>2, <1>3 DEF Never
<1>4. ASSUME Never(q \o p, M) PROVE Never(q, M)
  <2> SUFFICES ASSUME NEW i \in 1 .. Len(q) PROVE q[i] \notin M
    BY <1>2 DEF Never
  <2>1. i \in 1 .. Len(q) + Len(p) /\ (q \o p)[i] = q[i]
    BY <1>1, <1>2
  <2> QED BY <1>2, <1>4, <2>1 DEF Never
<1>5. ASSUME Never(q \o p, M) PROVE Never(p, M)
  <2> SUFFICES ASSUME NEW i \in 1 .. Len(p) PROVE p[i] \notin M
    BY <1>2 DEF Never
  <2>1. i + Len(q) \in 1 .. Len(q) + Len(p) /\ (q \o p)[i + Len(q)] = p[i]
    BY <1>1, <1>2
  <2> QED BY <1>2, <1>5, <2>1 DEF Never
<1> QED BY <1>3, <1>4, <1>5

\* A handler that occurs once in one part and never in the other.
LEMMA ConcatOnce ==
    ASSUME NEW H, NEW M, NEW q \in Seq(H), NEW p \in Seq(H),
           \/ AtMostOnce(q, M) /\ Never(p, M)
           \/ Never(q, M) /\ AtMostOnce(p, M)
    PROVE  AtMostOnce(q \o p, M)
<1>1. /\ q \o p \in Seq(H) /\ Len(q \o p) = Len(q) + Len(p)
      /\ \A i \in 1 .. Len(q) + Len(p) :
            (q \o p)[i] = IF i <= Len(q) THEN q[i] ELSE p[i - Len(q)]
  BY ConcatProperties
<1>2. /\ DOMAIN q = 1 .. Len(q) /\ DOMAIN p = 1 .. Len(p)
      /\ DOMAIN (q \o p) = 1 .. Len(q) + Len(p)
      /\ Len(q) \in Nat /\ Len(p) \in Nat
  BY <1>1, LenProperties
<1> SUFFICES ASSUME NEW i \in 1 .. Len(q) + Len(p), NEW j \in 1 .. Len(q) + Len(p),
                    (q \o p)[i] \in M, (q \o p)[j] \in M
             PROVE  i = j
  BY <1>2 DEF AtMostOnce
<1>3. CASE AtMostOnce(q, M) /\ Never(p, M)
  <2>1. ASSUME NEW k \in 1 .. Len(q) + Len(p), (q \o p)[k] \in M
        PROVE  k \in 1 .. Len(q) /\ q[k] \in M
    BY <1>1, <1>2, <1>3, <2>1 DEF Never
  <2> QED BY <1>2, <1>3, <2>1 DEF AtMostOnce
<1>4. CASE Never(q, M) /\ AtMostOnce(p, M)
  <2>1. ASSUME NEW k \in 1 .. Len(q) + Len(p), (q \o p)[k] \in M
        PROVE  k - Len(q) \in 1 .. Len(p) /\ p[k - Len(q)] \in M
    BY <1>1, <1>2, <1>4, <2>1 DEF Never
  <2>2. i - Len(q) = j - Len(q)
    BY <1>2, <1>4, <2>1 DEF AtMostOnce
  <2> QED BY <1>2, <2>2
<1> QED BY <1>3, <1>4

\* Taking the head off.
LEMMA TailFacts ==
    ASSUME NEW H, NEW M, NEW q \in Seq(H), q # << >>
    PROVE  /\ Never(q, M) <=> Never(Tail(q), M) /\ Head(q) \notin M
           /\ AtMostOnce(q, M) => AtMostOnce(Tail(q), M)
           /\ AtMostOnce(q, M) /\ Head(q) \in M => Never(Tail(q), M)
<1>1. /\ Tail(q) \in Seq(H) /\ Len(Tail(q)) = Len(q) - 1
      /\ \A i \in 1 .. Len(q) - 1 : Tail(q)[i] = q[i + 1]
      /\ Len(q) \in Nat /\ Len(q) >= 1
  BY HeadTailProperties, EmptySeq
<1>2. /\ DOMAIN q = 1 .. Len(q) /\ DOMAIN Tail(q) = 1 .. Len(q) - 1
      /\ Head(q) = q[1]
  BY <1>1, LenProperties
<1>3. \A i \in 1 .. Len(q) : i # 1 => i - 1 \in 1 .. Len(q) - 1 /\ Tail(q)[i - 1] = q[i]
  BY <1>1
<1>4. Never(q, M) => Never(Tail(q), M) /\ Head(q) \notin M
  BY <1>1, <1>2 DEF Never
<1>5. Never(Tail(q), M) /\ Head(q) \notin M => Never(q, M)
  BY <1>2, <1>3 DEF Never
<1>6. AtMostOnce(q, M) => AtMostOnce(Tail(q), M)
  <2> SUFFICES ASSUME AtMostOnce(q, M), NEW i \in 1 .. Len(q) - 1, NEW j \in 1 .. Len(q) - 1,
                      Tail(q)[i] \in M, Tail(q)[j] \in M
               PROVE  i = j
    BY <1>2 DEF AtMostOnce
  <2>1. i + 1 \in 1 .. Len(q) /\ j + 1 \in 1 .. Len(q) /\ q[i + 1] \in M /\ q[j + 1] \in M
    BY <1>1
  <2>2. i + 1 = j + 1
    BY <1>2, <2>1 DEF AtMostOnce
  <2> QED BY <2>2
<1>7. AtMostOnce(q, M) /\ Head(q) \in M => Never(Tail(q), M)
  <2> SUFFICES ASSUME AtMostOnce(q, M), Head(q) \in M, NEW i \in 1 .. Len(q) - 1,
                      Tail(q)[i] \in M
               PROVE  FALSE
    BY <1>2 DEF Never
  <2>1. i + 1 \in 1 .. Len(q) /\ 1 \in 1 .. Len(q) /\ q[i + 1] \in M /\ i + 1 # 1
    BY <1>1
  <2> QED BY <1>2, <2>1 DEF AtMostOnce
<1> QED BY <1>4, <1>5, <1>6, <1>7

\* Deliveries, writes and the poll carry no chain; a read or an accept carries
\* that of its own session.
LEMMA QuietNever ==
    ASSUME NEW p \in Seq(Quiet), NEW s \in Sessions
    PROVE  Never(p, Carriers(s))
<1>1. \A i \in DOMAIN p : p[i] \in Quiet
  BY LenProperties
<1>2. \A h \in Quiet : h.type \notin {"accept", "read"}
  BY DEF Quiet
<1> QED BY <1>1, <1>2 DEF Never, Carriers

\* Which chains a handler carries: that of the session it was started for.
LEMMA CarrierFacts ==
    ASSUME NEW s \in Sessions, NEW t \in Sessions,
           NEW l \in Loops, NEW f \in Frames \cup {"error"}
    PROVE  /\ Accepted(s) \in Carriers(t) <=> s = t
           /\ Accepted(s) \notin RoomCarriers(t)
           /\ Accepted(0) \notin Carriers(t)
           /\ ReadDone(s, l, f) \in Carriers(t) <=> s = t
           /\ ReadDone(s, l, f) \in RoomCarriers(t) <=> s = t /\ l = "room"
           /\ Poll \notin Carriers(t) /\ WriteError(s) \notin Carriers(t)
           /\ \A m : Delivery(s, m) \notin Carriers(t)
<1>1. Accepted(s) \in Handlers /\ ReadDone(s, l, f) \in Handlers
  BY HandlerKinds
<1>2. 0 # t
  BY DEF Sessions
<1> QED BY <1>1, <1>2
  DEF Carriers, RoomCarriers, Accepted, ReadDone, Poll, WriteError, Delivery

\* The reactor queues one completion at a time.
LEMMA QueuedBehind ==
    ASSUME NEW H, NEW q \in Seq(H), NEW h \in H
    PROVE  Append(q, h) = q \o << h >> /\ << h >> \in Seq(H)
OBVIOUS

-----------------------------------------------------------------------------
(* What a step may do to a chain.                                          *)

\* A session that the step does not serve.
LEMMA OtherChain ==
    ASSUME TypeOK, NEW t \in Sessions, ChainOK(t),
           NEW p \in Seq(Handlers), Never(p, Carriers(t)),
           \/ ready' = ready
           \/ ready' = ready \o p
           \/ ready # << >> /\ Head(ready) \notin Carriers(t) /\ ready' = Tail(ready) \o p,
           reads'[t] = reads[t], m_id'[t] = m_id[t],
           peer'[t] = "away" => peer[t] = "away",
           t \in participants_' => t \in participants_
    PROVE  ChainOK(t)'
<1>1. /\ HandshakeCarriers(t) \subseteq Carriers(t)
      /\ RoomCarriers(t) \subseteq Carriers(t)
  BY DEF HandshakeCarriers, RoomCarriers
<1>2. \A M \in SUBSET Carriers(t) : Never(p, M)
  BY DEF Never
<1>3. /\ \A M \in SUBSET Carriers(t) : Never(ready', M) <=> Never(ready, M)
      /\ AtMostOnce(ready, Carriers(t)) => AtMostOnce(ready', Carriers(t))
  <2>1. CASE ready' = ready
    BY <2>1
  <2>2. CASE ready' = ready \o p
    <3>1. ready \in Seq(Handlers)
      BY DEF TypeOK
    <3> QED BY <1>2, <2>2, <3>1, ConcatNever, ConcatOnce
  <2>3. CASE ready # << >> /\ Head(ready) \notin Carriers(t) /\ ready' = Tail(ready) \o p
    <3>1. ready \in Seq(Handlers) /\ Tail(ready) \in Seq(Handlers)
      BY <2>3, HeadTailProperties DEF TypeOK
    <3>2. /\ \A M \in SUBSET Carriers(t) : Never(Tail(ready), M) <=> Never(ready, M)
          /\ AtMostOnce(ready, Carriers(t)) => AtMostOnce(Tail(ready), Carriers(t))
      BY <2>3, <3>1, TailFacts
    <3>3. \A M \in SUBSET Carriers(t) : Never(ready', M) <=> Never(Tail(ready), M)
      BY <1>2, <2>3, <3>1, ConcatNever
    <3>4. AtMostOnce(Tail(ready), Carriers(t)) => AtMostOnce(ready', Carriers(t))
      BY <2>3, <3>1, ConcatOnce
    <3> QED BY <3>2, <3>3, <3>4
  <2> QED BY <2>1, <2>2, <2>3
<1>4. /\ Never(ready', Carriers(t)) <=> Never(ready, Carriers(t))
      /\ Never(ready', HandshakeCarriers(t)) <=> Never(ready, HandshakeCarriers(t))
      /\ Never(ready', RoomCarriers(t)) <=> Never(ready, RoomCarriers(t))
  BY <1>1, <1>3
<1>5. OneCarrier(t)'
  BY <1>3, <1>4 DEF ChainOK, OneCarrier
<1>6. NoneYet(t)' /\ JoinedOnce(t)'
  BY <1>4 DEF ChainOK, NoneYet, JoinedOnce
<1>7. MemberRead(t)'
  BY <1>4 DEF ChainOK, MemberRead
<1> QED BY <1>5, <1>6, <1>7 DEF ChainOK

\* When a handler of the chain is at the head, nothing else carries the chain.
LEMMA HeadCarries ==
    ASSUME TypeOK, NEW s \in Sessions, ChainOK(s), ready # << >>, Head(ready) \in Carriers(s)
    PROVE  /\ reads[s] = {} /\ peer[s] # "away"
           /\ Tail(ready) \in Seq(Handlers)
           /\ Never(Tail(ready), Carriers(s))
           /\ Head(ready) \in HandshakeCarriers(s) => m_id[s] = 0 /\ s \notin participants_
<1>1. ready \in Seq(Handlers) /\ Tail(ready) \in Seq(Handlers)
  BY HeadTailProperties DEF TypeOK
<1>2. ~Never(ready, Carriers(s)) /\ Never(Tail(ready), Carriers(s))
  BY <1>1, TailFacts DEF ChainOK, OneCarrier
<1>3. Head(ready) \in HandshakeCarriers(s) => ~Never(ready, HandshakeCarriers(s))
  BY <1>1, TailFacts
<1>4. 0 # s
  BY DEF Sessions
<1> QED BY <1>1, <1>2, <1>3, <1>4 DEF ChainOK, OneCarrier, NoneYet, JoinedOnce, MemberRead

\* The session that the step serves.
LEMMA OwnChain ==
    ASSUME TypeOK, NEW s \in Sessions, ChainOK(s), ready # << >>, Head(ready) \in Carriers(s),
           NEW p \in Seq(Handlers), ready' = Tail(ready) \o p, AtMostOnce(p, Carriers(s)),
           \/ reads'[s] = {}
           \/ Never(p, Carriers(s)) /\ \E l \in Loops : reads'[s] = {l},
           peer'[s] = peer[s],
           m_id'[s] \in {0, s},
           m_id'[s] # 0 => "handshake" \notin reads'[s] /\ Never(p, HandshakeCarriers(s)),
           s \in participants_' =>
              m_id'[s] = s /\ ("room" \in reads'[s] \/ ~Never(p, RoomCarriers(s)))
    PROVE  ChainOK(s)'
<1>1. /\ Tail(ready) \in Seq(Handlers) /\ Never(Tail(ready), Carriers(s))
      /\ peer[s] # "away"
  BY HeadCarries
<1>2. \A M \in SUBSET Carriers(s) : Never(Tail(ready), M)
  BY <1>1 DEF Never
<1>3. \A M \in SUBSET Carriers(s) : Never(ready', M) <=> Never(p, M)
  BY <1>1, <1>2, ConcatNever
<1>4. AtMostOnce(ready', Carriers(s))
  BY <1>1, ConcatOnce
<1>5. /\ Never(ready', Carriers(s)) <=> Never(p, Carriers(s))
      /\ Never(ready', HandshakeCarriers(s)) <=> Never(p, HandshakeCarriers(s))
      /\ Never(ready', RoomCarriers(s)) <=> Never(p, RoomCarriers(s))
  BY <1>3 DEF HandshakeCarriers, RoomCarriers
<1>6. OneCarrier(s)'
  BY <1>4, <1>5 DEF OneCarrier
<1>7. NoneYet(s)' /\ JoinedOnce(s)'
  BY <1>1, <1>5 DEF NoneYet, JoinedOnce
<1>8. MemberRead(s)'
  BY <1>5 DEF MemberRead
<1> QED BY <1>6, <1>7, <1>8 DEF ChainOK

\* A step that serves no session's chain.
LEMMA QuietStep ==
    ASSUME TypeOK, ReadChains, NEW p \in Seq(Quiet),
           \/ ready' = ready
           \/ ready' = ready \o p
           \/ /\ ready # << >> /\ ready' = Tail(ready) \o p
              /\ \A t \in Sessions : Head(ready) \notin Carriers(t),
           reads' = reads, m_id' = m_id, participants_' \subseteq participants_,
           \A t \in Sessions : peer'[t] = "away" => peer[t] = "away"
    PROVE  ReadChains'
<1> SUFFICES ASSUME NEW t \in Sessions PROVE ChainOK(t)'
  BY DEF ReadChains
<1>1. ChainOK(t) /\ p \in Seq(Handlers) /\ Never(p, Carriers(t))
  BY QuietHandlers, QuietNever DEF ReadChains
<1> QED BY <1>1, OtherChain

\* A step that ends the chain of s, which is not or no longer a member.
LEMMA LastStep ==
    ASSUME TypeOK, ReadChains, NEW s \in Sessions, ready # << >>, Head(ready) \in Carriers(s),
           NEW p \in Seq(Quiet), Return(p),
           reads' = reads, m_id' = m_id, peer' = peer,
           participants_' \subseteq participants_ \ {s}
    PROVE  ReadChains'
<1> SUFFICES ASSUME NEW t \in Sessions PROVE ChainOK(t)'
  BY DEF ReadChains
<1>1. ChainOK(t) /\ p \in Seq(Handlers) /\ Never(p, Carriers(t)) /\ ready' = Tail(ready) \o p
  BY QuietHandlers, QuietNever DEF ReadChains, Return
<1>2. CASE t = s
  <2>1. reads[s] = {}
    BY <1>1, <1>2, HeadCarries
  <2>2. AtMostOnce(p, Carriers(s)) /\ Never(p, HandshakeCarriers(s))
    BY <1>1, <1>2 DEF AtMostOnce, Never, HandshakeCarriers
  <2>3. m_id[s] \in {0, s}
    BY <1>1, <1>2 DEF ChainOK, JoinedOnce
  <2> QED BY <1>1, <1>2, <2>1, <2>2, <2>3, OwnChain
<1>3. CASE t # s
  <2>1. Head(ready) \notin Carriers(t)
    BY <1>3 DEF Carriers
  <2> QED BY <1>1, <1>3, <2>1, OtherChain
<1> QED BY <1>2, <1>3

\* What a handler of s posts, and the read it starts, carry the chain on in
\* loop l, and carry no other.
ContinuesIn(p, s, l) ==
    /\ p \in Seq(Handlers)
    /\ AtMostOnce(p, Carriers(s))
    /\ \A t \in Sessions : t # s => Never(p, Carriers(t)) /\ reads'[t] = reads[t]
    /\ \/ reads'[s] = {} /\ ~Never(p, Carriers(s))
       \/ reads'[s] = {l} /\ Never(p, Carriers(s))
    /\ l = "room" => Never(p, HandshakeCarriers(s))

\* async_read: the read is outstanding, or it has already been reported.
LEMMA ReadingContinues ==
    ASSUME TypeOK, NEW s \in Sessions, NEW l \in Loops, reads[s] = {}, NEW started,
           \/ started = << >>
           \/ \E f \in Frames \cup {"error"} : started = << ReadDone(s, l, f) >>,
           Reading(s, l, started)
    PROVE  ContinuesIn(started, s, l)
<1>1. \A t \in Sessions : t # s => reads'[t] = reads[t]
  BY DEF Reading, TypeOK
<1>2. CASE started = << >>
  <2>1. reads'[s] = {l}
    BY <1>2 DEF Reading, TypeOK
  <2>2. \A M : Never(started, M) /\ AtMostOnce(started, M)
    BY <1>2 DEF Never, AtMostOnce
  <2> QED BY <1>1, <1>2, <2>1, <2>2, EmptySeq DEF ContinuesIn
<1>3. ASSUME NEW f \in Frames \cup {"error"}, started = << ReadDone(s, l, f) >>
      PROVE  ContinuesIn(started, s, l)
  <2>1. reads'[s] = {}
    <3>1. started # << >>
      BY <1>3
    <3> QED BY <3>1 DEF Reading, TypeOK
  <2>2. started \in Seq(Handlers)
    BY <1>3, HandlerKinds
  <2>3. DOMAIN started = {1} /\ started[1] = ReadDone(s, l, f)
    BY <1>3
  <2>4. AtMostOnce(started, Carriers(s)) /\ ~Never(started, Carriers(s))
    BY <2>3, CarrierFacts DEF AtMostOnce, Never
  <2>5. \A t \in Sessions : t # s => Never(started, Carriers(t))
    BY <2>3, CarrierFacts DEF Never
  <2>6. l = "room" => Never(started, HandshakeCarriers(s))
    BY <2>3, CarrierFacts DEF Never, HandshakeCarriers
  <2> QED BY <1>1, <2>1, <2>2, <2>4, <2>5, <2>6 DEF ContinuesIn
<1> QED BY <1>2, <1>3

\* do_read_byte and do_read_handshake start one read, of their own session and loop.
LEMMA StartedReads ==
    ASSUME NEW s \in Sessions, NEW l \in Loops, NEW open \in BOOLEAN,
           NEW started \in EarlyRead(s, l, open) \cup { StartRead(s, l, FALSE) }
    PROVE  \/ started = << >>
           \/ \E f \in Frames \cup {"error"} : started = << ReadDone(s, l, f) >>
BY DEF EarlyRead, StartRead, Arrivals

\* Deliveries and aborted writes before or behind the read make no difference.
LEMMA QuietContinues ==
    ASSUME NEW s \in Sessions, NEW l \in Loops, NEW p, ContinuesIn(p, s, l), NEW q \in Seq(Quiet)
    PROVE  ContinuesIn(p \o q, s, l) /\ ContinuesIn(q \o p, s, l)
<1>1. p \in Seq(Handlers) /\ q \in Seq(Handlers)
  BY QuietHandlers DEF ContinuesIn
<1>2. p \o q \in Seq(Handlers) /\ q \o p \in Seq(Handlers)
  BY <1>1, ConcatProperties
<1>3. \A t \in Sessions : Never(q, Carriers(t))
  BY QuietNever
<1>4. Never(q, HandshakeCarriers(s))
  BY <1>3 DEF Never, HandshakeCarriers
<1>5. AtMostOnce(p \o q, Carriers(s)) /\ AtMostOnce(q \o p, Carriers(s))
  BY <1>1, <1>3, ConcatOnce DEF ContinuesIn
<1>6. /\ \A t \in Sessions : Never(p \o q, Carriers(t)) <=> Never(p, Carriers(t))
      /\ \A t \in Sessions : Never(q \o p, Carriers(t)) <=> Never(p, Carriers(t))
      /\ Never(p \o q, HandshakeCarriers(s)) <=> Never(p, HandshakeCarriers(s))
      /\ Never(q \o p, HandshakeCarriers(s)) <=> Never(p, HandshakeCarriers(s))
  BY <1>1, <1>3, <1>4, ConcatNever
<1>7. ContinuesIn(p \o q, s, l)
  BY <1>2, <1>5, <1>6 DEF ContinuesIn
<1>8. ContinuesIn(q \o p, s, l)
  BY <1>2, <1>5, <1>6 DEF ContinuesIn
<1> QED BY <1>7, <1>8

\* A step that carries the chain of s on: in the handshake, or in the room.
LEMMA NextStep ==
    ASSUME TypeOK, ReadChains, NEW s \in Sessions, ready # << >>, Head(ready) \in Carriers(s),
           NEW l \in Loops, NEW p, ContinuesIn(p, s, l), Return(p), peer' = peer,
           \/ m_id' = m_id
           \/ l = "room" /\ m_id' = [m_id EXCEPT ![s] = s],
           participants_' \subseteq participants_ \cup {s},
           s \in participants_' => m_id'[s] = s /\ l = "room",
           l = "handshake" => Head(ready) \in HandshakeCarriers(s)
    PROVE  ReadChains'
<1> SUFFICES ASSUME NEW t \in Sessions PROVE ChainOK(t)'
  BY DEF ReadChains
<1>1. /\ ChainOK(t) /\ ready' = Tail(ready) \o p /\ p \in Seq(Handlers)
      /\ m_id'[s] \in {m_id[s], s} /\ (t # s => m_id'[t] = m_id[t])
  BY DEF ReadChains, Return, ContinuesIn, TypeOK
<1>2. CASE t = s
  <2>1. m_id[s] \in {0, s}
    BY <1>1, <1>2 DEF ChainOK, JoinedOnce
  <2>2. /\ AtMostOnce(p, Carriers(s))
        /\ \/ reads'[s] = {}
           \/ Never(p, Carriers(s)) /\ \E k \in Loops : reads'[s] = {k}
    BY DEF ContinuesIn
  <2>3. m_id'[s] # 0 => "handshake" \notin reads'[s] /\ Never(p, HandshakeCarriers(s))
    <3>1. CASE l = "room"
      BY <3>1 DEF ContinuesIn
    <3>2. CASE l = "handshake"
      BY <1>1, <1>2, <3>2, HeadCarries
    <3> QED BY <3>1, <3>2 DEF Loops
  <2>4. l = "room" => "room" \in reads'[s] \/ ~Never(p, RoomCarriers(s))
    BY DEF ContinuesIn, Never, HandshakeCarriers
  <2> QED BY <1>1, <1>2, <2>1, <2>2, <2>3, <2>4, OwnChain
<1>3. CASE t # s
  <2>1. Head(ready) \notin Carriers(t) /\ Never(p, Carriers(t)) /\ reads'[t] = reads[t]
    BY <1>3 DEF Carriers, ContinuesIn
  <2>2. t \in participants_' => t \in participants_
    BY <1>3
  <2> QED BY <1>1, <1>3, <2>1, <2>2, OtherChain
<1> QED BY <1>2, <1>3

-----------------------------------------------------------------------------
(* The steps of the server.                                                *)

\* The session whose frame or connection a handler serves.
LEMMA HeadOf ==
    ASSUME NEW s \in Sessions
    PROVE  /\ \A t \in Sessions : Accepted(s) \in Carriers(t) <=> s = t
           /\ Accepted(s) \in HandshakeCarriers(s)
           /\ \A f \in Frames \cup {"error"} :
                 /\ ReadDone(s, "handshake", f) \in Carriers(s)
                 /\ ReadDone(s, "handshake", f) \in HandshakeCarriers(s)
                 /\ ReadDone(s, "room", f) \in Carriers(s)
<1>1. "handshake" \in Loops /\ "room" \in Loops /\ "OTHER" \in Frames
  BY DEF Loops, Frames
<1>2. \A t \in Sessions : Accepted(s) \in Carriers(t) <=> s = t
  BY <1>1, CarrierFacts
<1>3. Accepted(s) \in HandshakeCarriers(s)
  BY <1>1, CarrierFacts DEF HandshakeCarriers
<1>4. \A f \in Frames \cup {"error"} :
         /\ ReadDone(s, "handshake", f) \in Carriers(s)
         /\ ReadDone(s, "handshake", f) \in HandshakeCarriers(s)
         /\ ReadDone(s, "room", f) \in Carriers(s)
  <2> TAKE f \in Frames \cup {"error"}
  <2>1. ReadDone(s, "handshake", f) \in Carriers(s) /\ ReadDone(s, "room", f) \in Carriers(s)
    BY <1>1, CarrierFacts
  <2>2. ReadDone(s, "handshake", f) \notin RoomCarriers(s)
    BY <1>1, CarrierFacts
  <2> QED BY <2>1, <2>2 DEF HandshakeCarriers
<1> QED BY <1>2, <1>3, <1>4

\* The reactor's turn, the acceptor and the peers: a chain begins with a connection.
LEMMA PollChains ==
    ASSUME TypeOK, ReadChains
    PROVE  /\ PollEnds => ReadChains'
           /\ AcceptFails => ReadChains'
           /\ \A s \in Sessions : Connect(s) \/ PeerCloses(s) => ReadChains'
<1>0. ready \in Seq(Handlers) /\ << >> \in Seq(Quiet)
  BY EmptySeq DEF TypeOK
<1>1. ASSUME PollEnds PROVE ReadChains'
  <2>1. Tail(ready) \in Seq(Handlers) /\ ready # << >> /\ Head(ready) = Poll
    BY <1>0, <1>1, HeadTailProperties DEF PollEnds, Polling
  <2>2. ready' = Tail(ready) \o << Poll >> /\ << Poll >> \in Seq(Quiet)
    <3>1. Poll \in Handlers /\ Poll \in Quiet
      BY DEF Handlers, Quiet, Poll
    <3> QED BY <1>1, <2>1, <3>1, QueuedBehind DEF PollEnds
  <2>3. \A t \in Sessions : Poll \notin Carriers(t)
    BY DEF Poll, Carriers
  <2>4. reads' = reads /\ m_id' = m_id /\ participants_' = participants_ /\ peer' = peer
    BY <1>1 DEF PollEnds, roomVars, peerVars
  <2> QED BY <2>1, <2>2, <2>3, <2>4, QuietStep
<1>2. ASSUME AcceptFails PROVE ReadChains'
  <2> SUFFICES ASSUME NEW t \in Sessions PROVE ChainOK(t)'
    BY DEF ReadChains
  <2>1. Accepted(0) \in Handlers
    BY BoundsAssumption DEF Accepted, Handlers, Ids
  <2>2. ready' = ready \o << Accepted(0) >> /\ << Accepted(0) >> \in Seq(Handlers)
    BY <1>0, <1>2, <2>1, QueuedBehind DEF AcceptFails
  <2>3. Never(<< Accepted(0) >>, Carriers(t))
    <3>1. Accepted(0) \notin Carriers(t)
      BY DEF Accepted, Carriers, Sessions
    <3> QED BY <3>1 DEF Never
  <2>4. /\ reads' = reads /\ m_id' = m_id /\ participants_' = participants_ /\ peer' = peer
        /\ ChainOK(t)
    BY <1>2 DEF AcceptFails, sessionVars, roomVars, peerVars, ReadChains
  <2> QED BY <2>2, <2>3, <2>4, OtherChain
<1>3. ASSUME NEW s \in Sessions, Connect(s) PROVE ReadChains'
  <2> SUFFICES ASSUME NEW t \in Sessions PROVE ChainOK(t)'
    BY DEF ReadChains
  <2> DEFINE p == << Accepted(s) >>
  <2>1. Accepted(s) \in Handlers
    BY HandlerKinds
  <2>2. ready' = ready \o p /\ p \in Seq(Handlers)
    BY <1>0, <1>3, <2>1, QueuedBehind DEF Connect
  <2>3. /\ reads' = reads /\ m_id' = m_id /\ participants_' = participants_
        /\ ChainOK(t) /\ peer[s] = "away" /\ peer' = [peer EXCEPT ![s] = "connected"]
    BY <1>3 DEF Connect, roomVars, ReadChains
  <2>4. DOMAIN p = {1} /\ p[1] = Accepted(s)
    OBVIOUS
  <2>5. CASE t = s
    <3>1. reads[s] = {} /\ Never(ready, Carriers(s)) /\ m_id[s] = 0 /\ s \notin participants_
      <4>1. reads[s] = {} /\ Never(ready, Carriers(s)) /\ m_id[s] = 0
        BY <2>3, <2>5 DEF ChainOK, NoneYet
      <4>2. s # 0
        BY DEF Sessions
      <4> QED BY <2>3, <2>5, <4>1, <4>2 DEF ChainOK, MemberRead
    <3>2. AtMostOnce(p, Carriers(s))
      BY <2>4 DEF AtMostOnce
    <3>3. AtMostOnce(ready', Carriers(s))
      BY <1>0, <2>2, <3>1, <3>2, ConcatOnce
    <3>4. peer'[s] # "away"
      BY <2>3 DEF TypeOK
    <3> QED BY <2>3, <2>5, <3>1, <3>3, <3>4
      DEF ChainOK, OneCarrier, NoneYet, JoinedOnce, MemberRead
  <2>6. CASE t # s
    <3>1. Never(p, Carriers(t))
      BY <2>4, <2>6, HeadOf DEF Never
    <3>2. peer'[t] = peer[t]
      BY <2>3, <2>6 DEF TypeOK
    <3> QED BY <2>2, <2>3, <3>1, <3>2, OtherChain
  <2> QED BY <2>5, <2>6
<1>4. ASSUME NEW s \in Sessions, PeerCloses(s) PROVE ReadChains'
  <2>1. /\ ready' = ready /\ reads' = reads /\ m_id' = m_id /\ participants_' = participants_
        /\ peer' = [peer EXCEPT ![s] = "gone"]
    BY <1>4 DEF PeerCloses, loopVars, sessionVars, roomVars
  <2>2. \A t \in Sessions : peer'[t] = "away" => peer[t] = "away"
    BY <2>1 DEF TypeOK
  <2> QED BY <1>0, <2>1, <2>2, QuietStep
<1> QED BY <1>1, <1>2, <1>3, <1>4

\* The outstanding read of s is reported, or stays: k of the reads now
\* outstanding, none or all, are in the queue afterwards.
LEMMA ReportChain ==
    ASSUME TypeOK, ReadChains, NEW s \in Sessions, NEW p \in Seq(Handlers),
           ready' = ready \o p,
           \A t \in Sessions : t # s => Never(p, Carriers(t)) /\ reads'[t] = reads[t],
           \/ Never(p, Carriers(s)) /\ reads'[s] = reads[s]
           \/ /\ reads[s] # {} /\ reads'[s] = {} /\ AtMostOnce(p, Carriers(s))
              /\ "handshake" \notin reads[s] => Never(p, HandshakeCarriers(s))
              /\ "room" \in reads[s] => ~Never(p, RoomCarriers(s)),
           m_id' = m_id, participants_' = participants_, peer' = peer
    PROVE  ReadChains'
<1> SUFFICES ASSUME NEW t \in Sessions PROVE ChainOK(t)'
  BY DEF ReadChains
<1>1. ChainOK(t) /\ ready \in Seq(Handlers)
  BY DEF ReadChains, TypeOK
<1>2. CASE Never(p, Carriers(t)) /\ reads'[t] = reads[t]
  BY <1>1, <1>2, OtherChain
<1>3. CASE /\ t = s /\ reads[s] # {} /\ reads'[s] = {} /\ AtMostOnce(p, Carriers(s))
           /\ "handshake" \notin reads[s] => Never(p, HandshakeCarriers(s))
           /\ "room" \in reads[s] => ~Never(p, RoomCarriers(s))
  <2>1. Never(ready, Carriers(s))
    BY <1>1, <1>3 DEF ChainOK, OneCarrier
  <2>2. \A M \in SUBSET Carriers(s) : Never(ready, M)
    BY <2>1 DEF Never
  <2>3. /\ Never(ready', HandshakeCarriers(s)) <=> Never(p, HandshakeCarriers(s))
        /\ Never(ready', RoomCarriers(s)) <=> Never(p, RoomCarriers(s))
        /\ Never(ready, RoomCarriers(s))
    <3>1. Never(ready, HandshakeCarriers(s)) /\ Never(ready, RoomCarriers(s))
      BY <2>2 DEF HandshakeCarriers, RoomCarriers
    <3> QED BY <1>1, <3>1, ConcatNever
  <2>4. AtMostOnce(ready', Carriers(s))
    BY <1>1, <1>3, <2>1, ConcatOnce
  <2>5. OneCarrier(s)'
    BY <1>3, <2>4 DEF OneCarrier
  <2>6. NoneYet(s)' /\ JoinedOnce(s)'
    BY <1>1, <1>3, <2>3 DEF ChainOK, NoneYet, JoinedOnce
  <2>7. MemberRead(s)'
    BY <1>1, <1>3, <2>3 DEF ChainOK, MemberRead
  <2> QED BY <1>3, <2>5, <2>6, <2>7 DEF ChainOK
<1> QED BY <1>2, <1>3

\* One read of s in the queue.
LEMMA OneReport ==
    ASSUME TypeOK, NEW s \in Sessions, NEW l \in Loops, NEW f \in Frames \cup {"error"}
    PROVE  /\ << ReadDone(s, l, f) >> \in Seq(Handlers)
           /\ AtMostOnce(<< ReadDone(s, l, f) >>, Carriers(s))
           /\ l = "room" => /\ Never(<< ReadDone(s, l, f) >>, HandshakeCarriers(s))
                           /\ ~Never(<< ReadDone(s, l, f) >>, RoomCarriers(s))
           /\ \A t \in Sessions : t # s => Never(<< ReadDone(s, l, f) >>, Carriers(t))
<1> DEFINE p == << ReadDone(s, l, f) >>
<1>1. DOMAIN p = {1} /\ p[1] = ReadDone(s, l, f) /\ p \in Seq(Handlers)
  BY HandlerKinds
<1>2. AtMostOnce(p, Carriers(s))
  BY <1>1 DEF AtMostOnce
<1>3. l = "room" => Never(p, HandshakeCarriers(s)) /\ ~Never(p, RoomCarriers(s))
  BY <1>1, CarrierFacts DEF Never, HandshakeCarriers
<1>4. \A t \in Sessions : t # s => Never(p, Carriers(t))
  BY <1>1, CarrierFacts DEF Never
<1> QED BY <1>1, <1>2, <1>3, <1>4

\* Completions of async_read and async_write.
LEMMA ReactorChains ==
    ASSUME TypeOK, ReadChains, NEW s \in Sessions, Reactor(s)
    PROVE  ReadChains'
<1>1. CASE \E l \in reads[s], f \in Frames \cup {"error"} : ReadCompletes(s, l, f)
  <2>1. PICK l \in reads[s], f \in Frames \cup {"error"} : ReadCompletes(s, l, f)
    BY <1>1
  <2>2. l \in Loops /\ reads[s] = {l}
    BY DEF TypeOK, ReadChains, ChainOK, OneCarrier
  <2>3. /\ reads'[s] = {} /\ \A t \in Sessions : t # s => reads'[t] = reads[t]
        /\ ready' = ready \o << ReadDone(s, l, f) >>
    BY <2>1, <2>2, HandlerKinds, QueuedBehind DEF ReadCompletes, TypeOK
  <2>4. m_id' = m_id /\ participants_' = participants_ /\ peer' = peer
    BY <2>1 DEF ReadCompletes, roomVars
  <2>5. l = "room" \/ l = "handshake"
    BY <2>2 DEF Loops
  <2> QED BY <2>2, <2>3, <2>4, <2>5, OneReport, ReportChain
<1>2. CASE WriteSucceeds(s) \/ WriteFails(s) \/ FreedWriteFails(s)
  <2>1. << >> \in Seq(Quiet) /\ << WriteError(s) >> \in Seq(Quiet)
    BY EmptySeq, QuietHandlers
  <2>2. ready \in Seq(Handlers) /\ WriteError(s) \in Handlers
    BY HandlerKinds DEF TypeOK
  <2>3. ready' = ready \/ ready' = Append(ready, WriteError(s))
    BY <1>2 DEF WriteSucceeds, WriteFails, FreedWriteFails, loopVars
  <2>4. ready' = ready \/ ready' = ready \o << WriteError(s) >>
    BY <2>2, <2>3, QueuedBehind
  <2>5. reads' = reads /\ m_id' = m_id /\ participants_' = participants_ /\ peer' = peer
    BY <1>2 DEF WriteSucceeds, WriteFails, FreedWriteFails, roomVars, peerVars
  <2> QED BY <2>1, <2>4, <2>5, QuietStep
<1> QED BY <1>1, <1>2 DEF Reactor, ReadSucceeds, ReadFails, Arrivals

\* do_accept and start: the accept handler hands over to the first read.
LEMMA AcceptChains ==
    ASSUME TypeOK, ReadChains, AcceptHandler
    PROVE  ReadChains'
<1>0. << >> \in Seq(Quiet)
  BY EmptySeq
<1>1. CASE AcceptError
  <2>1. \A t \in Sessions : Accepted(0) \notin Carriers(t)
    BY DEF Accepted, Carriers, Sessions
  <2>2. reads' = reads /\ m_id' = m_id /\ participants_' = participants_ /\ peer' = peer
    BY <1>1 DEF AcceptError, sessionVars, roomVars, peerVars
  <2> QED BY <1>0, <1>1, <2>1, <2>2, QuietStep DEF AcceptError, Return
<1>2. ASSUME NEW s \in Sessions, StartThrows(s) PROVE ReadChains'
  <2>1. /\ ready # << >> /\ Head(ready) = Accepted(s) /\ Return(<< >>)
        /\ reads' = reads /\ m_id' = m_id /\ participants_' = participants_ /\ peer' = peer
    BY <1>2 DEF StartThrows, sessionVars, roomVars, peerVars
  <2>2. Head(ready) \in Carriers(s) /\ Head(ready) \in HandshakeCarriers(s)
    BY <2>1, HeadOf
  <2>3. s \notin participants_
    BY <2>1, <2>2, HeadCarries DEF ReadChains
  <2> QED BY <1>0, <2>1, <2>2, <2>3, LastStep
<1>3. ASSUME NEW s \in Sessions, StartHandshake(s) PROVE ReadChains'
  <2>1. PICK started \in EarlyRead(s, "handshake", TRUE) :
           /\ Reading(s, "handshake", started)
           /\ Return(started \o << Delivery(s, Message("HANDSHAKE_HELLO", m_id[s])) >>)
    BY <1>3 DEF StartHandshake
  <2>2. /\ ready # << >> /\ Head(ready) = Accepted(s)
        /\ m_id' = m_id /\ participants_' = participants_ /\ peer' = peer
    BY <1>3 DEF StartHandshake, roomVars
  <2>3. Head(ready) \in Carriers(s) /\ Head(ready) \in HandshakeCarriers(s)
    BY <2>2, HeadOf
  <2>4. reads[s] = {} /\ s \notin participants_
    BY <2>2, <2>3, HeadCarries DEF ReadChains
  <2>5. ContinuesIn(started, s, "handshake")
    BY <2>1, <2>4, StartedReads, ReadingContinues DEF Loops
  <2>6. << Delivery(s, Message("HANDSHAKE_HELLO", m_id[s])) >> \in Seq(Quiet)
    <3>1. Message("HANDSHAKE_HELLO", m_id[s]) \in Messages
      BY MessageType DEF Heads, TypeOK
    <3> QED BY <3>1, QuietHandlers
  <2>7. ContinuesIn(started \o << Delivery(s, Message("HANDSHAKE_HELLO", m_id[s])) >>,
                    s, "handshake")
    BY <2>5, <2>6, QuietContinues DEF Loops
  <2> QED BY <2>1, <2>2, <2>3, <2>4, <2>7, NextStep DEF Loops
<1> QED BY <1>1, <1>2, <1>3 DEF AcceptHandler

\* do_read_handshake: the chain goes on in the handshake, or ends with an error.
LEMMA HandshakeChains ==
    ASSUME TypeOK, ReadChains, NEW s \in Sessions,
           \/ HelloAck(s) \/ HelloAckOverreads(s)
           \/ HandshakeIgnores(s) \/ HandshakeReadError(s)
    PROVE  ReadChains'
<1>1. PICK f \in Frames \cup {"error"} : Head(ready) = ReadDone(s, "handshake", f)
  BY DEF HelloAck, HelloAckOverreads, HandshakeIgnores, HandshakeReadError, HandshakeReads,
         Frames, HelloAcks
<1>2. /\ ready # << >> /\ m_id' = m_id /\ participants_' = participants_ /\ peer' = peer
      /\ Head(ready) \in Carriers(s) /\ Head(ready) \in HandshakeCarriers(s)
  BY <1>1, HeadOf
  DEF HelloAck, HelloAckOverreads, HandshakeIgnores, HandshakeReadError, HandshakeReads,
      roomVars, peerVars
<1>3. reads[s] = {} /\ s \notin participants_
  BY <1>2, HeadCarries DEF ReadChains
<1>4. ASSUME NEW started \in EarlyRead(s, "handshake", IsOpen(s)),
             Reading(s, "handshake", started)
      PROVE  ContinuesIn(started, s, "handshake")
  <2>1. IsOpen(s) \in BOOLEAN
    BY DEF IsOpen
  <2> QED BY <1>3, <1>4, <2>1, StartedReads, ReadingContinues DEF Loops
<1>5. CASE HelloAck(s)
  <2> DEFINE login == << Delivery(s, Message("HANDSHAKE_CREDENTIALS", 0)) >>
  <2>1. Message("HANDSHAKE_CREDENTIALS", 0) \in Messages
    BY MessageType, BoundsAssumption DEF Heads, Ids
  <2>2. login \in Seq(Quiet)
    BY <2>1, QuietHandlers
  <2> HIDE DEF login
  <2>3. PICK started \in EarlyRead(s, "handshake", IsOpen(s)) :
           Reading(s, "handshake", started) /\ Return(login \o started)
    BY <1>5 DEF HelloAck, login
  <2>4. ContinuesIn(login \o started, s, "handshake")
    BY <1>4, <2>2, <2>3, QuietContinues DEF Loops
  <2> QED BY <1>2, <1>3, <2>3, <2>4, NextStep DEF Loops
<1>6. CASE HandshakeIgnores(s)
  <2>1. PICK started \in EarlyRead(s, "handshake", IsOpen(s)) :
           Reading(s, "handshake", started) /\ Return(started)
    BY <1>6 DEF HandshakeIgnores
  <2> QED BY <1>2, <1>3, <1>4, <2>1, NextStep DEF Loops
<1>7. CASE HandshakeReadError(s)
  <2>1. PICK n \in 0 .. writes[s] : Return(AbortedWrites(s, n))
    BY <1>7 DEF HandshakeReadError
  <2>2. AbortedWrites(s, n) \in Seq(Quiet) /\ reads' = reads
    BY <1>7, CloseType DEF HandshakeReadError
  <2> QED BY <1>2, <1>3, <2>1, <2>2, LastStep
<1>8. CASE HelloAckOverreads(s)
  <2>1. Return(<< >>) /\ reads' = reads
    BY <1>8 DEF HelloAckOverreads
  <2>2. << >> \in Seq(Quiet) /\ participants_' \subseteq participants_ \ {s}
    BY <1>2, <1>3, EmptySeq
  <2> QED BY <1>2, <2>1, <2>2, LastStep
<1> QED BY <1>5, <1>6, <1>7, <1>8

\* What the three outcomes of a CREDENTIALS_ACK share: the chain goes on in the room.
LEMMA CredentialsChain ==
    ASSUME TypeOK, ReadChains, NEW s \in Sessions, NEW f \in Presented(s),
           NEW started \in EarlyRead(s, "room", PassesCredentials(s, f))
                            \cup { StartRead(s, "room", FALSE) },
           CredentialsAck(s, f, started)
    PROVE  /\ ready # << >> /\ Head(ready) \in Carriers(s) /\ peer' = peer
           /\ m_id[s] = 0 /\ s \notin participants_
           /\ ContinuesIn(started, s, "room")
<1>1. /\ ready # << >> /\ Head(ready) = ReadDone(s, "handshake", f)
      /\ Reading(s, "room", started) /\ peer' = peer
  BY DEF Presented, CredentialsAck
<1>2. Head(ready) \in Carriers(s) /\ Head(ready) \in HandshakeCarriers(s)
  BY <1>1, HeadOf DEF Presented, Credentials, Frames
<1>3. reads[s] = {} /\ m_id[s] = 0 /\ s \notin participants_
  BY <1>1, <1>2, HeadCarries DEF ReadChains
<1>4. \/ started = << >>
      \/ \E k \in Frames \cup {"error"} : started = << ReadDone(s, "room", k) >>
  <2>1. PassesCredentials(s, f) \in BOOLEAN
    BY DEF PassesCredentials
  <2> QED BY <2>1, StartedReads DEF Loops
<1> QED BY <1>1, <1>2, <1>3, <1>4, ReadingContinues DEF Loops

\* CREDENTIALS_ACK: whatever join does, the chain goes on in the room.
LEMMA JoinChains ==
    ASSUME TypeOK, ReadChains, NEW s \in Sessions,
           JoinFull(s) \/ JoinThrows(s) \/ JoinAdmits(s)
    PROVE  ReadChains'
<1>0. "room" \in Loops /\ s \in Ids
  BY DEF Loops, Sessions, Ids
<1>1. \A id \in Ids : << Delivery(s, Message("PARTICIPANT_JOIN", id)) >> \in Seq(Quiet)
  BY MessageType, QuietHandlers DEF Heads
<1>2. CASE JoinFull(s)
  <2>0. PICK f \in Presented(s) :
           \E started \in EarlyRead(s, "room", PassesCredentials(s, f))
                         \cup { StartRead(s, "room", FALSE) } :
              /\ CredentialsAck(s, f, started)
              /\ \E n \in 0 .. writes[s] :
                    Return(started \o AbortedWrites(s, n)
                           \o << Delivery(s, Message("PARTICIPANT_JOIN", m_id[s])) >>)
    BY <1>2 DEF JoinFull
  <2>1. PICK started \in EarlyRead(s, "room", PassesCredentials(s, f))
                         \cup { StartRead(s, "room", FALSE) },
             n \in 0 .. writes[s] :
           /\ CredentialsAck(s, f, started)
           /\ Return(started \o AbortedWrites(s, n)
                     \o << Delivery(s, Message("PARTICIPANT_JOIN", m_id[s])) >>)
    BY <2>0
  <2>2. ContinuesIn(started \o AbortedWrites(s, n), s, "room")
    BY <1>0, <2>1, CredentialsChain, CloseType, QuietContinues
  <2>3. << Delivery(s, Message("PARTICIPANT_JOIN", m_id[s])) >> \in Seq(Quiet)
    BY <1>1 DEF TypeOK
  <2>4. ContinuesIn(started \o AbortedWrites(s, n)
                    \o << Delivery(s, Message("PARTICIPANT_JOIN", m_id[s])) >>, s, "room")
    BY <1>0, <2>2, <2>3, QuietContinues
  <2>5. m_id' = m_id /\ participants_' = participants_
    BY <1>2 DEF JoinFull
  <2> QED BY <1>0, <2>1, <2>4, <2>5, CredentialsChain, NextStep
<1>3. CASE JoinThrows(s)
  <2>0. PICK f \in Presented(s) :
           \E started \in EarlyRead(s, "room", PassesCredentials(s, f)) :
              /\ CredentialsAck(s, f, started)
              /\ \E n \in 0 .. writes[s] : Return(AbortedWrites(s, n) \o started)
    BY <1>3 DEF JoinThrows
  <2>1. PICK started \in EarlyRead(s, "room", PassesCredentials(s, f)), n \in 0 .. writes[s] :
           CredentialsAck(s, f, started) /\ Return(AbortedWrites(s, n) \o started)
    BY <2>0
  <2>2. ContinuesIn(AbortedWrites(s, n) \o started, s, "room")
    BY <1>0, <2>1, CredentialsChain, CloseType, QuietContinues
  <2>3. m_id' = [m_id EXCEPT ![s] = s] /\ participants_' = participants_
    BY <1>3 DEF JoinThrows
  <2> QED BY <1>0, <2>1, <2>2, <2>3, CredentialsChain, NextStep
<1>4. CASE JoinAdmits(s)
  <2>0. PICK f \in Presented(s) :
           \E started \in EarlyRead(s, "room", PassesCredentials(s, f)) :
              /\ CredentialsAck(s, f, started)
              /\ Return(started \o << Delivery(s, Message("PARTICIPANT_JOIN", s)) >>)
    BY <1>4 DEF JoinAdmits
  <2>1. PICK started \in EarlyRead(s, "room", PassesCredentials(s, f)) :
           /\ CredentialsAck(s, f, started)
           /\ Return(started \o << Delivery(s, Message("PARTICIPANT_JOIN", s)) >>)
    BY <2>0
  <2>2. ContinuesIn(started \o << Delivery(s, Message("PARTICIPANT_JOIN", s)) >>, s, "room")
    BY <1>0, <1>1, <2>1, CredentialsChain, QuietContinues
  <2>3. m_id' = [m_id EXCEPT ![s] = s] /\ participants_' = participants_ \cup {s}
    BY <1>4 DEF JoinAdmits, RoomBecomes
  <2>4. m_id'[s] = s
    BY <2>3 DEF TypeOK
  <2> QED BY <1>0, <2>1, <2>2, <2>3, <2>4, CredentialsChain, NextStep
<1> QED BY <1>2, <1>3, <1>4

\* The id of a session finds that session in the room, if it is there, and
\* no other.
LEMMA FindOwn ==
    ASSUME TypeOK, ReadChains, NEW s \in Sessions
    PROVE  /\ Without(m_id[s]) = participants_ \ {s}
           /\ s \in participants_ <=> Find(m_id[s]) # {}
           /\ s \in participants_ <=> Find(s) # {}
<1>1. \A t \in participants_ : t \in Sessions /\ m_id[t] = t /\ t # 0
  BY DEF TypeOK, ReadChains, ChainOK, MemberRead, Sessions
<1>2. m_id[s] \in {0, s}
  BY DEF ReadChains, ChainOK, JoinedOnce
<1>3. Find(m_id[s]) = participants_ \cap {s} /\ Find(s) = participants_ \cap {s}
  BY <1>1, <1>2 DEF Find
<1> QED BY <1>3 DEF Without

\* do_read_byte: the chain goes on, or ends when the session leaves the room or
\* the thread stops.
LEMMA RoomChains ==
    ASSUME TypeOK, ReadChains, NEW s \in Sessions, RoomHandler(s)
    PROVE  ReadChains'
<1>0. << >> \in Seq(Quiet) /\ "room" \in Loops /\ m_id[s] \in Ids
  BY EmptySeq DEF Loops, TypeOK
<1>1. PICK f \in Frames \cup {"error"} : Head(ready) = ReadDone(s, "room", f)
  BY DEF RoomHandler, JoinAck, JoinAckOfStranger, JoinAckOverruns, NewAck, UpdateAck,
         LeaveAck, LeaveAckOfStranger, OtherFrame, RoomReadError, RoomReads, Frames, HelloAcks
<1>2. ready # << >> /\ peer' = peer /\ m_id' = m_id
  BY DEF RoomHandler, JoinAck, JoinAckOfStranger, JoinAckOverruns, NewAck, UpdateAck,
         LeaveAck, LeaveAckOfStranger, OtherFrame, RoomReadError, RoomReads, peerVars, sessionVars
<1>3. Head(ready) \in Carriers(s)
  BY <1>1, HeadOf
<1>4. reads[s] = {} /\ (s \in participants_ => m_id[s] = s)
  BY <1>2, <1>3, HeadCarries DEF ReadChains, ChainOK, MemberRead
<1>5. ASSUME NEW posted \in Seq(Quiet), ReadsOn(s, posted),
             participants_' \subseteq participants_
      PROVE  ReadChains'
  <2>0. PICK started \in EarlyRead(s, "room", IsOpen(s)) :
           Reading(s, "room", started) /\ Return(posted \o started)
    BY <1>5 DEF ReadsOn
  <2>1. IsOpen(s) \in BOOLEAN
    BY DEF IsOpen
  <2>2. ContinuesIn(started, s, "room")
    BY <1>0, <1>4, <2>0, <2>1, StartedReads, ReadingContinues
  <2>3. ContinuesIn(posted \o started, s, "room") /\ Return(posted \o started)
    BY <1>0, <2>0, <2>2, QuietContinues
  <2> QED BY <1>0, <1>2, <1>3, <1>4, <1>5, <2>3, NextStep
<1>6. CASE JoinAck(s)
  BY <1>5, <1>6, IntroductionsType DEF JoinAck, roomVars
<1>7. CASE NewAck(s)
  BY <1>0, <1>5, <1>7 DEF NewAck, roomVars
<1>8. CASE UpdateAck(s)
  <2>1. Message("PARTICIPANT_UPDATE_ACK", m_id[s]) \in Messages
    BY <1>0, MessageType DEF Heads
  <2>2. DeliverToAll(Without(m_id[s]), Message("PARTICIPANT_UPDATE_ACK", m_id[s])) \in Seq(Quiet)
    BY <2>1, DeliverToAllType DEF Without, TypeOK
  <2> QED BY <1>5, <1>8, <2>2 DEF UpdateAck, roomVars
<1>9. CASE LeaveAck(s)
  <2>1. participants_' \subseteq participants_
    BY <1>9 DEF LeaveAck, RoomBecomes, Without
  <2> QED BY <1>0, <1>5, <1>9, <2>1, DepartureType DEF LeaveAck
<1>10. CASE JoinAckOfStranger(s) \/ LeaveAckOfStranger(s)
  <2>1. reads' = reads /\ participants_' = participants_ /\ Return(<< >>)
    BY <1>10 DEF JoinAckOfStranger, LeaveAckOfStranger, sessionVars, roomVars
  <2>2. s \notin participants_
    BY <1>10, FindOwn DEF JoinAckOfStranger, LeaveAckOfStranger
  <2>3. participants_' \subseteq participants_ \ {s}
    BY <2>1, <2>2
  <2> QED BY <1>0, <1>2, <1>3, <2>1, <2>3, LastStep
<1>11. CASE OtherFrame(s)
  <2> DEFINE failed == StartRead(s, "room", FALSE)
  <2>1. PICK n \in 0 .. writes[s] :
           Reading(s, "room", failed) /\ Return(AbortedWrites(s, n) \o failed)
    BY <1>11 DEF OtherFrame
  <2>2. failed = << ReadDone(s, "room", "error") >>
    BY DEF StartRead
  <2>3. ContinuesIn(failed, s, "room")
    <3> HIDE DEF failed
    <3> QED BY <1>0, <1>4, <2>1, <2>2, ReadingContinues
  <2>4. ContinuesIn(AbortedWrites(s, n) \o failed, s, "room")
    <3> HIDE DEF failed
    <3> QED BY <1>0, <2>1, <2>3, CloseType, QuietContinues
  <2>5. participants_' = participants_
    BY <1>11 DEF OtherFrame, roomVars
  <2> HIDE DEF failed
  <2> QED BY <1>0, <1>2, <1>3, <1>4, <2>1, <2>4, <2>5, NextStep
<1>12. CASE RoomReadError(s)
  <2>1. Departure(m_id[s]) /\ reads' = reads
    BY <1>12 DEF RoomReadError, sessionVars
  <2>2. participants_' \subseteq participants_ \ {s}
    BY <2>1, FindOwn DEF Departure, RoomBecomes
  <2> QED BY <1>0, <1>2, <1>3, <2>1, <2>2, DepartureType, LastStep DEF Departure
<1>13. CASE JoinAckOverruns(s)
  <2>1. ready' = ready /\ reads' = reads /\ participants_' = participants_
    BY <1>13 DEF JoinAckOverruns, roomVars
  <2> QED BY <1>0, <1>2, <2>1, QuietStep
<1> QED BY <1>6, <1>7, <1>8, <1>9, <1>10, <1>11, <1>12, <1>13 DEF RoomHandler

\* deliver_byte and do_write_byte touch no chain; a write error may end a membership.
LEMMA DeliveryChains ==
    ASSUME TypeOK, ReadChains, NEW s \in Sessions, DeliveryHandler(s)
    PROVE  ReadChains'
<1>0. << >> \in Seq(Quiet) /\ << WriteError(s) >> \in Seq(Quiet) /\ m_id[s] \in Ids
  BY EmptySeq, QuietHandlers DEF TypeOK
<1>1. \A t \in Sessions : Head(ready) \notin Carriers(t)
  BY DEF DeliveryHandler, Deliver, DeliverToDestroyed, WriteErrorHandler,
         Delivery, WriteError, Carriers
<1>2. /\ ready # << >> /\ reads' = reads /\ m_id' = m_id /\ peer' = peer
      /\ participants_' \subseteq participants_
  BY DEF DeliveryHandler, Deliver, DeliverToDestroyed, WriteErrorHandler, Departure,
         RoomBecomes, Without, sessionVars, roomVars, peerVars
<1>3. \E p \in Seq(Quiet) : ready' = Tail(ready) \o p
  <2>1. CASE Deliver(s)
    BY <1>0, <2>1 DEF Deliver, Return
  <2>2. CASE DeliverToDestroyed(s)
    BY <1>0, <2>2 DEF DeliverToDestroyed, Return
  <2>3. CASE WriteErrorHandler(s)
    BY <1>0, <2>3, DepartureType DEF WriteErrorHandler, Departure, Return
  <2> QED BY <2>1, <2>2, <2>3 DEF DeliveryHandler
<1> QED BY <1>1, <1>2, <1>3, QuietStep

\* disconnect_all_participants aborts a read: its error carries the chain on.
LEMMA ConsoleChains ==
    ASSUME TypeOK, ReadChains, Console
    PROVE  ReadChains'
<1>0. << >> \in Seq(Quiet)
  BY EmptySeq
<1>1. CASE (\E n \in Capacities : SetMaxParticipants(n)) \/ DisconnectAll \/ DisconnectTorn
  <2>1. /\ ready' = ready /\ reads' = reads /\ m_id' = m_id /\ peer' = peer
        /\ participants_' = participants_
    BY <1>1 DEF SetMaxParticipants, DisconnectAll, DisconnectTorn,
                loopVars, sessionVars, roomVars, peerVars
  <2> QED BY <1>0, <2>1, QuietStep
<1>2. ASSUME NEW s \in Sessions, DisconnectNext(s) PROVE ReadChains'
  <2>0. m_id' = m_id /\ peer' = peer /\ participants_' = participants_
    BY <1>2 DEF DisconnectNext, roomVars, peerVars
  <2>1. CASE ~Alive(s)
    <3>1. ready' = ready /\ reads' = reads
      BY <1>2, <2>1 DEF DisconnectNext
    <3> QED BY <1>0, <2>0, <3>1, QuietStep
  <2>2. CASE Alive(s)
    <3>1. PICK now \in SUBSET reads[s], n \in 0 .. writes[s] :
             /\ reads' = [reads EXCEPT ![s] = @ \ now]
             /\ ready' = ready \o SetToSeq({ ReadDone(s, l, "error") : l \in now })
                               \o AbortedWrites(s, n)
      BY <1>2, <2>2 DEF DisconnectNext
    <3> DEFINE R == { ReadDone(s, l, "error") : l \in now }
               W == AbortedWrites(s, n)
    <3>2. W \in Seq(Quiet) /\ W \in Seq(Handlers) /\ ready \in Seq(Handlers)
      BY CloseType DEF TypeOK
    <3>3. \A t \in Sessions : t # s => reads'[t] = reads[t]
      BY <3>1
    <3>4. CASE now = {}
      <4>1. R = {}
        BY <3>4
      <4>2. SetToSeq(R) = << >>
        <5>1. SetToSeq(R) \in [1 .. 0 -> R]
          BY <4>1, FS_EmptySet, SetToSeqType
        <5> QED BY <5>1
      <4>3. ready' = ready \o W
        BY <3>1, <3>2, <4>2, ConcatEmptySeq
      <4>4. reads' = reads
        BY <3>1, <3>4 DEF TypeOK
      <4> QED BY <2>0, <3>2, <4>3, <4>4, QuietStep
    <3>5. ASSUME NEW l \in now PROVE ReadChains'
      <4>1. now = {l} /\ reads[s] = {l} /\ l \in Loops
        BY <3>5 DEF TypeOK, ReadChains, ChainOK, OneCarrier
      <4>2. R = { ReadDone(s, l, "error") }
        BY <4>1
      <4>3. SetToSeq(R) = << ReadDone(s, l, "error") >>
        <5>1. Cardinality(R) = 1 /\ IsFiniteSet(R)
          BY <4>2, FS_Singleton
        <5>2. SetToSeq(R) \in [1 .. 1 -> R]
          BY <5>1, SetToSeqType
        <5> QED BY <4>2, <5>2
      <4> DEFINE one == << ReadDone(s, l, "error") >>
      <4>4. /\ one \in Seq(Handlers) /\ AtMostOnce(one, Carriers(s))
            /\ l = "room" => Never(one, HandshakeCarriers(s)) /\ ~Never(one, RoomCarriers(s))
            /\ \A t \in Sessions : t # s => Never(one, Carriers(t))
        BY <4>1, OneReport
      <4>5. /\ one \o W \in Seq(Handlers)
            /\ ready' = ready \o (one \o W)
        <5> HIDE DEF one, W
        <5>1. ready' = (ready \o one) \o W
          BY <3>1, <4>3 DEF one, W
        <5> QED BY <3>2, <4>4, <5>1, ConcatProperties, ConcatAssociative
      <4>6. \A t \in Sessions : Never(W, Carriers(t))
        BY <3>2, QuietNever
      <4>7. AtMostOnce(one \o W, Carriers(s))
        BY <3>2, <4>4, <4>6, ConcatOnce
      <4>8. \A t \in Sessions : t # s => Never(one \o W, Carriers(t))
        BY <3>2, <4>4, <4>6, ConcatNever
      <4>9. l = "room" => Never(one \o W, HandshakeCarriers(s))
                          /\ ~Never(one \o W, RoomCarriers(s))
        <5>1. Never(W, HandshakeCarriers(s))
          BY <4>6 DEF Never, HandshakeCarriers
        <5> QED BY <3>2, <4>4, <5>1, ConcatNever
      <4>10. reads'[s] = {} /\ (l = "room" \/ l = "handshake")
        BY <3>1, <4>1 DEF TypeOK, Loops
      <4> HIDE DEF one, W
      <4> QED BY <2>0, <3>3, <4>1, <4>5, <4>7, <4>8, <4>9, <4>10, ReportChain
    <3> QED BY <3>4, <3>5
  <2> QED BY <2>1, <2>2
<1> QED BY <1>1, <1>2 DEF Console

-----------------------------------------------------------------------------
(* The invariant, and what it gives.                                       *)

\* A server that has just started has no chains.
LEMMA InitChains == Init => ReadChains
<1> SUFFICES ASSUME Init, NEW s \in Sessions PROVE ChainOK(s)
  BY DEF ReadChains
<1>1. DOMAIN ready = {1} /\ ready[1] = Poll
  BY DEF Init
<1>2. \A M \in SUBSET Carriers(s) : Never(ready, M)
  BY <1>1 DEF Never, Carriers, Poll
<1>3. Never(ready, Carriers(s)) /\ Never(ready, HandshakeCarriers(s))
  BY <1>2 DEF HandshakeCarriers
<1>4. AtMostOnce(ready, Carriers(s))
  BY <1>1 DEF AtMostOnce
<1> QED BY <1>3, <1>4 DEF Init, ChainOK, OneCarrier, NoneYet, JoinedOnce, MemberRead

\* The invariant is inductive.
LEMMA NextChains == TypeOK /\ ReadChains /\ [Next]_vars => ReadChains'
<1> SUFFICES ASSUME TypeOK, ReadChains, [Next]_vars PROVE ReadChains'
  OBVIOUS
<1>1. CASE IoThread
  BY <1>1, PollChains, AcceptChains, HandshakeChains, JoinChains, RoomChains, DeliveryChains
  DEF IoThread, HandshakeHandler
<1>2. CASE \E s \in Sessions : Connect(s) \/ PeerCloses(s) \/ Reactor(s)
  BY <1>2, PollChains, ReactorChains
<1>3. CASE AcceptFails
  BY <1>3, PollChains
<1>4. CASE Console
  BY <1>4, ConsoleChains
<1>5. CASE UNCHANGED vars
  BY <1>5 DEF vars, loopVars, sessionVars, roomVars, peerVars, ReadChains, ChainOK,
              OneCarrier, NoneYet, JoinedOnce, MemberRead
<1> QED BY <1>1, <1>2, <1>3, <1>4, <1>5 DEF Next

\* It holds in every behaviour of the server.
LEMMA ChainsHold == Spec => [](TypeOK /\ ReadChains)
<1>1. Init => TypeOK /\ ReadChains
  BY InitType, InitChains
<1>2. TypeOK /\ ReadChains /\ [Next]_vars => (TypeOK /\ ReadChains)'
  BY NextType, NextChains
<1> QED BY <1>1, <1>2, PTL DEF Spec

\* A session never has two reads under way, in one loop or in both: start,
\* do_read_handshake, join and do_read_byte hand one chain of reads on.
THEOREM OneReadLoopHolds == Spec => []OneReadLoop
<1>1. TypeOK /\ ReadChains => OneReadLoop
  <2> SUFFICES ASSUME TypeOK, ReadChains, NEW s \in Sessions
               PROVE  /\ \A k, l \in reads[s] : k = l
                      /\ \A i, j \in QueuedFor(s, {"read"}) : i = j
                      /\ reads[s] # {} => QueuedFor(s, {"read"}) = {}
    BY DEF OneReadLoop
  <2>1. OneCarrier(s)
    BY DEF ReadChains, ChainOK
  <2>2. \A i \in QueuedFor(s, {"read"}) : i \in DOMAIN ready /\ ready[i] \in Carriers(s)
    <3>1. \A i \in DOMAIN ready : ready[i] \in Handlers
      BY LenProperties DEF TypeOK
    <3> QED BY <3>1 DEF QueuedFor, Carriers
  <2> QED BY <2>1, <2>2 DEF OneCarrier, AtMostOnce, Never
<1> QED BY <1>1, ChainsHold, PTL

\* Every member of the room is being read, so that the end of its connection is
\* noticed: no handler of do_read_byte stops the loop and leaves the member.
THEOREM MembersAreReadHolds == Spec => []MembersAreRead
<1>1. TypeOK /\ ReadChains => MembersAreRead
  <2> SUFFICES ASSUME TypeOK, ReadChains, NEW s \in participants_
               PROVE  \/ "room" \in reads[s]
                      \/ \E i \in QueuedFor(s, {"read"}) : ready[i].loop = "room"
    BY DEF MembersAreRead
  <2>1. MemberRead(s)
    BY DEF TypeOK, ReadChains, ChainOK
  <2>2. ASSUME ~Never(ready, RoomCarriers(s))
        PROVE  \E i \in QueuedFor(s, {"read"}) : ready[i].loop = "room"
    BY <2>2 DEF Never, RoomCarriers, Carriers, QueuedFor
  <2> QED BY <2>1, <2>2 DEF MemberRead
<1> QED BY <1>1, ChainsHold, PTL
=============================================================================
