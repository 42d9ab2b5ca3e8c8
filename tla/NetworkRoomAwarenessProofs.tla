--------------------- MODULE NetworkRoomAwarenessProofs ---------------------
(***************************************************************************)
(* What the members of the room know of each other in NetworkRoom.  The    *)
(* server posts every introduction and every farewell behind those before, *)
(* so what a member believes in the end about a participant is what the    *)
(* last delivery about it says, or what it knows if none is on its way.    *)
(***************************************************************************)
EXTENDS NetworkRoomProofs

\* The deliveries to t that tell it something about s, and what they tell.
About(t, s) ==
    { h \in Handlers : /\ h.type = "deliver" /\ h.session = t
                       /\ h.message.participant_id = s
                       /\ h.message.head \in { "PARTICIPANT_JOIN", "PARTICIPANT_NEW",
                                               "PARTICIPANT_LEAVE" } }
Tells(h) == IF h.message.head = "PARTICIPANT_JOIN" THEN "self"
            ELSE IF h.message.head = "PARTICIPANT_NEW" THEN h.message.descriptor
            ELSE "unknown"

\* Those that agree with a belief in V, and those that do not.
Agreeing(t, s, V) == { h \in About(t, s) : Tells(h) \in V }
Contrary(t, s, V) == { h \in About(t, s) : Tells(h) \notin V }

\* The last element of q in G or B is in G.
EndsIn(q, G, B) ==
    \E i \in DOMAIN q : q[i] \in G /\ \A j \in DOMAIN q : j > i => q[j] \notin B

\* When its deliveries have run, t believes a value of V about s.
Believes(t, s, V) == \/ told[t][s] \in V /\ Never(ready, Contrary(t, s, V))
                     \/ EndsIn(ready, Agreeing(t, s, V), Contrary(t, s, V))

NotPresent == { "unknown", "self" }
Farewells(s) == { h \in Handlers : /\ h.type = "deliver"
                                   /\ h.message.head = "PARTICIPANT_LEAVE"
                                   /\ h.message.participant_id = s }

\* A farewell is posted for a session that was in the room and is not.
FarewellOK(s) == s \in participants_ \/ m_id[s] = 0 => Never(ready, Farewells(s))

\* Who is announced has joined, and its descriptor is the one of its JOIN_ACK.
AnnouncedOK(s) == s \in announced => m_id[s] = s /\ m_descriptor[s] = "json"

\* Who has not joined is told of nobody.  What follows is about peers that get
\* what is handed over for them: a slow one may get it garbled.
NewcomerOK(t, s) ==
    m_id[t] = 0 /\ t \notin SlowPeers
    => told[t][s] \in NotPresent /\ Never(ready, Contrary(t, s, NotPresent))

\* A member will know that who is not in the room is not.
GhostOK(t, s) ==
    t \in participants_ \ SlowPeers /\ IsOpen(t) /\ s \notin participants_
    => Believes(t, s, NotPresent)

\* Two members that are announced will know each other.
Together(t, s) == s # t /\ {s, t} \subseteq participants_ \cap announced
AwareOK(t, s) == Together(t, s) /\ t \notin SlowPeers /\ IsOpen(t) => Believes(t, s, {"json"})

\* The inductive invariant.
Awareness == /\ \A s \in Sessions : FarewellOK(s) /\ AnnouncedOK(s)
             /\ \A t, s \in Sessions : NewcomerOK(t, s) /\ GhostOK(t, s) /\ AwareOK(t, s)

-----------------------------------------------------------------------------
(* Queues that end in a handler.                                           *)

\* What is posted behind says nothing to the contrary.
LEMMA EndsBefore ==
    ASSUME NEW H, NEW G, NEW B, NEW q \in Seq(H), NEW p \in Seq(H), EndsIn(q, G, B), Never(p, B)
    PROVE  EndsIn(q \o p, G, B)
<1>1. /\ Len(q) \in Nat /\ Len(p) \in Nat /\ DOMAIN q = 1 .. Len(q) /\ DOMAIN p = 1 .. Len(p)
      /\ DOMAIN (q \o p) = 1 .. Len(q) + Len(p)
      /\ \A i \in 1 .. Len(q) + Len(p) :
            (q \o p)[i] = IF i <= Len(q) THEN q[i] ELSE p[i - Len(q)]
  BY ConcatProperties, LenProperties
<1>2. PICK i \in 1 .. Len(q) : q[i] \in G /\ \A j \in 1 .. Len(q) : j > i => q[j] \notin B
  BY <1>1 DEF EndsIn
<1>3. i \in 1 .. Len(q) + Len(p) /\ (q \o p)[i] \in G
  BY <1>1, <1>2
<1>4. ASSUME NEW j \in 1 .. Len(q) + Len(p), j > i PROVE (q \o p)[j] \notin B
  <2>1. CASE j <= Len(q)
    BY <1>1, <1>2, <1>4, <2>1
  <2>2. CASE j > Len(q)
    <3>1. j - Len(q) \in 1 .. Len(p) /\ (q \o p)[j] = p[j - Len(q)]
      BY <1>1, <2>2
    <3> QED BY <1>1, <3>1 DEF Never
  <2> QED BY <1>1, <2>1, <2>2
<1> QED BY <1>1, <1>3, <1>4 DEF EndsIn

\* What is posted last decides.
LEMMA EndsBehind ==
    ASSUME NEW H, NEW G, NEW B, NEW q \in Seq(H), NEW p \in Seq(H), EndsIn(p, G, B)
    PROVE  EndsIn(q \o p, G, B)
<1>1. /\ Len(q) \in Nat /\ Len(p) \in Nat /\ DOMAIN q = 1 .. Len(q) /\ DOMAIN p = 1 .. Len(p)
      /\ DOMAIN (q \o p) = 1 .. Len(q) + Len(p)
      /\ \A i \in 1 .. Len(q) + Len(p) :
            (q \o p)[i] = IF i <= Len(q) THEN q[i] ELSE p[i - Len(q)]
  BY ConcatProperties, LenProperties
<1>2. PICK i \in 1 .. Len(p) : p[i] \in G /\ \A j \in 1 .. Len(p) : j > i => p[j] \notin B
  BY <1>1 DEF EndsIn
<1>3. i + Len(q) \in 1 .. Len(q) + Len(p) /\ (q \o p)[i + Len(q)] \in G
  BY <1>1, <1>2
<1>4. ASSUME NEW j \in 1 .. Len(q) + Len(p), j > i + Len(q) PROVE (q \o p)[j] \notin B
  <2>1. j - Len(q) \in 1 .. Len(p) /\ j - Len(q) > i /\ (q \o p)[j] = p[j - Len(q)]
    BY <1>1, <1>2, <1>4
  <2> QED BY <1>2, <2>1
<1> QED BY <1>1, <1>3, <1>4 DEF EndsIn

\* Taking the head off a queue leaves its end, unless the head was the end.
LEMMA EndsAfterHead ==
    ASSUME NEW H, NEW G, NEW B, NEW q \in Seq(H), q # << >>, EndsIn(q, G, B)
    PROVE  EndsIn(Tail(q), G, B) \/ (Head(q) \in G /\ Never(Tail(q), B))
<1>1. /\ Tail(q) \in Seq(H) /\ Len(Tail(q)) = Len(q) - 1
      /\ \A i \in 1 .. Len(q) - 1 : Tail(q)[i] = q[i + 1]
      /\ Len(q) \in Nat /\ Len(q) >= 1
  BY HeadTailProperties, EmptySeq
<1>2. /\ DOMAIN q = 1 .. Len(q) /\ DOMAIN Tail(q) = 1 .. Len(q) - 1
      /\ Head(q) = q[1]
  BY <1>1, LenProperties
<1>3. PICK i \in 1 .. Len(q) : q[i] \in G /\ \A j \in 1 .. Len(q) : j > i => q[j] \notin B
  BY <1>2 DEF EndsIn
<1>4. CASE i = 1
  <2>1. ASSUME NEW j \in 1 .. Len(q) - 1 PROVE Tail(q)[j] \notin B
    <3>1. j + 1 \in 1 .. Len(q) /\ j + 1 > i
      BY <1>1, <1>4
    <3> QED BY <1>1, <1>3, <3>1
  <2> QED BY <1>2, <1>3, <1>4, <2>1 DEF Never
<1>5. CASE i # 1
  <2>1. i - 1 \in 1 .. Len(q) - 1 /\ Tail(q)[i - 1] = q[(i - 1) + 1] /\ (i - 1) + 1 = i
    BY <1>1, <1>5
  <2>2. ASSUME NEW j \in 1 .. Len(q) - 1, j > i - 1 PROVE Tail(q)[j] \notin B
    <3>1. j + 1 \in 1 .. Len(q) /\ j + 1 > i
      BY <1>1, <2>2
    <3> QED BY <1>1, <1>3, <3>1
  <2>3. Tail(q)[i - 1] \in G
    BY <1>3, <2>1
  <2> QED BY <1>2, <2>1, <2>2, <2>3 DEF EndsIn
<1> QED BY <1>4, <1>5

\* A post that says it somewhere and the contrary nowhere.
LEMMA EndsInPost ==
    ASSUME NEW p, NEW G, NEW B, Never(p, B), ~Never(p, G)
    PROVE  EndsIn(p, G, B)
BY DEF EndsIn, Never

-----------------------------------------------------------------------------
(* One pair of sessions.                                                   *)

\* What a step does to the queue and to what t was told about s: it posts p,
\* or it runs the head and posts p.  What is lost was for nobody in the room,
\* what is garbled for a slow peer.
Ran(t, s, p) ==
    \/ ready' = ready \o p /\ told'[t][s] = told[t][s]
    \/ /\ ready # << >> /\ ready' = Tail(ready) \o p
       /\ \/ t \in SlowPeers
          \/ told'[t][s] = IF Head(ready) \in About(t, s) THEN Tells(Head(ready))
                           ELSE told[t][s]
          \/ told'[t][s] = told[t][s] /\ ~(t \in participants_' /\ sock'[t] = "open")

\* Contrary deliveries are deliveries about the participant.
LEMMA AboutFacts ==
    ASSUME NEW t \in Sessions, NEW s \in Sessions, NEW V
    PROVE  /\ Agreeing(t, s, V) \subseteq About(t, s) /\ Contrary(t, s, V) \subseteq About(t, s)
           /\ \A h \in About(t, s) : /\ h \in Agreeing(t, s, V) <=> Tells(h) \in V
                                     /\ h \in Contrary(t, s, V) <=> Tells(h) \notin V
           /\ About(t, s) \subseteq Handlers
BY DEF Agreeing, Contrary, About

\* What never was in the queue and is not posted is not in it.
LEMMA StaysAway ==
    ASSUME TypeOK, NEW p \in Seq(Handlers), NEW M, Never(ready, M), Never(p, M),
           ready' = ready \o p \/ (ready # << >> /\ ready' = Tail(ready) \o p)
    PROVE  Never(ready', M)
<1>1. ready \in Seq(Handlers)
  BY DEF TypeOK
<1>2. CASE ready' = ready \o p
  BY <1>1, <1>2, ConcatNever
<1>3. CASE ready # << >> /\ ready' = Tail(ready) \o p
  <2>1. Tail(ready) \in Seq(Handlers) /\ Never(Tail(ready), M)
    BY <1>1, <1>3, HeadTailProperties, TailFacts
  <2> QED BY <1>3, <2>1, ConcatNever
<1> QED BY <1>2, <1>3

\* A belief stays what it will be when nothing contrary is posted.
LEMMA KeepsBelief ==
    ASSUME TypeOK, NEW t \in Sessions, NEW s \in Sessions, NEW V, NEW p \in Seq(Handlers),
           Never(p, Contrary(t, s, V)), Believes(t, s, V), Ran(t, s, p),
           t \in participants_' /\ sock'[t] = "open", t \notin SlowPeers
    PROVE  Believes(t, s, V)'
<1> DEFINE G == Agreeing(t, s, V)
           B == Contrary(t, s, V)
<1>1. ready \in Seq(Handlers)
  BY DEF TypeOK
<1>2. Believes(t, s, V)' <=> \/ told'[t][s] \in V /\ Never(ready', B)
                             \/ EndsIn(ready', G, B)
  BY DEF Believes
<1>3. CASE ready' = ready \o p /\ told'[t][s] = told[t][s]
  <2>1. CASE told[t][s] \in V /\ Never(ready, B)
    BY <1>2, <1>3, <2>1, StaysAway
  <2>2. CASE EndsIn(ready, G, B)
    BY <1>1, <1>2, <1>3, <2>2, EndsBefore
  <2> QED BY <2>1, <2>2 DEF Believes
<1>4. CASE /\ ready # << >> /\ ready' = Tail(ready) \o p
           /\ told'[t][s] = IF Head(ready) \in About(t, s) THEN Tells(Head(ready))
                            ELSE told[t][s]
  <2>0. Tail(ready) \in Seq(Handlers)
    BY <1>1, <1>4, HeadTailProperties
  <2>1. CASE told[t][s] \in V /\ Never(ready, B)
    <3>1. Head(ready) \notin B
      BY <1>1, <1>4, <2>1, TailFacts
    <3>2. told'[t][s] \in V
      BY <1>4, <2>1, <3>1, AboutFacts
    <3> QED BY <1>2, <1>4, <2>1, <3>2, StaysAway
  <2>2. CASE EndsIn(ready, G, B)
    <3>1. CASE EndsIn(Tail(ready), G, B)
      BY <1>2, <1>4, <2>0, <3>1, EndsBefore
    <3>2. CASE Head(ready) \in G /\ Never(Tail(ready), B)
      <4>1. told'[t][s] \in V
        BY <1>4, <3>2, AboutFacts
      <4>2. Never(ready', B)
        BY <1>4, <2>0, <3>2, ConcatNever
      <4> QED BY <1>2, <4>1, <4>2
    <3> QED BY <1>1, <1>4, <2>2, <3>1, <3>2, EndsAfterHead
  <2> QED BY <2>1, <2>2 DEF Believes
<1> QED BY <1>3, <1>4 DEF Ran

\* A belief is what the last post says.
LEMMA LearnsLast ==
    ASSUME TypeOK, NEW t \in Sessions, NEW s \in Sessions, NEW V, NEW p \in Seq(Handlers),
           Never(p, Contrary(t, s, V)), ~Never(p, Agreeing(t, s, V)),
           ready' = ready \o p \/ (ready # << >> /\ ready' = Tail(ready) \o p)
    PROVE  Believes(t, s, V)'
<1>1. ready \in Seq(Handlers) /\ (ready # << >> => Tail(ready) \in Seq(Handlers))
  BY HeadTailProperties DEF TypeOK
<1>2. EndsIn(p, Agreeing(t, s, V), Contrary(t, s, V))
  BY EndsInPost
<1>3. EndsIn(ready', Agreeing(t, s, V), Contrary(t, s, V))
  BY <1>1, <1>2, EndsBehind
<1> QED BY <1>3 DEF Believes

\* What is posted about others, and what is not about the pair, changes nothing
\* between t and s, unless s leaves, t comes or one of them is announced.
LEMMA KeptPair ==
    ASSUME TypeOK, Awareness, NEW t \in Sessions, NEW s \in Sessions, NEW p \in Seq(Handlers),
           Ran(t, s, p), Never(p, About(t, s)),
           m_id'[t] = 0 => m_id[t] = 0,
           t \in participants_' => t \in participants_ /\ (sock'[t] = "open" => IsOpen(t)),
           t \in participants_' /\ s \in participants_ => s \in participants_',
           Together(t, s)' => Together(t, s)
    PROVE  NewcomerOK(t, s)' /\ GhostOK(t, s)' /\ AwareOK(t, s)'
<1>1. NewcomerOK(t, s) /\ GhostOK(t, s) /\ AwareOK(t, s)
  BY DEF Awareness
<1>2. \A V : Never(p, Contrary(t, s, V))
  BY AboutFacts DEF Never
<1>3. ready' = ready \o p \/ (ready # << >> /\ ready' = Tail(ready) \o p)
  BY DEF Ran
<1>4. NewcomerOK(t, s)'
  <2> SUFFICES ASSUME m_id'[t] = 0, t \notin SlowPeers
               PROVE  told'[t][s] \in NotPresent /\ Never(ready', Contrary(t, s, NotPresent))
    BY DEF NewcomerOK
  <2>1. told[t][s] \in NotPresent /\ Never(ready, Contrary(t, s, NotPresent))
    BY <1>1 DEF NewcomerOK
  <2>2. Never(ready', Contrary(t, s, NotPresent))
    BY <1>2, <1>3, <2>1, StaysAway
  <2>3. ready # << >> => Head(ready) \notin Contrary(t, s, NotPresent)
    BY <2>1, TailFacts DEF TypeOK
  <2>4. told'[t][s] \in NotPresent
    BY <2>1, <2>3, AboutFacts DEF Ran
  <2> QED BY <2>2, <2>4
<1>5. GhostOK(t, s)'
  <2> SUFFICES ASSUME t \in participants_', sock'[t] = "open", s \notin participants_',
                      t \notin SlowPeers
               PROVE  Believes(t, s, NotPresent)'
    BY DEF GhostOK, IsOpen
  <2>1. Believes(t, s, NotPresent)
    BY <1>1 DEF GhostOK
  <2> QED BY <1>2, <2>1, KeepsBelief
<1>6. AwareOK(t, s)'
  <2> SUFFICES ASSUME Together(t, s)', sock'[t] = "open", t \notin SlowPeers
               PROVE  Believes(t, s, {"json"})'
    BY DEF AwareOK, IsOpen
  <2>1. Together(t, s) /\ IsOpen(t)
    BY DEF Together
  <2>2. Believes(t, s, {"json"})
    BY <1>1, <2>1 DEF AwareOK
  <2> QED BY <1>2, <2>1, <2>2, KeepsBelief DEF Together
<1> QED BY <1>4, <1>5, <1>6

-----------------------------------------------------------------------------
(* Steps that are about nobody.                                            *)

\* Handlers that tell nobody anything about anybody.
Mute == { h \in Handlers : \A t, s \in Sessions : h \notin About(t, s) }

\* Reads, write errors and the poll, and the deliveries of the handshake, of
\* updates and of what carries the id 0.
LEMMA MuteHandlers ==
    ASSUME NEW s \in Sessions
    PROVE  /\ Poll \in Mute /\ Accepted(s) \in Mute /\ Accepted(0) \in Mute
           /\ WriteError(s) \in Mute
           /\ \A l \in Loops, f \in Frames \cup {"error"} : ReadDone(s, l, f) \in Mute
           /\ \A m \in Messages :
                 \/ m.participant_id = 0
                 \/ m.head \notin { "PARTICIPANT_JOIN", "PARTICIPANT_NEW", "PARTICIPANT_LEAVE" }
                 => Delivery(s, m) \in Mute
<1>1. Poll \in Mute /\ Accepted(s) \in Mute /\ Accepted(0) \in Mute /\ WriteError(s) \in Mute
  BY HandlerKinds DEF Mute, About, Poll, Accepted, WriteError
<1>2. \A l \in Loops, f \in Frames \cup {"error"} : ReadDone(s, l, f) \in Mute
  BY HandlerKinds DEF Mute, About, ReadDone
<1>3. ASSUME NEW m \in Messages,
             \/ m.participant_id = 0
             \/ m.head \notin { "PARTICIPANT_JOIN", "PARTICIPANT_NEW", "PARTICIPANT_LEAVE" }
      PROVE  Delivery(s, m) \in Mute
  <2>1. Delivery(s, m) \in Handlers /\ Delivery(s, m).message = m
    BY HandlerKinds DEF Delivery
  <2>2. 0 \notin Sessions
    BY DEF Sessions
  <2> QED BY <1>3, <2>1, <2>2 DEF Mute, About
<1> QED BY <1>1, <1>2, <1>3

\* A farewell is a delivery about the one who left.
LEMMA FarewellFacts ==
    ASSUME NEW s \in Sessions, NEW h \in Farewells(s)
    PROVE  h.session \in Sessions /\ h \in About(h.session, s)
BY DEF Farewells, About, Handlers

LEMMA MuteNever ==
    ASSUME NEW p \in Seq(Mute)
    PROVE  /\ p \in Seq(Handlers)
           /\ \A t, s \in Sessions : Never(p, About(t, s))
           /\ \A s \in Sessions : Never(p, Farewells(s))
<1>1. Mute \subseteq Handlers
  BY DEF Mute
<1>2. p \in Seq(Handlers)
  BY <1>1, SeqMonotonic
<1>3. \A i \in DOMAIN p : p[i] \in Mute
  BY LenProperties
<1>4. \A t, s \in Sessions : Never(p, About(t, s))
  BY <1>3 DEF Never, Mute
<1>5. \A s \in Sessions : Never(p, Farewells(s))
  BY <1>4, FarewellFacts DEF Never
<1> QED BY <1>2, <1>4, <1>5

\* A step that posts nothing about anybody, takes nobody out of the room and
\* announces nobody.
LEMMA MuteStep ==
    ASSUME TypeOK, ReadChains, Awareness, NEW p \in Seq(Mute),
           \/ ready' = ready \o p
           \/ ready # << >> /\ Head(ready) \in Mute /\ ready' = Tail(ready) \o p,
           told' = told, participants_' = participants_, announced' = announced,
           \A t \in Sessions : /\ m_id'[t] \in {m_id[t], t}
                               /\ t \in participants_ /\ sock'[t] = "open" => IsOpen(t)
                               /\ t \in announced => m_descriptor'[t] \in {m_descriptor[t], "json"}
    PROVE  Awareness'
<1>1. \A t \in Sessions : m_id'[t] = 0 => m_id[t] = 0
  BY DEF Sessions
<1>2. ASSUME NEW s \in Sessions PROVE FarewellOK(s)' /\ AnnouncedOK(s)'
  <2>1. FarewellOK(s) /\ AnnouncedOK(s)
    BY DEF Awareness
  <2>2. FarewellOK(s)'
    BY <1>1, <2>1, MuteNever, StaysAway DEF FarewellOK
  <2>3. AnnouncedOK(s)'
    BY <2>1 DEF AnnouncedOK
  <2> QED BY <2>2, <2>3
<1>3. ASSUME NEW t \in Sessions, NEW s \in Sessions
      PROVE  NewcomerOK(t, s)' /\ GhostOK(t, s)' /\ AwareOK(t, s)'
  <2>1. Ran(t, s, p)
    BY DEF Ran, Mute
  <2>2. Together(t, s)' => Together(t, s)
    BY DEF Together
  <2> QED BY <1>1, <2>1, <2>2, MuteNever, KeptPair
<1> QED BY <1>2, <1>3 DEF Awareness

\* What async_read and do_close queue tells nobody anything.
LEMMA StartedMute ==
    ASSUME NEW s \in Sessions, NEW l \in Loops, NEW open \in BOOLEAN,
           NEW started \in EarlyRead(s, l, open) \cup { StartRead(s, l, FALSE) }
    PROVE  started \in Seq(Mute)
<1>1. \A f \in Frames \cup {"error"} : << ReadDone(s, l, f) >> \in Seq(Mute)
  BY MuteHandlers
<1>2. \/ started = << >>
      \/ \E f \in Frames \cup {"error"} : started = << ReadDone(s, l, f) >>
  BY StartedReads
<1>3. << >> \in Seq(Mute)
  BY EmptySeq
<1> QED BY <1>1, <1>2, <1>3

LEMMA AbortedMute ==
    ASSUME TypeOK, NEW s \in Sessions, NEW n \in 0 .. writes[s]
    PROVE  AbortedWrites(s, n) \in Seq(Mute)
<1>1. n \in Nat
  BY DEF TypeOK
<1>2. AbortedWrites(s, n) \in [1 .. n -> Mute]
  BY MuteHandlers DEF AbortedWrites
<1> QED BY <1>1, <1>2, SeqDef

\* The reactor's turn, the acceptor, the peers and the completions.
LEMMA PollAware ==
    ASSUME TypeOK, ReadChains, Awareness
    PROVE  /\ PollEnds => Awareness'
           /\ AcceptFails => Awareness'
           /\ \A s \in Sessions : Connect(s) \/ PeerCloses(s) \/ Reactor(s) => Awareness'
<1>0. ready \in Seq(Handlers) /\ << >> \in Seq(Mute) /\ ready \o << >> = ready
  BY EmptySeq, ConcatEmptySeq DEF TypeOK
<1>1. Poll \in Mute /\ Poll \in Handlers /\ Accepted(0) \in Mute /\ Accepted(0) \in Handlers
  BY BoundsAssumption DEF Mute, About, Poll, Accepted, Handlers, Ids
<1>2. ASSUME PollEnds PROVE Awareness'
  <2>1. Tail(ready) \in Seq(Handlers) /\ ready # << >> /\ Head(ready) \in Mute
    BY <1>0, <1>1, <1>2, HeadTailProperties DEF PollEnds, Polling
  <2>2. ready' = Tail(ready) \o << Poll >> /\ << Poll >> \in Seq(Mute)
    BY <1>1, <1>2, <2>1, QueuedBehind DEF PollEnds
  <2>3. /\ told' = told /\ participants_' = participants_ /\ announced' = announced
        /\ m_id' = m_id /\ sock' = sock /\ m_descriptor' = m_descriptor
    BY <1>2 DEF PollEnds, roomVars, peerVars, historyVars
  <2> QED BY <2>1, <2>2, <2>3, MuteStep DEF IsOpen
<1>3. ASSUME AcceptFails PROVE Awareness'
  <2>1. ready' = ready \o << Accepted(0) >> /\ << Accepted(0) >> \in Seq(Mute)
    BY <1>0, <1>1, <1>3, QueuedBehind DEF AcceptFails
  <2>2. /\ told' = told /\ participants_' = participants_ /\ announced' = announced
        /\ m_id' = m_id /\ sock' = sock /\ m_descriptor' = m_descriptor
    BY <1>3 DEF AcceptFails, sessionVars, roomVars, peerVars, historyVars
  <2> QED BY <2>1, <2>2, MuteStep DEF IsOpen
<1>4. ASSUME NEW s \in Sessions, Connect(s) PROVE Awareness'
  <2>1. Accepted(s) \in Handlers /\ Accepted(s) \in Mute
    BY HandlerKinds, MuteHandlers
  <2>2. ready' = ready \o << Accepted(s) >> /\ << Accepted(s) >> \in Seq(Mute)
    BY <1>0, <1>4, <2>1, QueuedBehind DEF Connect
  <2>3. /\ told' = told /\ participants_' = participants_ /\ announced' = announced
        /\ m_id' = m_id /\ sock' = [sock EXCEPT ![s] = "open"] /\ m_descriptor' = m_descriptor
    BY <1>4 DEF Connect, roomVars, historyVars
  <2>4. s \notin participants_
    <3>1. m_id[s] = 0 /\ s # 0
      BY <1>4 DEF Connect, ReadChains, ChainOK, NoneYet, Sessions
    <3> QED BY <3>1 DEF ReadChains, ChainOK, MemberRead
  <2>5. \A t \in Sessions : t \in participants_ /\ sock'[t] = "open" => IsOpen(t)
    BY <2>3, <2>4 DEF IsOpen, TypeOK
  <2> QED BY <2>2, <2>3, <2>5, MuteStep
<1>5. ASSUME NEW s \in Sessions, PeerCloses(s) PROVE Awareness'
  <2>1. /\ ready' = ready /\ told' = told /\ participants_' = participants_
        /\ announced' = announced /\ m_id' = m_id /\ sock' = sock /\ m_descriptor' = m_descriptor
    BY <1>5 DEF PeerCloses, loopVars, sessionVars, roomVars, historyVars
  <2> QED BY <1>0, <2>1, MuteStep DEF IsOpen
<1>6. ASSUME NEW s \in Sessions, Reactor(s) PROVE Awareness'
  <2>1. /\ told' = told /\ participants_' = participants_
        /\ announced' = announced /\ m_id' = m_id /\ sock' = sock /\ m_descriptor' = m_descriptor
    BY <1>6 DEF Reactor, ReadSucceeds, ReadFails, WriteSucceeds, WriteFails, FreedWriteFails,
                ReadCompletes, roomVars, peerVars, historyVars
  <2>2. \E h \in Mute : ready' = ready \/ ready' = Append(ready, h)
    <3>1. CASE WriteSucceeds(s)
      BY <1>1, <3>1 DEF WriteSucceeds, loopVars
    <3>2. CASE WriteFails(s) \/ FreedWriteFails(s)
      BY <3>2, MuteHandlers DEF WriteFails, FreedWriteFails
    <3>3. CASE ReadSucceeds(s) \/ ReadFails(s)
      <4>1. \E l \in reads[s], f \in Frames \cup {"error"} : ReadCompletes(s, l, f)
        BY <3>3 DEF ReadSucceeds, ReadFails, Arrivals
      <4>2. PICK l \in reads[s], f \in Frames \cup {"error"} :
               ready' = Append(ready, ReadDone(s, l, f))
        BY <4>1 DEF ReadCompletes
      <4>3. l \in Loops
        BY DEF TypeOK
      <4> QED BY <4>2, <4>3, MuteHandlers
    <3> QED BY <1>6, <3>1, <3>2, <3>3 DEF Reactor
  <2>3. PICK h \in Mute : ready' = ready \/ ready' = Append(ready, h)
    BY <2>2
  <2>4. << h >> \in Seq(Mute) /\ h \in Handlers
    BY DEF Mute
  <2>5. ready' = ready \o << >> \/ ready' = ready \o << h >>
    BY <1>0, <2>3, <2>4, QueuedBehind
  <2> QED BY <1>0, <2>1, <2>4, <2>5, MuteStep DEF IsOpen
<1> QED BY <1>2, <1>3, <1>4, <1>5, <1>6

\* do_accept and start: HELLO names nobody.
LEMMA AcceptAware ==
    ASSUME TypeOK, ReadChains, Awareness, AcceptHandler
    PROVE  Awareness'
<1>1. ready # << >> /\ Head(ready) \in Mute
  <2>1. Accepted(0) \in Mute
    BY BoundsAssumption DEF Mute, About, Accepted, Handlers, Ids
  <2>2. ready # << >> /\ \E s \in Sessions \cup {0} : Head(ready) = Accepted(s)
    BY DEF AcceptHandler, AcceptError, StartThrows, StartHandshake
  <2> QED BY <2>1, <2>2, MuteHandlers
<1>2. /\ told' = told /\ participants_' = participants_ /\ announced' = announced
      /\ m_id' = m_id /\ sock' = sock /\ m_descriptor' = m_descriptor
  BY DEF AcceptHandler, AcceptError, StartThrows, StartHandshake, sessionVars,
         roomVars, peerVars, historyVars
<1>3. \E p \in Seq(Mute) : Return(p)
  <2>1. CASE AcceptError \/ \E s \in Sessions : StartThrows(s)
    <3>1. Return(<< >>)
      BY <2>1 DEF AcceptError, StartThrows
    <3> QED BY <3>1, EmptySeq
  <2>2. ASSUME NEW s \in Sessions, StartHandshake(s) PROVE \E p \in Seq(Mute) : Return(p)
    <3>1. PICK started \in EarlyRead(s, "handshake", TRUE) :
             Return(started \o << Delivery(s, Message("HANDSHAKE_HELLO", m_id[s])) >>)
      BY <2>2 DEF StartHandshake
    <3>2. started \in Seq(Mute)
      BY StartedMute DEF Loops
    <3>3. Message("HANDSHAKE_HELLO", m_id[s]) \in Messages
      BY MessageType DEF Heads, TypeOK
    <3>4. Delivery(s, Message("HANDSHAKE_HELLO", m_id[s])) \in Mute
      BY <3>3, MuteHandlers DEF Message
    <3>5. << Delivery(s, Message("HANDSHAKE_HELLO", m_id[s])) >> \in Seq(Mute)
      BY <3>4
    <3> QED BY <3>1, <3>2, <3>5, ConcatProperties
  <2> QED BY <2>1, <2>2 DEF AcceptHandler
<1> QED BY <1>1, <1>2, <1>3, MuteStep DEF Return, IsOpen

\* do_read_handshake: CREDENTIALS names nobody; the configuration is kept for a
\* session that has not joined.
LEMMA HandshakeAware ==
    ASSUME TypeOK, ReadChains, Awareness, NEW s \in Sessions,
           \/ HelloAck(s) \/ HelloAckOverreads(s)
           \/ HandshakeIgnores(s) \/ HandshakeReadError(s)
    PROVE  Awareness'
<1>1. PICK f \in Frames \cup {"error"} : Head(ready) = ReadDone(s, "handshake", f)
  BY DEF HelloAck, HelloAckOverreads, HandshakeIgnores, HandshakeReadError, HandshakeReads,
         HelloAcks, Frames
<1>2. /\ ready # << >> /\ told' = told /\ participants_' = participants_
      /\ announced' = announced /\ m_id' = m_id
      /\ sock' = sock \/ sock' = [sock EXCEPT ![s] = "closed"]
      /\ \/ m_descriptor' = m_descriptor
         \/ \E d \in {m_descriptor'[s]} \cup Descriptors :
               m_descriptor' = [m_descriptor EXCEPT ![s] = d]
  BY DEF HelloAck, HelloAckOverreads, HandshakeIgnores, HandshakeReadError, HandshakeReads,
         Close, Configured, Descriptors, roomVars, peerVars, historyVars
<1>3. Head(ready) \in Mute
  BY <1>1, MuteHandlers DEF Loops
<1>4. s \notin announced
  <2>1. m_id[s] = 0 /\ s # 0
    BY <1>1, <1>2, HeadOf, HeadCarries DEF ReadChains, Sessions
  <2> QED BY <2>1 DEF Awareness, AnnouncedOK
<1>5. \E p \in Seq(Mute) : Return(p)
  <2>1. EarlyRead(s, "handshake", IsOpen(s)) \subseteq Seq(Mute)
    BY StartedMute DEF IsOpen, Loops
  <2>2. CASE HelloAck(s)
    <3>1. Message("HANDSHAKE_CREDENTIALS", 0) \in Messages
      BY MessageType, BoundsAssumption DEF Heads, Ids
    <3>2. Delivery(s, Message("HANDSHAKE_CREDENTIALS", 0)) \in Mute
      BY <3>1, MuteHandlers DEF Message
    <3>3. << Delivery(s, Message("HANDSHAKE_CREDENTIALS", 0)) >> \in Seq(Mute)
      BY <3>2
    <3> QED BY <2>1, <2>2, <3>3, ConcatProperties DEF HelloAck
  <2>3. CASE HandshakeIgnores(s)
    BY <2>1, <2>3 DEF HandshakeIgnores
  <2>4. CASE HandshakeReadError(s)
    BY <2>4, AbortedMute DEF HandshakeReadError
  <2>5. CASE HelloAckOverreads(s)
    BY <2>5, EmptySeq DEF HelloAckOverreads
  <2> QED BY <2>2, <2>3, <2>4, <2>5
<1>6. \A t \in Sessions : /\ sock'[t] = "open" => IsOpen(t)
                          /\ t \in announced => m_descriptor'[t] = m_descriptor[t]
  BY <1>2, <1>4 DEF IsOpen, TypeOK
<1> QED BY <1>2, <1>3, <1>5, <1>6, MuteStep DEF Return

-----------------------------------------------------------------------------
(* What introductions and farewells post.                                  *)

\* for_each over participants_ visits every member.
LEMMA SetToSeqOnto ==
    ASSUME NEW S, IsFiniteSet(S)
    PROVE  \A x \in S : \E i \in 1 .. Cardinality(S) : SetToSeq(S)[i] = x
<1> DEFINE n == Cardinality(S)
<1>1. n \in Nat /\ ExistsBijection(1 .. n, S)
  BY FS_CardinalityType
<1>2. \E f \in [1 .. n -> S] : IsInjective(f)
  BY <1>1 DEF ExistsBijection, Bijection, Injection, IsInjective
<1>3. SetToSeq(S) \in Injection(1 .. n, S)
  BY <1>2 DEF SetToSeq, Injection
<1>4. Cardinality(1 .. n) = n
  BY <1>1, FS_Interval
<1>5. SetToSeq(S) \in Surjection(1 .. n, S)
  BY <1>3, <1>4, FS_Injection
<1> QED BY <1>5 DEF Surjection

\* What a delivery says, and about whom.
LEMMA DeliverySays ==
    ASSUME NEW r \in Sessions, NEW t \in Sessions, NEW s \in Sessions, NEW m \in Messages
    PROVE  /\ Delivery(r, m) \in About(t, s) <=>
                 /\ r = t /\ m.participant_id = s
                 /\ m.head \in { "PARTICIPANT_JOIN", "PARTICIPANT_NEW", "PARTICIPANT_LEAVE" }
           /\ m.head = "PARTICIPANT_JOIN" => Tells(Delivery(r, m)) = "self"
           /\ m.head = "PARTICIPANT_NEW" => Tells(Delivery(r, m)) = m.descriptor
           /\ m.head = "PARTICIPANT_LEAVE" => Tells(Delivery(r, m)) = "unknown"
           /\ Delivery(r, m) \in Farewells(s) <=>
                 m.head = "PARTICIPANT_LEAVE" /\ m.participant_id = s
<1>1. Delivery(r, m) \in Handlers
  BY HandlerKinds
<1> QED BY <1>1 DEF About, Farewells, Tells, Delivery

\* Every member of S gets the message, and nobody else.
LEMMA DeliverToAllPosts ==
    ASSUME NEW S \in SUBSET Sessions, NEW m \in Messages, NEW M
    PROVE  /\ (\A t \in S : Delivery(t, m) \notin M) => Never(DeliverToAll(S, m), M)
           /\ (\E t \in S : Delivery(t, m) \in M) => ~Never(DeliverToAll(S, m), M)
<1>1. IsFiniteSet(S) /\ SetToSeq(S) \in [1 .. Cardinality(S) -> S]
  BY SessionsFinite, SetToSeqType
<1>2. \A t \in S : \E i \in 1 .. Cardinality(S) : SetToSeq(S)[i] = t
  BY <1>1, SetToSeqOnto
<1> QED BY <1>1, <1>2 DEF DeliverToAll, Never

\* An update, or what carries the id 0, is about nobody.
LEMMA DeliverToAllMute ==
    ASSUME NEW S \in SUBSET Sessions, NEW m \in Messages,
           \/ m.participant_id = 0
           \/ m.head \notin { "PARTICIPANT_JOIN", "PARTICIPANT_NEW", "PARTICIPANT_LEAVE" }
    PROVE  DeliverToAll(S, m) \in Seq(Mute)
<1>1. Cardinality(S) \in Nat /\ SetToSeq(S) \in [1 .. Cardinality(S) -> S]
  BY SessionsFinite, SetToSeqType
<1>2. \A i \in 1 .. Cardinality(S) : Delivery(SetToSeq(S)[i], m) \in Mute
  BY <1>1, MuteHandlers
<1>3. DeliverToAll(S, m) \in [1 .. Cardinality(S) -> Mute]
  BY <1>2 DEF DeliverToAll
<1> QED BY <1>1, <1>3, SeqDef

\* The introductions: each member is told of s, s of each member, with what the
\* server knows about them, and nobody of anybody else.
LEMMA IntroductionsPost ==
    ASSUME TypeOK, ReadChains, NEW s \in participants_, NEW M
    PROVE  /\ (\A t \in participants_ \ {s} :
                  /\ Delivery(t, ParticipantNew(s, "json")) \notin M
                  /\ Delivery(s, ParticipantNew(t, m_descriptor[t])) \notin M)
              => Never(Introductions(s), M)
           /\ (\E t \in participants_ \ {s} :
                  \/ Delivery(t, ParticipantNew(s, "json")) \in M
                  \/ Delivery(s, ParticipantNew(t, m_descriptor[t])) \in M)
              => ~Never(Introductions(s), M)
<1> DEFINE S == participants_ \ {s}
           others == SetToSeq(S)
           A == DeliverToAll(S, ParticipantNew(s, "json"))
           B == [i \in DOMAIN others |->
                   Delivery(s, ParticipantNew(others[i], m_descriptor[others[i]]))]
<1>1. s \in Sessions /\ S \in SUBSET Sessions /\ Without(m_id[s]) = S
  BY FindOwn DEF TypeOK
<1>2. Introductions(s) = A \o B
  BY <1>1 DEF Introductions
<1>3. Cardinality(S) \in Nat /\ others \in [1 .. Cardinality(S) -> S]
      /\ \A t \in S : \E i \in 1 .. Cardinality(S) : others[i] = t
  BY <1>1, SessionsFinite, SetToSeqType, SetToSeqOnto
<1>4. ParticipantNew(s, "json") \in Messages
      /\ \A t \in S : ParticipantNew(t, m_descriptor[t]) \in Messages
  BY <1>1, MessageType DEF TypeOK, Descriptors
<1>5. A \in Seq(Handlers)
  BY <1>1, <1>4, DeliverToAllType
<1>6. B \in Seq(Handlers)
  <2>1. \A i \in 1 .. Cardinality(S) :
           Delivery(s, ParticipantNew(others[i], m_descriptor[others[i]])) \in Handlers
    BY <1>1, <1>3, <1>4, HandlerKinds
  <2>2. B \in [1 .. Cardinality(S) -> Handlers]
    BY <1>3, <2>1
  <2> HIDE DEF B, S
  <2> QED BY <1>3, <2>2, SeqDef
<1>7. /\ (\A t \in S : Delivery(t, ParticipantNew(s, "json")) \notin M) => Never(A, M)
      /\ (\E t \in S : Delivery(t, ParticipantNew(s, "json")) \in M) => ~Never(A, M)
  BY <1>1, <1>4, DeliverToAllPosts
<1>8. /\ (\A t \in S : Delivery(s, ParticipantNew(t, m_descriptor[t])) \notin M) => Never(B, M)
      /\ (\E t \in S : Delivery(s, ParticipantNew(t, m_descriptor[t])) \in M) => ~Never(B, M)
  BY <1>3 DEF Never
<1>9. Never(A \o B, M) <=> Never(A, M) /\ Never(B, M)
  <2> HIDE DEF A, B
  <2> QED BY <1>5, <1>6, ConcatNever
<1> HIDE DEF A, B
<1> QED BY <1>2, <1>7, <1>8, <1>9

-----------------------------------------------------------------------------
(* Departures.                                                             *)

\* erase, then PARTICIPANT_LEAVE to those who stay: leave, disconnect_participant.
LEMMA DepartureAware ==
    ASSUME TypeOK, ReadChains, Awareness, NEW x \in Sessions, NEW r \in Seq(Mute),
           ready # << >>, Head(ready) \in Mute, participants_' = Without(m_id[x]),
           ready' = Tail(ready)
                    \o (DeliverToAll(Without(m_id[x]), Message("PARTICIPANT_LEAVE", m_id[x])) \o r),
           told' = told, announced' = announced, m_id' = m_id, sock' = sock,
           m_descriptor' = m_descriptor
    PROVE  Awareness'
<1> DEFINE S == participants_ \ {x}
           leave == Message("PARTICIPANT_LEAVE", m_id[x])
           D == DeliverToAll(S, leave)
           p == D \o r
<1>1. /\ Without(m_id[x]) = S /\ S \in SUBSET Sessions /\ m_id[x] \in {0, x}
      /\ x \in participants_ => m_id[x] = x
      /\ x # 0
  BY FindOwn DEF TypeOK, ReadChains, ChainOK, JoinedOnce, MemberRead, Sessions
<1>2. leave \in Messages /\ leave.head = "PARTICIPANT_LEAVE" /\ leave.participant_id = m_id[x]
  BY MessageType DEF TypeOK, Heads, Message
<1>3. D \in Seq(Handlers) /\ r \in Seq(Handlers) /\ p \in Seq(Handlers)
  BY <1>1, <1>2, DeliverToAllType, MuteNever, ConcatProperties
<1>4. ready' = Tail(ready) \o p
  BY <1>1
<1>5. CASE m_id[x] = 0
  <2>1. D \in Seq(Mute)
    BY <1>1, <1>2, <1>5, DeliverToAllMute
  <2>2. p \in Seq(Mute)
    <3> HIDE DEF D
    <3> QED BY <2>1, ConcatProperties
  <2>3. participants_' = participants_
    BY <1>1, <1>5
  <2> HIDE DEF p
  <2> QED BY <1>4, <2>2, <2>3, MuteStep DEF IsOpen
<1>6. CASE m_id[x] = x
  <2>1. \A M : Never(p, M) <=> Never(D, M) /\ Never(r, M)
    <3> HIDE DEF D
    <3> QED BY <1>3, ConcatNever
  <2>2. ASSUME NEW t \in Sessions, NEW s \in Sessions, s # x \/ t \notin S
        PROVE  Never(p, About(t, s))
    <3>1. \A u \in S : Delivery(u, leave) \notin About(t, s)
      BY <1>1, <1>2, <1>6, <2>2, DeliverySays
    <3>2. Never(D, About(t, s))
      BY <1>1, <1>2, <3>1, DeliverToAllPosts
    <3> QED BY <2>1, <3>2, MuteNever
  <2>3. ASSUME NEW t \in S
        PROVE  Never(p, Contrary(t, x, NotPresent)) /\ ~Never(p, Agreeing(t, x, NotPresent))
    <3>0. t \in Sessions
      BY <1>1
    <3>1. \A u \in S : Delivery(u, leave) \notin Contrary(t, x, NotPresent)
      <4>1. \A u \in S : Tells(Delivery(u, leave)) = "unknown"
        BY <1>1, <1>2, DeliverySays
      <4> QED BY <4>1 DEF Contrary, NotPresent
    <3>2. Delivery(t, leave) \in Agreeing(t, x, NotPresent)
      <4>1. Delivery(t, leave) \in About(t, x) /\ Tells(Delivery(t, leave)) = "unknown"
        BY <1>2, <1>6, <3>0, DeliverySays
      <4> QED BY <4>1 DEF Agreeing, NotPresent
    <3>3. Never(D, Contrary(t, x, NotPresent)) /\ ~Never(D, Agreeing(t, x, NotPresent))
      BY <1>1, <1>2, <3>1, <3>2, DeliverToAllPosts
    <3>4. Never(r, Contrary(t, x, NotPresent))
      BY <3>0, MuteNever, AboutFacts DEF Never
    <3> QED BY <2>1, <3>3, <3>4
  <2>4. ASSUME NEW s \in Sessions PROVE FarewellOK(s)' /\ AnnouncedOK(s)'
    <3>1. FarewellOK(s) /\ AnnouncedOK(s)
      BY DEF Awareness
    <3>2. CASE s = x
      BY <1>1, <1>6, <3>1, <3>2 DEF FarewellOK, AnnouncedOK
    <3>3. CASE s # x
      <4>1. \A u \in S : Delivery(u, leave) \notin Farewells(s)
        BY <1>1, <1>2, <1>6, <3>3, DeliverySays
      <4>2. Never(D, Farewells(s))
        BY <1>1, <1>2, <4>1, DeliverToAllPosts
      <4>3. Never(p, Farewells(s))
        BY <2>1, <4>2, MuteNever
      <4>4. s \in participants_' => s \in participants_
        BY <1>1
      <4> HIDE DEF p
      <4> QED BY <1>3, <1>4, <3>1, <4>3, <4>4, StaysAway DEF FarewellOK, AnnouncedOK
    <3> QED BY <3>2, <3>3
  <2>5. ASSUME NEW t \in Sessions, NEW s \in Sessions
        PROVE  NewcomerOK(t, s)' /\ GhostOK(t, s)' /\ AwareOK(t, s)'
    <3>1. Ran(t, s, p)
      BY <1>4 DEF Ran, Mute
    <3>2. participants_' = S
      BY <1>1
    <3>3. CASE s # x \/ t \notin S
      <4>1. Never(p, About(t, s))
        BY <2>2, <3>3
      <4>2. t \in participants_' /\ s \in participants_ => s \in participants_'
        BY <3>2, <3>3
      <4>3. Together(t, s)' => Together(t, s)
        BY <3>2 DEF Together
      <4> HIDE DEF p
      <4> QED BY <1>3, <3>1, <3>2, <4>1, <4>2, <4>3, KeptPair DEF IsOpen
    <3>4. CASE s = x /\ t \in S
      <4>1. m_id'[t] # 0 /\ x \notin participants_'
        BY <3>2, <3>4 DEF ReadChains, ChainOK, MemberRead, Sessions
      <4>2. Believes(t, x, NotPresent)'
        <5> HIDE DEF p
        <5> QED BY <1>3, <1>4, <2>3, <3>4, LearnsLast
      <4> QED BY <3>4, <4>1, <4>2 DEF NewcomerOK, GhostOK, AwareOK, Together
    <3> QED BY <3>3, <3>4
  <2> QED BY <2>4, <2>5 DEF Awareness
<1> QED BY <1>1, <1>5, <1>6

-----------------------------------------------------------------------------
(* Joining and being announced.                                            *)

\* JOIN goes to the newcomer alone, which nobody has told of anybody yet.
LEMMA AdmissionAware ==
    ASSUME TypeOK, ReadChains, Awareness, NEW x \in Sessions, NEW started \in Seq(Mute),
           ready # << >>, Head(ready) \in Mute, m_id[x] = 0,
           ready' = Tail(ready) \o (started \o << Delivery(x, Message("PARTICIPANT_JOIN", x)) >>),
           participants_' = participants_ \cup {x}, m_id' = [m_id EXCEPT ![x] = x],
           told' = told, announced' = announced, sock' = sock, m_descriptor' = m_descriptor
    PROVE  Awareness'
<1> DEFINE join == Message("PARTICIPANT_JOIN", x)
           p == started \o << Delivery(x, join) >>
<1>1. join \in Messages /\ join.head = "PARTICIPANT_JOIN" /\ join.participant_id = x /\ x # 0
  BY MessageType DEF Heads, Message, Sessions, Ids
<1>2. x \notin announced /\ \A t \in Sessions : m_id'[t] = 0 => m_id[t] = 0
  BY <1>1 DEF Awareness, AnnouncedOK, TypeOK
<1>3. started \in Seq(Handlers) /\ << Delivery(x, join) >> \in Seq(Handlers)
  BY <1>1, MuteNever, HandlerKinds
<1>4. p \in Seq(Handlers) /\ ready' = Tail(ready) \o p
  BY <1>3, ConcatProperties
<1>5. ASSUME NEW M, Never(started, M), Delivery(x, join) \notin M PROVE Never(p, M)
  <2>1. Never(<< Delivery(x, join) >>, M)
    BY <1>5 DEF Never
  <2> HIDE DEF join
  <2> QED BY <1>3, <1>5, <2>1, ConcatNever
<1> HIDE DEF p
<1>6. ASSUME NEW s \in Sessions PROVE FarewellOK(s)' /\ AnnouncedOK(s)'
  <2>1. FarewellOK(s) /\ AnnouncedOK(s)
    BY DEF Awareness
  <2>2. Never(p, Farewells(s))
    BY <1>1, <1>5, MuteNever, DeliverySays
  <2>3. s \in participants_' \/ m_id'[s] = 0 => s \in participants_ \/ m_id[s] = 0
    BY <1>2
  <2>4. FarewellOK(s)'
    BY <1>4, <2>1, <2>2, <2>3, StaysAway DEF FarewellOK
  <2>5. AnnouncedOK(s)'
    BY <1>2, <2>1 DEF AnnouncedOK
  <2> QED BY <2>4, <2>5
<1>7. ASSUME NEW t \in Sessions, NEW s \in Sessions
      PROVE  NewcomerOK(t, s)' /\ GhostOK(t, s)' /\ AwareOK(t, s)'
  <2>1. Ran(t, s, p)
    BY <1>4 DEF Ran, Mute
  <2>2. ASSUME t # x \/ s # x PROVE Never(p, About(t, s))
    BY <1>1, <1>5, <2>2, MuteNever, DeliverySays
  <2>3. CASE t # x
    <3>1. Never(p, About(t, s))
      BY <2>2, <2>3
    <3>2. t \in participants_' => t \in participants_
      BY <2>3
    <3>3. Together(t, s)' => Together(t, s)
      BY <1>2, <2>3 DEF Together
    <3> QED BY <1>2, <1>4, <2>1, <3>1, <3>2, <3>3, KeptPair DEF IsOpen
  <2>4. CASE t = x /\ s = x
    <3>1. m_id'[x] # 0 /\ x \in participants_'
      BY <1>1 DEF TypeOK
    <3> QED BY <2>4, <3>1 DEF NewcomerOK, GhostOK, AwareOK, Together
  <2>5. CASE t = x /\ s # x
    <3>1. m_id'[x] # 0 /\ x \in participants_' /\ x \notin announced'
      BY <1>1, <1>2 DEF TypeOK
    <3>2. x \notin SlowPeers => Believes(x, s, NotPresent)
      BY DEF Awareness, NewcomerOK, Believes
    <3>3. Never(p, Contrary(x, s, NotPresent))
      <4>1. Never(p, About(x, s))
        BY <2>2, <2>5
      <4> QED BY <4>1, AboutFacts DEF Never
    <3>4. GhostOK(x, s)'
      BY <1>4, <2>1, <2>5, <3>1, <3>2, <3>3, KeepsBelief DEF GhostOK, IsOpen
    <3> QED BY <2>5, <3>1, <3>4 DEF NewcomerOK, AwareOK, Together
  <2> QED BY <2>3, <2>4, <2>5
<1> QED BY <1>6, <1>7 DEF Awareness

\* The introductions of a member: whoever is in the room is told of it with the
\* descriptor of its JOIN_ACK, and it of whoever is.
LEMMA IntroductionsAware ==
    ASSUME TypeOK, ReadChains, Awareness, NEW x \in participants_, NEW r \in Seq(Mute),
           ready # << >>, Head(ready) \in Mute,
           ready' = Tail(ready) \o (Introductions(x) \o r),
           m_descriptor' = [m_descriptor EXCEPT ![x] = "json"],
           announced' = announced \cup {x}, participants_' = participants_,
           m_id' = m_id, told' = told, sock' = sock
    PROVE  Awareness'
<1> DEFINE S == participants_ \ {x}
           p == Introductions(x) \o r
<1>1. /\ x \in Sessions /\ S \subseteq Sessions
      /\ \A t \in participants_ : m_id[t] = t /\ t # 0
  BY DEF TypeOK, ReadChains, ChainOK, MemberRead, Sessions
<1>2. Introductions(x) \in Seq(Handlers) /\ r \in Seq(Handlers) /\ p \in Seq(Handlers)
  BY <1>1, IntroductionsType, MuteNever, ConcatProperties
<1>3. ready' = Tail(ready) \o p /\ \A M : Never(p, M) <=> Never(Introductions(x), M) /\ Never(r, M)
  BY <1>2, ConcatNever
<1> HIDE DEF p
<1>4. ASSUME NEW t \in participants_, NEW d \in Descriptors
      PROVE  /\ ParticipantNew(t, d) \in Messages
             /\ ParticipantNew(t, d).head = "PARTICIPANT_NEW"
             /\ ParticipantNew(t, d).participant_id = t
             /\ ParticipantNew(t, d).descriptor = d
  BY <1>1, MessageType DEF TypeOK, ParticipantNew
<1>5. "json" \in Descriptors /\ \A t \in S : m_descriptor[t] \in Descriptors
  BY <1>1 DEF TypeOK, Descriptors
<1> DEFINE new(t) == Delivery(t, ParticipantNew(x, "json"))
           known(t) == Delivery(x, ParticipantNew(t, m_descriptor[t]))
<1>6. ASSUME NEW t \in Sessions, NEW s \in Sessions, NEW u \in S
      PROVE  /\ new(u) \in About(t, s) <=> t = u /\ s = x
             /\ Tells(new(u)) = "json" /\ new(u) \notin Farewells(s)
             /\ known(u) \in About(t, s) <=> t = x /\ s = u
             /\ Tells(known(u)) = m_descriptor[u] /\ known(u) \notin Farewells(s)
  <2>1. u \in Sessions /\ u \in participants_
    BY <1>1
  <2>2. /\ new(u) \in About(t, s) <=> t = u /\ s = x
        /\ Tells(new(u)) = "json" /\ new(u) \notin Farewells(s)
    BY <1>1, <1>4, <1>5, <2>1, DeliverySays
  <2>3. /\ known(u) \in About(t, s) <=> t = x /\ s = u
        /\ Tells(known(u)) = m_descriptor[u] /\ known(u) \notin Farewells(s)
    BY <1>1, <1>4, <1>5, <2>1, DeliverySays
  <2> QED BY <2>2, <2>3
<1>7. ASSUME NEW M
      PROVE  /\ (\A u \in S : new(u) \notin M /\ known(u) \notin M) => Never(Introductions(x), M)
             /\ (\E u \in S : new(u) \in M \/ known(u) \in M) => ~Never(Introductions(x), M)
  BY IntroductionsPost
<1> HIDE DEF new, known
<1>8. ASSUME NEW s \in Sessions PROVE FarewellOK(s)' /\ AnnouncedOK(s)'
  <2>1. FarewellOK(s) /\ AnnouncedOK(s)
    BY DEF Awareness
  <2>2. Never(p, Farewells(s))
    BY <1>3, <1>6, <1>7, MuteNever
  <2>3. FarewellOK(s)'
    BY <1>2, <1>3, <2>1, <2>2, StaysAway DEF FarewellOK
  <2>4. AnnouncedOK(s)'
    BY <1>1, <2>1 DEF AnnouncedOK, TypeOK
  <2> QED BY <2>3, <2>4
<1>9. ASSUME NEW t \in Sessions, NEW s \in Sessions
      PROVE  NewcomerOK(t, s)' /\ GhostOK(t, s)' /\ AwareOK(t, s)'
  <2>1. Ran(t, s, p)
    BY <1>3 DEF Ran, Mute
  <2>2. CASE ~(t \in S /\ s = x) /\ ~(t = x /\ s \in S)
    <3>1. \A u \in S : new(u) \notin About(t, s) /\ known(u) \notin About(t, s)
      BY <1>6, <2>2
    <3>2. Never(p, About(t, s))
      BY <1>3, <1>7, <3>1, MuteNever
    <3>3. Together(t, s)' => Together(t, s)
      BY <2>2 DEF Together
    <3> QED BY <1>2, <2>1, <3>2, <3>3, KeptPair DEF IsOpen
  <2>3. CASE (t \in S /\ s = x) \/ (t = x /\ s \in S)
    <3>1. t \in participants_' /\ s \in participants_' /\ m_id'[t] # 0
      BY <1>1, <2>3
    <3>2. NewcomerOK(t, s)' /\ GhostOK(t, s)'
      BY <3>1 DEF NewcomerOK, GhostOK
    <3>3. ASSUME Together(t, s)' PROVE Believes(t, s, {"json"})'
      <4>1. s # x => m_descriptor[s] = "json"
        BY <3>3 DEF Together, Awareness, AnnouncedOK
      <4>2. \A u \in S : /\ new(u) \notin Contrary(t, s, {"json"})
                         /\ known(u) \notin Contrary(t, s, {"json"})
        BY <1>6, <2>3, <4>1 DEF Contrary
      <4>3. \E u \in S : \/ new(u) \in Agreeing(t, s, {"json"})
                         \/ known(u) \in Agreeing(t, s, {"json"})
        <5>1. CASE t \in S /\ s = x
          BY <1>6, <5>1 DEF Agreeing
        <5>2. CASE t = x /\ s \in S
          BY <1>6, <4>1, <5>2 DEF Agreeing
        <5> QED BY <2>3, <5>1, <5>2
      <4>4. Never(r, Contrary(t, s, {"json"}))
        BY MuteNever, AboutFacts DEF Never
      <4>5. Never(p, Contrary(t, s, {"json"})) /\ ~Never(p, Agreeing(t, s, {"json"}))
        BY <1>3, <1>7, <4>2, <4>3, <4>4
      <4> QED BY <1>2, <1>3, <4>5, LearnsLast
    <3> QED BY <3>2, <3>3 DEF AwareOK
  <2> QED BY <2>2, <2>3
<1> QED BY <1>8, <1>9 DEF Awareness

-----------------------------------------------------------------------------
(* The steps of the server.                                                *)

\* join: it admits, is full, or throws.
LEMMA JoinAware ==
    ASSUME TypeOK, ReadChains, Awareness, NEW s \in Sessions,
           JoinFull(s) \/ JoinThrows(s) \/ JoinAdmits(s)
    PROVE  Awareness'
<1> DEFINE Starts(f) == EarlyRead(s, "room", PassesCredentials(s, f))
                        \cup { StartRead(s, "room", FALSE) }
<1>1. ASSUME NEW f \in Presented(s), NEW started \in Starts(f), CredentialsAck(s, f, started)
      PROVE  /\ ready # << >> /\ Head(ready) \in Mute /\ started \in Seq(Mute) /\ m_id[s] = 0
             /\ told' = told /\ announced' = announced /\ m_descriptor' = m_descriptor
  <2>1. PassesCredentials(s, f) \in BOOLEAN /\ "room" \in Loops /\ "handshake" \in Loops
    BY DEF PassesCredentials, Loops
  <2>2. started \in Seq(Mute)
    BY <2>1, StartedMute
  <2>3. ready # << >> /\ m_id[s] = 0
    BY <1>1, CredentialsChain
  <2>4. f \in Frames /\ Head(ready) = ReadDone(s, "handshake", f)
    BY DEF Presented, Credentials, Frames
  <2>5. Head(ready) \in Mute
    BY <2>1, <2>4, MuteHandlers
  <2> QED BY <1>1, <2>2, <2>3, <2>5 DEF CredentialsAck
<1>2. CASE JoinFull(s)
  <2> DEFINE refused == << Delivery(s, Message("PARTICIPANT_JOIN", m_id[s])) >>
  <2>0. PICK f \in Presented(s) :
           \E started \in Starts(f) :
              /\ CredentialsAck(s, f, started)
              /\ \E n \in 0 .. writes[s] :
                    Close(s, n) /\ Return(started \o AbortedWrites(s, n) \o refused)
    BY <1>2 DEF JoinFull
  <2>1. PICK started \in Starts(f), n \in 0 .. writes[s] :
           /\ CredentialsAck(s, f, started) /\ Close(s, n)
           /\ Return(started \o AbortedWrites(s, n) \o refused)
    BY <2>0
  <2>2. /\ ready # << >> /\ Head(ready) \in Mute /\ started \in Seq(Mute) /\ m_id[s] = 0
        /\ told' = told /\ announced' = announced /\ m_descriptor' = m_descriptor
    BY <1>1, <2>1
  <2>3. refused \in Seq(Mute)
    <3>1. /\ Message("PARTICIPANT_JOIN", m_id[s]) \in Messages
          /\ Message("PARTICIPANT_JOIN", m_id[s]).participant_id = 0
      BY <2>2, MessageType DEF Heads, TypeOK, Message
    <3> QED BY <3>1, MuteHandlers
  <2>4. AbortedWrites(s, n) \in Seq(Mute)
    BY AbortedMute
  <2>5. started \o AbortedWrites(s, n) \o refused \in Seq(Mute)
    <3> HIDE DEF refused
    <3> QED BY <2>2, <2>3, <2>4, ConcatProperties
  <2>6. m_id' = m_id /\ participants_' = participants_ /\ sock' = [sock EXCEPT ![s] = "closed"]
    BY <1>2, <2>1 DEF JoinFull, Close
  <2>7. \A t \in Sessions : sock'[t] = "open" => IsOpen(t)
    BY <2>6 DEF IsOpen, TypeOK
  <2>8. ready' = Tail(ready) \o (started \o AbortedWrites(s, n) \o refused)
    BY <2>1 DEF Return
  <2> HIDE DEF refused
  <2> QED BY <2>2, <2>5, <2>6, <2>7, <2>8, MuteStep
<1>3. CASE JoinThrows(s)
  <2>0. PICK f \in Presented(s) :
           \E started \in EarlyRead(s, "room", PassesCredentials(s, f)) :
              /\ CredentialsAck(s, f, started)
              /\ \E n \in 0 .. writes[s] : Close(s, n) /\ Return(AbortedWrites(s, n) \o started)
    BY <1>3 DEF JoinThrows
  <2>1. PICK started \in Starts(f), n \in 0 .. writes[s] :
           /\ CredentialsAck(s, f, started) /\ Close(s, n)
           /\ Return(AbortedWrites(s, n) \o started)
    BY <2>0
  <2>2. /\ ready # << >> /\ Head(ready) \in Mute /\ started \in Seq(Mute) /\ m_id[s] = 0
        /\ told' = told /\ announced' = announced /\ m_descriptor' = m_descriptor
    BY <1>1, <2>1
  <2>3. AbortedWrites(s, n) \o started \in Seq(Mute)
    BY <2>2, AbortedMute, ConcatProperties
  <2>4. /\ m_id' = [m_id EXCEPT ![s] = s] /\ participants_' = participants_
        /\ sock' = [sock EXCEPT ![s] = "closed"]
    BY <1>3, <2>1 DEF JoinThrows, Close
  <2>5. \A t \in Sessions : /\ sock'[t] = "open" => IsOpen(t)
                            /\ m_id'[t] \in {m_id[t], t}
    BY <2>4 DEF IsOpen, TypeOK
  <2> QED BY <2>1, <2>2, <2>3, <2>4, <2>5, MuteStep DEF Return
<1>4. CASE JoinAdmits(s)
  <2>0. PICK f \in Presented(s) :
           \E started \in EarlyRead(s, "room", PassesCredentials(s, f)) :
              /\ CredentialsAck(s, f, started)
              /\ Return(started \o << Delivery(s, Message("PARTICIPANT_JOIN", s)) >>)
    BY <1>4 DEF JoinAdmits
  <2>1. PICK started \in Starts(f) :
           /\ CredentialsAck(s, f, started)
           /\ Return(started \o << Delivery(s, Message("PARTICIPANT_JOIN", s)) >>)
    BY <2>0
  <2>2. /\ ready # << >> /\ Head(ready) \in Mute /\ started \in Seq(Mute) /\ m_id[s] = 0
        /\ told' = told /\ announced' = announced /\ m_descriptor' = m_descriptor
    BY <1>1, <2>1
  <2>3. /\ m_id' = [m_id EXCEPT ![s] = s] /\ participants_' = participants_ \cup {s}
        /\ sock' = sock
    BY <1>4 DEF JoinAdmits, RoomBecomes
  <2>4. ready' = Tail(ready) \o (started \o << Delivery(s, Message("PARTICIPANT_JOIN", s)) >>)
    BY <2>1 DEF Return
  <2> QED BY <2>2, <2>3, <2>4, AdmissionAware
<1> QED BY <1>2, <1>3, <1>4

\* do_read_byte.
LEMMA RoomAware ==
    ASSUME TypeOK, ReadChains, Awareness, NEW s \in Sessions, RoomHandler(s)
    PROVE  Awareness'
<1>0. << >> \in Seq(Mute) /\ "room" \in Loops /\ IsOpen(s) \in BOOLEAN
  BY EmptySeq DEF Loops, IsOpen
<1>1. PICK f \in Frames \cup {"error"} : Head(ready) = ReadDone(s, "room", f)
  BY DEF RoomHandler, JoinAck, JoinAckOfStranger, JoinAckOverruns, NewAck, UpdateAck,
         LeaveAck, LeaveAckOfStranger, OtherFrame, RoomReadError, RoomReads, HelloAcks, Frames
<1>2. ready # << >> /\ m_id' = m_id /\ told' = told
  BY DEF RoomHandler, JoinAck, JoinAckOfStranger, JoinAckOverruns, NewAck, UpdateAck,
         LeaveAck, LeaveAckOfStranger, OtherFrame, RoomReadError, RoomReads, peerVars, sessionVars
<1>3. Head(ready) \in Mute
  BY <1>0, <1>1, MuteHandlers
<1>4. StartRead(s, "room", FALSE) \in Seq(Mute)
  BY <1>0, StartedMute DEF EarlyRead
<1>10. ASSUME NEW posted, ReadsOn(s, posted)
       PROVE  \E started \in Seq(Mute) : ready' = Tail(ready) \o (posted \o started)
  BY <1>0, <1>10, StartedMute DEF ReadsOn, Return
<1>5. CASE JoinAck(s)
  <2>1. /\ ReadsOn(s, Introductions(s))
        /\ m_descriptor' = [m_descriptor EXCEPT ![s] = "json"]
        /\ announced' = announced \cup {s} /\ participants_' = participants_ /\ sock' = sock
    BY <1>5 DEF JoinAck, roomVars
  <2>2. s \in participants_
    BY <1>5, FindOwn DEF JoinAck
  <2>3. PICK started \in Seq(Mute) : ready' = Tail(ready) \o (Introductions(s) \o started)
    BY <1>10, <2>1
  <2> QED BY <1>2, <1>3, <2>1, <2>2, <2>3, IntroductionsAware
<1>11. CASE JoinAckOverruns(s)
  <2>1. /\ ready' = ready \o << >> /\ participants_' = participants_
        /\ announced' = announced /\ sock' = sock
        /\ m_descriptor' = [m_descriptor EXCEPT ![s] = "json"]
    BY <1>11, ConcatEmptySeq DEF JoinAckOverruns, TypeOK, roomVars, historyVars
  <2>2. \A t \in Sessions : m_descriptor'[t] \in {m_descriptor[t], "json"}
    BY <2>1 DEF TypeOK
  <2> QED BY <1>0, <1>2, <2>1, <2>2, MuteStep DEF IsOpen
<1>6. CASE JoinAckOfStranger(s)
  <2>1. /\ ready' = Tail(ready) \o << >> /\ participants_' = participants_
        /\ announced' = announced /\ sock' = sock
        /\ m_descriptor' = [m_descriptor EXCEPT ![s] = "json"]
    BY <1>6 DEF JoinAckOfStranger, Return, roomVars, historyVars
  <2>2. \A t \in Sessions : m_descriptor'[t] \in {m_descriptor[t], "json"}
    BY <2>1 DEF TypeOK
  <2> QED BY <1>0, <1>2, <1>3, <2>1, <2>2, MuteStep DEF IsOpen
<1>7. ASSUME NewAck(s) \/ UpdateAck(s) \/ LeaveAckOfStranger(s) \/ OtherFrame(s)
      PROVE  Awareness'
  <2>1. /\ participants_' = participants_ /\ announced' = announced
        /\ m_descriptor' = m_descriptor
        /\ sock' = sock \/ sock' = [sock EXCEPT ![s] = "closed"]
    BY <1>7 DEF NewAck, UpdateAck, LeaveAckOfStranger, OtherFrame, Close, roomVars,
                historyVars, sessionVars
  <2>2. \A t \in Sessions : sock'[t] = "open" => IsOpen(t)
    BY <2>1 DEF IsOpen, TypeOK
  <2>3. \E p \in Seq(Mute) : ready' = Tail(ready) \o p
    <3>1. CASE NewAck(s)
      <4>1. PICK started \in Seq(Mute) : ready' = Tail(ready) \o (<< >> \o started)
        BY <1>10, <3>1 DEF NewAck
      <4> QED BY <1>0, <4>1, ConcatProperties
    <3>2. CASE UpdateAck(s)
      <4> DEFINE update == Message("PARTICIPANT_UPDATE_ACK", m_id[s])
                 D == DeliverToAll(Without(m_id[s]), update)
      <4>1. update \in Messages /\ update.head = "PARTICIPANT_UPDATE_ACK"
        BY MessageType DEF TypeOK, Heads, Message
      <4>2. D \in Seq(Mute)
        BY <4>1, DeliverToAllMute DEF Without, TypeOK
      <4>3. PICK started \in Seq(Mute) : ready' = Tail(ready) \o (D \o started)
        BY <1>10, <3>2 DEF UpdateAck
      <4> HIDE DEF D
      <4> QED BY <4>2, <4>3, ConcatProperties
    <3>3. CASE LeaveAckOfStranger(s)
      BY <1>0, <3>3 DEF LeaveAckOfStranger, Return
    <3>4. CASE OtherFrame(s)
      <4>1. PICK n \in 0 .. writes[s] :
               Return(AbortedWrites(s, n) \o StartRead(s, "room", FALSE))
        BY <3>4 DEF OtherFrame
      <4> QED BY <1>4, <4>1, AbortedMute, ConcatProperties DEF Return
    <3> QED BY <1>7, <3>1, <3>2, <3>3, <3>4
  <2> QED BY <1>2, <1>3, <2>1, <2>2, <2>3, MuteStep
<1> DEFINE D == DeliverToAll(Without(m_id[s]), Message("PARTICIPANT_LEAVE", m_id[s]))
<1>8. CASE LeaveAck(s)
  <2>1. /\ ReadsOn(s, D) /\ participants_' = Without(m_id[s])
        /\ announced' = announced /\ m_descriptor' = m_descriptor /\ sock' = sock
    BY <1>8 DEF LeaveAck, RoomBecomes, historyVars
  <2>2. PICK started \in Seq(Mute) : ready' = Tail(ready) \o (D \o started)
    BY <1>10, <2>1
  <2> QED BY <1>2, <1>3, <2>1, <2>2, DepartureAware
<1>9. CASE RoomReadError(s)
  <2>1. /\ ready' = Tail(ready) \o D /\ participants_' = Without(m_id[s])
        /\ announced' = announced /\ m_descriptor' = m_descriptor /\ sock' = sock
    BY <1>9 DEF RoomReadError, Departure, Return, RoomBecomes, historyVars, sessionVars
  <2>2. D \in Seq(Handlers)
    BY DepartureType DEF TypeOK
  <2>3. D \o << >> = D
    <3> HIDE DEF D
    <3> QED BY <2>2, ConcatEmptySeq
  <2> QED BY <1>0, <1>2, <1>3, <2>1, <2>3, DepartureAware
<1> QED BY <1>5, <1>6, <1>7, <1>8, <1>9, <1>11 DEF RoomHandler

\* A delivery is written to the peer, which learns what it says, or is lost
\* because the connection is closed or the session is gone.
LEMMA DeliveredAware ==
    ASSUME TypeOK, ReadChains, Awareness, NEW x \in Sessions, NEW m \in Messages,
           NEW p \in Seq(Mute),
           ready # << >>, Head(ready) = Delivery(x, m), ready' = Tail(ready) \o p,
           \/ told' = [told EXCEPT ![x] = Learned(x, m)]
           \/ told' = [told EXCEPT ![x] = Garbled] /\ x \in SlowPeers
           \/ told' = told /\ ~(x \in participants_ /\ IsOpen(x)),
           participants_' = participants_, announced' = announced, m_id' = m_id,
           sock' = sock, m_descriptor' = m_descriptor
    PROVE  Awareness'
<1>1. ASSUME NEW s \in Sessions
      PROVE  Learned(x, m)[s] = IF Delivery(x, m) \in About(x, s) THEN Tells(Delivery(x, m))
                                ELSE told[x][s]
  <2>1. told[x] \in [Ids -> Knowledge] /\ s \in Ids /\ m.head \in Heads
    BY DEF TypeOK, Messages, Sessions, Ids
  <2>2. CASE m.head = "PARTICIPANT_JOIN"
    BY <2>1, <2>2, DeliverySays DEF Learned
  <2>3. CASE m.head = "PARTICIPANT_NEW"
    BY <2>1, <2>3, DeliverySays DEF Learned
  <2>4. CASE m.head = "PARTICIPANT_LEAVE"
    BY <2>1, <2>4, DeliverySays DEF Learned
  <2>5. CASE m.head \notin { "PARTICIPANT_JOIN", "PARTICIPANT_NEW", "PARTICIPANT_LEAVE" }
    BY <2>1, <2>5, DeliverySays DEF Learned
  <2> QED BY <2>2, <2>3, <2>4, <2>5
<1>2. p \in Seq(Handlers)
  BY MuteNever
<1>3. ASSUME NEW s \in Sessions PROVE FarewellOK(s)' /\ AnnouncedOK(s)'
  <2>1. FarewellOK(s) /\ AnnouncedOK(s) /\ Never(p, Farewells(s))
    BY MuteNever DEF Awareness
  <2> QED BY <1>2, <2>1, StaysAway DEF FarewellOK, AnnouncedOK
<1>4. ASSUME NEW t \in Sessions, NEW s \in Sessions
      PROVE  NewcomerOK(t, s)' /\ GhostOK(t, s)' /\ AwareOK(t, s)'
  <2>1. Ran(t, s, p)
    <3>1. CASE t = x /\ told' = [told EXCEPT ![x] = Learned(x, m)]
      <4>1. told'[t][s] = Learned(x, m)[s]
        BY <3>1 DEF TypeOK
      <4> QED BY <1>1, <3>1, <4>1 DEF Ran
    <3>2. CASE t = x /\ told' = told /\ ~(x \in participants_ /\ IsOpen(x))
      BY <3>2 DEF Ran, IsOpen
    <3>4. CASE t = x /\ x \in SlowPeers
      BY <3>4 DEF Ran
    <3>3. CASE t # x
      <4>1. told'[t] = told[t]
        BY <3>3 DEF TypeOK
      <4>2. Head(ready) \notin About(t, s)
        BY <3>3, DeliverySays
      <4> QED BY <4>1, <4>2 DEF Ran
    <3> QED BY <3>1, <3>2, <3>3, <3>4
  <2>2. Together(t, s)' => Together(t, s)
    BY DEF Together
  <2> QED BY <1>2, <2>1, <2>2, MuteNever, KeptPair DEF IsOpen
<1> QED BY <1>3, <1>4 DEF Awareness

\* deliver_byte and do_write_byte.
LEMMA DeliveryAware ==
    ASSUME TypeOK, ReadChains, Awareness, NEW s \in Sessions, DeliveryHandler(s)
    PROVE  Awareness'
<1>0. << >> \in Seq(Mute) /\ << WriteError(s) >> \in Seq(Mute) /\ WriteError(s) \in Mute
  BY EmptySeq, MuteHandlers
<1>1. CASE Deliver(s)
  <2>1. PICK m \in Messages :
           /\ Head(ready) = Delivery(s, m)
           /\ \/ told' = [told EXCEPT ![s] = Learned(s, m)]
              \/ told' = [told EXCEPT ![s] = Garbled] /\ s \in SlowPeers
              \/ told' = told /\ ~IsOpen(s)
    BY <1>1 DEF Deliver
  <2>2. /\ ready # << >> /\ participants_' = participants_ /\ announced' = announced
        /\ m_id' = m_id /\ sock' = sock /\ m_descriptor' = m_descriptor
        /\ ready' = Tail(ready) \o (IF IsOpen(s) THEN << >> ELSE << WriteError(s) >>)
    BY <1>1 DEF Deliver, Return, roomVars, historyVars
  <2> QED BY <1>0, <2>1, <2>2, DeliveredAware
<1>2. CASE DeliverToDestroyed(s)
  <2>1. PICK m \in Messages : Head(ready) = Delivery(s, m)
    BY <1>2 DEF DeliverToDestroyed
  <2>2. /\ ready # << >> /\ participants_' = participants_ /\ announced' = announced
        /\ m_id' = m_id /\ sock' = sock /\ m_descriptor' = m_descriptor /\ told' = told
        /\ ready' = Tail(ready) \o << >> /\ s \notin participants_
    BY <1>2 DEF DeliverToDestroyed, Alive, Return, sessionVars, roomVars, peerVars, historyVars
  <2> QED BY <1>0, <2>1, <2>2, DeliveredAware
<1>3. CASE WriteErrorHandler(s)
  <2> DEFINE D == DeliverToAll(Without(m_id[s]), Message("PARTICIPANT_LEAVE", m_id[s]))
  <2>1. /\ ready # << >> /\ Head(ready) \in Mute
        /\ ready' = Tail(ready) \o D /\ participants_' = Without(m_id[s])
        /\ told' = told /\ announced' = announced /\ m_id' = m_id
        /\ m_descriptor' = m_descriptor /\ sock' = sock
    BY <1>0, <1>3 DEF WriteErrorHandler, Departure, Return, RoomBecomes, peerVars,
                      historyVars, sessionVars
  <2>2. D \in Seq(Handlers)
    BY DepartureType DEF TypeOK
  <2>3. D \o << >> = D
    <3> HIDE DEF D
    <3> QED BY <2>2, ConcatEmptySeq
  <2> QED BY <1>0, <2>1, <2>3, DepartureAware
<1> QED BY <1>1, <1>2, <1>3 DEF DeliveryHandler

\* The console tells nobody anything; it closes connections.
LEMMA ConsoleAware ==
    ASSUME TypeOK, ReadChains, Awareness, Console
    PROVE  Awareness'
<1>1. /\ told' = told /\ participants_' = participants_ /\ announced' = announced
      /\ m_id' = m_id /\ m_descriptor' = m_descriptor
  BY DEF Console, SetMaxParticipants, DisconnectAll, DisconnectNext, DisconnectTorn,
         loopVars, sessionVars, roomVars, peerVars, historyVars
<1>2. \A t \in Sessions : sock'[t] = "open" => IsOpen(t)
  <2>1. sock' = sock \/ \E s \in Sessions : sock' = [sock EXCEPT ![s] = "closed"]
    BY DEF Console, SetMaxParticipants, DisconnectAll, DisconnectNext, DisconnectTorn,
           Close, sessionVars
  <2> QED BY <2>1 DEF IsOpen, TypeOK
<1>3. \E p \in Seq(Mute) : ready' = ready \o p
  <2>0. << >> \in Seq(Mute) /\ ready \o << >> = ready
    BY EmptySeq, ConcatEmptySeq DEF TypeOK
  <2>1. CASE ready' = ready
    BY <2>0, <2>1
  <2>2. ASSUME NEW s \in Sessions, DisconnectNext(s), Alive(s)
        PROVE  \E p \in Seq(Mute) : ready' = ready \o p
    <3>1. PICK now \in SUBSET reads[s], n \in 0 .. writes[s] :
             ready' = ready \o SetToSeq({ ReadDone(s, l, "error") : l \in now })
                            \o AbortedWrites(s, n)
      BY <2>2 DEF DisconnectNext
    <3> DEFINE R == { ReadDone(s, l, "error") : l \in now }
               Q == SetToSeq(R)
               W == AbortedWrites(s, n)
    <3>2. W \in Seq(Mute) /\ W \in Seq(Handlers) /\ ready \in Seq(Handlers)
      BY AbortedMute, CloseType DEF TypeOK
    <3>3. R \subseteq Mute
      BY MuteHandlers DEF TypeOK
    <3>4. IsFiniteSet(R)
      <4>1. CASE now = {}
        BY <4>1, FS_EmptySet
      <4>2. ASSUME NEW l \in now PROVE IsFiniteSet(R)
        <5>1. R = { ReadDone(s, l, "error") }
          BY <4>2 DEF TypeOK, ReadChains, ChainOK, OneCarrier
        <5> QED BY <5>1, FS_Singleton
      <4> QED BY <4>1, <4>2
    <3>5. Q \in Seq(Mute)
      <4>1. Q \in Seq(R)
        BY <3>4, SetToSeqType
      <4> QED BY <3>3, <4>1, SeqMonotonic
    <3> HIDE DEF Q, W
    <3>6. Q \in Seq(Handlers)
      BY <3>5, MuteNever
    <3>7. ready' = (ready \o Q) \o W
      BY <3>1 DEF Q, W
    <3>8. ready' = ready \o (Q \o W)
      BY <3>2, <3>6, <3>7, ConcatAssociative
    <3> QED BY <3>2, <3>5, <3>8, ConcatProperties
  <2> QED BY <2>1, <2>2
      DEF Console, SetMaxParticipants, DisconnectAll, DisconnectNext, DisconnectTorn, loopVars
<1> QED BY <1>1, <1>2, <1>3, MuteStep

-----------------------------------------------------------------------------
(* The invariant, and what it gives.                                       *)

\* A server that has just started has told nobody anything.
LEMMA InitAware == Init => Awareness
<1> SUFFICES ASSUME Init PROVE Awareness
  OBVIOUS
<1>1. DOMAIN ready = {1} /\ ready[1] = Poll
  BY DEF Init
<1>2. \A M : Poll \notin M => Never(ready, M)
  BY <1>1 DEF Never
<1>3. ASSUME NEW s \in Sessions PROVE FarewellOK(s) /\ AnnouncedOK(s)
  <2>1. Poll \notin Farewells(s)
    BY DEF Farewells, Poll
  <2> QED BY <1>2, <2>1 DEF Init, FarewellOK, AnnouncedOK
<1>4. ASSUME NEW t \in Sessions, NEW s \in Sessions
      PROVE  NewcomerOK(t, s) /\ GhostOK(t, s) /\ AwareOK(t, s)
  <2>1. Poll \notin Contrary(t, s, NotPresent)
    BY DEF Contrary, About, Poll
  <2>2. told[t][s] = "unknown"
    BY DEF Init, Sessions, Ids
  <2> QED BY <1>2, <2>1, <2>2 DEF Init, NewcomerOK, GhostOK, AwareOK, Together, NotPresent
<1> QED BY <1>3, <1>4 DEF Awareness

\* The invariant is inductive, with the read loops'.
LEMMA NextAware == TypeOK /\ ReadChains /\ Awareness /\ [Next]_vars => Awareness'
<1> SUFFICES ASSUME TypeOK, ReadChains, Awareness, [Next]_vars PROVE Awareness'
  OBVIOUS
<1>1. CASE IoThread
  BY <1>1, PollAware, AcceptAware, HandshakeAware, JoinAware, RoomAware, DeliveryAware
  DEF IoThread, HandshakeHandler
<1>2. CASE \E s \in Sessions : Connect(s) \/ PeerCloses(s) \/ Reactor(s)
  BY <1>2, PollAware
<1>3. CASE AcceptFails
  BY <1>3, PollAware
<1>4. CASE Console
  BY <1>4, ConsoleAware
<1>5. CASE UNCHANGED vars
  <2>1. /\ ready' = ready \o << >> /\ << >> \in Seq(Mute)
    BY <1>5, EmptySeq, ConcatEmptySeq DEF TypeOK, vars, loopVars
  <2>2. /\ told' = told /\ participants_' = participants_ /\ announced' = announced
        /\ m_id' = m_id /\ m_descriptor' = m_descriptor /\ sock' = sock
    BY <1>5 DEF vars, sessionVars, roomVars, peerVars, historyVars
  <2> QED BY <2>1, <2>2, MuteStep DEF IsOpen
<1> QED BY <1>1, <1>2, <1>3, <1>4, <1>5 DEF Next

\* It holds in every behaviour of the server.
LEMMA AwarenessHolds == Spec => [](TypeOK /\ ReadChains /\ Awareness)
<1>1. Init => TypeOK /\ ReadChains /\ Awareness
  BY InitType, InitChains, InitAware
<1>2. TypeOK /\ ReadChains /\ Awareness /\ [Next]_vars => (TypeOK /\ ReadChains /\ Awareness)'
  BY NextType, NextChains, NextAware
<1> QED BY <1>1, <1>2, PTL DEF Spec

\* With nothing on its way to t, what t will believe is what it was told.
LEMMA BelievesNow ==
    ASSUME TypeOK, NEW t \in Sessions, NEW s \in Sessions, NEW V,
           QueuedFor(t, {"deliver"}) = {}, Believes(t, s, V)
    PROVE  told[t][s] \in V
<1>1. \A i \in DOMAIN ready : ready[i] \notin Agreeing(t, s, V)
  BY DEF QueuedFor, Agreeing, About
<1> QED BY <1>1 DEF Believes, EndsIn

\* A PARTICIPANT_LEAVE on its way names nobody who is in the room: leave erases
\* before it tells, and no id joins twice.
THEOREM FarewellsAreFinalHolds == Spec => []FarewellsAreFinal
<1>1. TypeOK /\ ReadChains /\ Awareness => FarewellsAreFinal
  <2> SUFFICES ASSUME TypeOK, ReadChains, Awareness, NEW i \in DOMAIN ready,
                      ready[i].type = "deliver",
                      ready[i].message.head = "PARTICIPANT_LEAVE",
                      NEW s \in Find(ready[i].message.participant_id)
               PROVE  FALSE
    BY DEF FarewellsAreFinal
  <2>1. ready[i] \in Handlers
    BY LenProperties DEF TypeOK
  <2>2. s \in participants_ /\ s \in Sessions /\ m_id[s] = ready[i].message.participant_id
    BY DEF Find, TypeOK
  <2>3. m_id[s] = s
    BY <2>2 DEF ReadChains, ChainOK, MemberRead
  <2>4. ready[i] \in Farewells(s)
    BY <2>1, <2>2, <2>3 DEF Farewells
  <2>5. Never(ready, Farewells(s))
    BY <2>2 DEF Awareness, FarewellOK
  <2> QED BY <2>4, <2>5 DEF Never
<1> QED BY <1>1, AwarenessHolds, PTL

\* A member that has been delivered everything believes in nobody who has left:
\* the farewell is posted behind every introduction of the one who left.
THEOREM NoGhostsHolds == Spec => []NoGhosts
<1>1. TypeOK /\ ReadChains /\ Awareness => NoGhosts
  <2> SUFFICES ASSUME TypeOK, Awareness, NEW t \in participants_ \ SlowPeers, IsOpen(t),
                      QueuedFor(t, {"deliver"}) = {},
                      NEW s \in Sessions, told[t][s] \notin {"unknown", "self"}
               PROVE  s \in participants_
    BY DEF NoGhosts
  <2>1. t \in Sessions /\ GhostOK(t, s)
    BY DEF Awareness, TypeOK
  <2> QED BY <2>1, BelievesNow DEF GhostOK, NotPresent
<1> QED BY <1>1, AwarenessHolds, PTL

\* Two announced members know each other by the descriptor of their JOIN_ACK,
\* whichever of them was announced first.
THEOREM MutualAwarenessHolds == Spec => []MutualAwareness
<1>1. TypeOK /\ ReadChains /\ Awareness => MutualAwareness
  <2> SUFFICES ASSUME TypeOK, Awareness, NEW s \in participants_ \cap announced,
                      NEW t \in participants_ \cap announced,
                      s # t, t \notin SlowPeers, IsOpen(t), QueuedFor(t, {"deliver"}) = {}
               PROVE  told[t][s] = "json"
    BY DEF MutualAwareness
  <2>1. t \in Sessions /\ s \in Sessions /\ Together(t, s)
    BY DEF TypeOK, Together
  <2>2. Believes(t, s, {"json"})
    BY <2>1 DEF Awareness, AwareOK
  <2> QED BY <2>1, <2>2, BelievesNow
<1> QED BY <1>1, AwarenessHolds, PTL
=============================================================================
