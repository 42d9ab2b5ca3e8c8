------------------------- MODULE SessionWriteProofs -------------------------
(***************************************************************************)
(* Theorems about SessionWrite, for any number of messages, any number of  *)
(* pieces, whatever the kernel takes and whatever window it offers.        *)
(***************************************************************************)
EXTENDS SessionWrite, SequenceTheorems, TLAPS

-----------------------------------------------------------------------------
(* The inductive invariant.                                                *)

Deliveries == [type : {"deliver"}, message : Numbers]
Begun(m) == written[m] > 0

\* do_write_byte pops what was pushed: between handlers the deque is empty.
DequeEmpty == deque_write_buffer_ = << >>

\* A write whose next attempt is queued has sent something.
StepsBegun == \A i \in DOMAIN ready : ready[i].type = "step" => Begun(ready[i].message)

\* Who has begun is accepted.
BegunAccepted == \A m \in Numbers : Begun(m) => m <= accepted

\* Who waits to begin is accepted, and comes behind who has begun.
Waits(m) == /\ m <= accepted
            /\ \A k \in Numbers : Begun(k) => k < m
OpsWait       == \A i \in DOMAIN ops : Begun(ops[i]) \/ Waits(ops[i])
DeliveriesWait == \A i \in DOMAIN ready : ready[i] \in Deliveries => Waits(ready[i].message)

\* Those that wait stand in order, the reactor's before the posted ones.
OpsInOrder == \A i, j \in DOMAIN ops :
                 i < j /\ ~Begun(ops[i]) /\ ~Begun(ops[j]) => ops[i] < ops[j]
DeliveriesInOrder == \A i, j \in DOMAIN ready :
                        i < j /\ ready[i] \in Deliveries /\ ready[j] \in Deliveries
                        => ready[i].message < ready[j].message
OpsBeforeDeliveries == \A i \in DOMAIN ops, j \in DOMAIN ready :
                          ~Begun(ops[i]) /\ ready[j] \in Deliveries
                          => ops[i] < ready[j].message

\* What is on the wire has begun.
WireBegun == \A i \in DOMAIN wire : Begun(wire[i][1])

\* The first k messages were sent whole, each in the call that began it.
AtOnce(k) == \A m \in 1 .. k : own[m] = Parts

\* If nothing else has begun, nothing else is on the wire.
Tight == \A k \in 0 .. MaxMessages :
            AtOnce(k) /\ (\A m \in Numbers : m > k => ~Begun(m)) => Len(wire) = k * Parts

WireInv == WireBegun /\ OwnBytesInOrder /\ Tight /\ StreamUntilCut

Order == /\ DequeEmpty /\ StepsBegun /\ BegunAccepted
         /\ OpsWait /\ DeliveriesWait
         /\ OpsInOrder /\ DeliveriesInOrder /\ OpsBeforeDeliveries
         /\ WireInv

-----------------------------------------------------------------------------
(* Type correctness.                                                       *)

TakeTypes == /\ wire \in Seq(Numbers \X (1 .. Parts)) /\ taken \in 0 .. Len(wire)
             /\ written \in [Numbers -> 0 .. Parts] /\ speculative \in BOOLEAN
             /\ own \in [Numbers -> 0 .. Parts] /\ \A m \in Numbers : own[m] <= written[m]
QueueTypes == /\ ready \in Seq(Handlers) /\ ops \in Seq(Numbers)
              /\ deque_write_buffer_ \in Seq(Numbers)
PlainTypes == /\ accepted \in 0 .. MaxMessages /\ member \in BOOLEAN
              /\ conn \in { "open", "broken", "closed" }

\* The type invariant is its three parts.
LEMMA TypeParts == TypeOK <=> PlainTypes /\ QueueTypes /\ TakeTypes
  BY DEF TypeOK, PlainTypes, QueueTypes, TakeTypes

LEMMA NextTypeParts == TypeOK' <=> PlainTypes' /\ QueueTypes' /\ TakeTypes'
  BY DEF TypeOK, PlainTypes, QueueTypes, TakeTypes

\* What Head, Tail and Append make of a queue.
LEMMA QueueFacts ==
  ASSUME NEW S, NEW q \in Seq(S)
  PROVE  /\ Len(q) \in Nat /\ DOMAIN q = 1 .. Len(q)
         /\ \A i \in 1 .. Len(q) : q[i] \in S
         /\ q # << >> => /\ Head(q) = q[1] /\ q[1] \in S /\ Len(q) >= 1
                         /\ Tail(q) \in Seq(S) /\ Len(Tail(q)) = Len(q) - 1
                         /\ \A i \in 1 .. Len(q) - 1 : Tail(q)[i] = q[i + 1]
         /\ \A x \in S : /\ Append(q, x) \in Seq(S) /\ Len(Append(q, x)) = Len(q) + 1
                         /\ \A i \in 1 .. Len(q) : Append(q, x)[i] = q[i]
                         /\ Append(q, x)[Len(q) + 1] = x
<1>1. Len(q) \in Nat /\ DOMAIN q = 1 .. Len(q) /\ \A i \in 1 .. Len(q) : q[i] \in S
  BY LenProperties, ElementOfSeq
<1>2. q # << >> => /\ Head(q) = q[1] /\ Len(q) >= 1
                   /\ Tail(q) \in Seq(S) /\ Len(Tail(q)) = Len(q) - 1
                   /\ \A i \in 1 .. Len(q) - 1 : Tail(q)[i] = q[i + 1]
  BY HeadTailProperties, EmptySeq, <1>1
<1>3. \A x \in S : /\ Append(q, x) \in Seq(S) /\ Len(Append(q, x)) = Len(q) + 1
                   /\ \A i \in 1 .. Len(q) : Append(q, x)[i] = q[i]
                   /\ Append(q, x)[Len(q) + 1] = x
  BY AppendProperties
<1> QED  BY <1>1, <1>2, <1>3

\* What a handler's return leaves in the queue.
LEMMA Returned ==
  ASSUME NEW p \in Seq(Handlers), ready \in Seq(Handlers), ready # << >>, Return(p)
  PROVE  /\ ready' \in Seq(Handlers) /\ Len(ready') = Len(ready) - 1 + Len(p)
         /\ \A i \in 1 .. Len(ready) - 1 : ready'[i] = ready[i + 1]
         /\ \A i \in 1 .. Len(p) : ready'[Len(ready) - 1 + i] = p[i]
<1> DEFINE T == Tail(ready)
<1>1. /\ T \in Seq(Handlers) /\ Len(T) = Len(ready) - 1 /\ Len(ready) \in Nat
      /\ \A i \in 1 .. Len(ready) - 1 : T[i] = ready[i + 1]
      /\ Len(p) \in Nat /\ Len(ready) >= 1
  BY QueueFacts
<1>2. ready' = T \o p
  BY DEF Return
<1> HIDE DEF T
<1>3. /\ ready' \in Seq(Handlers) /\ Len(ready') = Len(T) + Len(p)
      /\ \A i \in 1 .. Len(T) + Len(p) :
            ready'[i] = IF i <= Len(T) THEN T[i] ELSE p[i - Len(T)]
  BY <1>1, <1>2, ConcatProperties
<1>4. ASSUME NEW i \in 1 .. Len(ready) - 1 PROVE ready'[i] = ready[i + 1]
  <2>1. i \in 1 .. Len(T) + Len(p) /\ i <= Len(T) /\ T[i] = ready[i + 1]
    BY <1>1
  <2> QED  BY <1>3, <2>1
<1>5. ASSUME NEW i \in 1 .. Len(p) PROVE ready'[Len(ready) - 1 + i] = p[i]
  <2>1. /\ Len(T) + i \in 1 .. Len(T) + Len(p) /\ ~(Len(T) + i <= Len(T))
        /\ (Len(T) + i) - Len(T) = i
    BY <1>1
  <2> QED  BY <1>1, <1>3, <2>1
<1> QED  BY <1>1, <1>3, <1>4, <1>5

\* The two ways a handler returns here: it has posted nothing, or one handler.
LEMMA ReturnedNone ==
  ASSUME ready \in Seq(Handlers), ready # << >>, Return(<< >>)
  PROVE  /\ ready' \in Seq(Handlers) /\ Len(ready') = Len(ready) - 1
         /\ \A i \in 1 .. Len(ready) - 1 : ready'[i] = ready[i + 1]
<1> DEFINE p == << >>
<1>1. p \in Seq(Handlers) /\ Len(p) = 0 /\ Len(ready) \in Nat
  BY EmptySeq, LenProperties
<1>2. Return(p)
  OBVIOUS
<1> HIDE DEF p
<1>3. /\ ready' \in Seq(Handlers) /\ Len(ready') = Len(ready) - 1 + Len(p)
      /\ \A i \in 1 .. Len(ready) - 1 : ready'[i] = ready[i + 1]
  BY <1>1, <1>2, Returned
<1> QED  BY <1>1, <1>3

LEMMA ReturnedOne ==
  ASSUME NEW h \in Handlers, ready \in Seq(Handlers), ready # << >>, Return(<< h >>)
  PROVE  /\ ready' \in Seq(Handlers) /\ Len(ready') = Len(ready)
         /\ \A i \in 1 .. Len(ready) - 1 : ready'[i] = ready[i + 1]
         /\ ready'[Len(ready)] = h
<1> DEFINE p == << h >>
<1>1. p \in Seq(Handlers) /\ Len(p) = 1 /\ p[1] = h /\ Len(ready) \in Nat
  BY LenProperties
<1>2. Return(p)
  OBVIOUS
<1> HIDE DEF p
<1>3. /\ ready' \in Seq(Handlers) /\ Len(ready') = Len(ready) - 1 + Len(p)
      /\ \A i \in 1 .. Len(ready) - 1 : ready'[i] = ready[i + 1]
      /\ \A i \in 1 .. Len(p) : ready'[Len(ready) - 1 + i] = p[i]
  BY <1>1, <1>2, Returned
<1>4. ready'[Len(ready) - 1 + 1] = p[1]
  BY <1>1, <1>3
<1> QED  BY <1>1, <1>3, <1>4

\* Attempts send a part at least, and no more than is left.
LEMMA SendableRange ==
  ASSUME TypeOK, NEW m \in Numbers, NEW n \in Sendable(m)
  PROVE  n \in 1 .. Parts /\ n <= Parts - written[m]
<1>1. Parts \in Nat \ {0} /\ Takes \subseteq 1 .. Parts
  BY WriteAssumption
<1>2. n <= Parts - written[m] /\ n \in Takes
  BY DEF Sendable
<1> QED  BY <1>1, <1>2

\* What an attempt adds to the wire.
LEMMA Taken ==
  ASSUME TypeOK, NEW alive, NEW m \in Numbers, NEW n \in Sendable(m), Take(m, n, alive),
         taken' = taken
  PROVE  /\ TakeTypes'
         /\ n \in 1 .. Parts /\ written[m] \in 0 .. Parts
         /\ written' = [written EXCEPT ![m] = @ + n]
         /\ own' = IF alive THEN [own EXCEPT ![m] = @ + n] ELSE own
         /\ Len(wire) \in Nat /\ Len(wire') = Len(wire) + n
         /\ \A i \in 1 .. Len(wire) : wire'[i] = wire[i]
         /\ \A i \in 1 .. n : wire'[Len(wire) + i] = << m, written[m] + i >>
<1> DEFINE P == Numbers \X (1 .. Parts)
           piece == [i \in 1 .. n |-> << m, written[m] + i >>]
<1>1. /\ wire \in Seq(P) /\ taken \in 0 .. Len(wire) /\ Len(wire) \in Nat
      /\ written \in [Numbers -> 0 .. Parts] /\ written[m] \in 0 .. Parts
  BY LenProperties DEF TypeOK
<1>2. n \in 1 .. Parts /\ n <= Parts - written[m] /\ Parts \in Nat
  BY SendableRange, WriteAssumption
<1>3. /\ wire' = wire \o piece
      /\ written' = [written EXCEPT ![m] = @ + n]
      /\ own' = IF alive THEN [own EXCEPT ![m] = @ + n] ELSE own
      /\ speculative' = (n = Parts - written[m])
  BY DEF Take
<1>4. piece \in Seq(P) /\ Len(piece) = n
  <2>1. \A i \in 1 .. n : written[m] + i \in 1 .. Parts
    BY <1>1, <1>2
  <2>2. piece \in [1 .. n -> P]
    BY <2>1
  <2>3. n \in Nat
    BY <1>2
  <2>4. piece \in Seq(P)
    BY <2>2, <2>3, SeqDef
  <2>5. DOMAIN piece = 1 .. n
    OBVIOUS
  <2> HIDE DEF piece, P
  <2>6. Len(piece) \in Nat /\ DOMAIN piece = 1 .. Len(piece)
    BY <2>4, LenProperties
  <2> QED  BY <2>3, <2>4, <2>5, <2>6
<1>5. \A i \in 1 .. n : piece[i] = << m, written[m] + i >>
  OBVIOUS
<1> HIDE DEF piece, P
<1>6. /\ wire' \in Seq(P) /\ Len(wire') = Len(wire) + n
      /\ \A i \in 1 .. Len(wire) + n :
            wire'[i] = IF i <= Len(wire) THEN wire[i] ELSE piece[i - Len(wire)]
  BY <1>1, <1>3, <1>4, ConcatProperties
<1>7. \A i \in 1 .. Len(wire) : wire'[i] = wire[i]
  BY <1>1, <1>2, <1>6
<1>8. ASSUME NEW i \in 1 .. n PROVE wire'[Len(wire) + i] = << m, written[m] + i >>
  <2>1. /\ Len(wire) + i \in 1 .. Len(wire) + n /\ ~(Len(wire) + i <= Len(wire))
        /\ (Len(wire) + i) - Len(wire) = i
    BY <1>1, <1>2
  <2> QED  BY <1>5, <1>6, <2>1
<1>9. TakeTypes'
  <2>1. written' \in [Numbers -> 0 .. Parts]
    BY <1>1, <1>2, <1>3
  <2>2. taken' \in 0 .. Len(wire')
    BY <1>1, <1>2, <1>6
  <2>3. speculative' \in BOOLEAN
    BY <1>3
  <2>4. own \in [Numbers -> 0 .. Parts] /\ \A k \in Numbers : own[k] <= written[k]
    BY DEF TypeOK
  <2>5. own' \in [Numbers -> 0 .. Parts] /\ \A k \in Numbers : own'[k] <= written'[k]
    <3>1. CASE alive
      <4>1. own' = [own EXCEPT ![m] = @ + n]
        BY <1>3, <3>1
      <4>2. own[m] + n \in 0 .. Parts
        BY <1>1, <1>2, <2>4
      <4> QED  BY <1>1, <1>2, <1>3, <2>4, <4>1, <4>2
    <3>2. CASE ~alive
      <4>1. own' = own
        BY <1>3, <3>2
      <4>2. ASSUME NEW k \in Numbers PROVE own[k] <= written'[k]
        <5>1. own[k] \in Nat /\ written[k] \in Nat /\ own[k] <= written[k]
          BY <1>1, <2>4
        <5>2. written'[k] = IF k = m THEN written[k] + n ELSE written[k]
          BY <1>1, <1>3
        <5>3. n \in Nat
          BY <1>2
        <5> QED  BY <5>1, <5>2, <5>3
      <4> QED  BY <2>4, <4>1, <4>2
    <3> QED  BY <3>1, <3>2
  <2> QED  BY <1>6, <2>1, <2>2, <2>3, <2>5 DEF TakeTypes, P
<1> QED  BY <1>1, <1>2, <1>3, <1>6, <1>7, <1>8, <1>9

\* The three outcomes of async_write_some.
Refused(m) == /\ Return(<< Handler("error", m) >>)
              /\ UNCHANGED << written, own, ops, speculative, wire >>
Attempted(m, alive) ==
    /\ ops = << >> /\ \E n \in Sendable(m) : Take(m, n, alive)
    /\ Return(<< Handler("step", m) >>) /\ UNCHANGED ops
Queued(m) == /\ ops' = Append(ops, m) /\ Return(<< >>)
             /\ UNCHANGED << written, own, speculative, wire >>

LEMMA AsyncOutcomes ==
  ASSUME NEW m \in Numbers, NEW alive, AsyncWriteSome(m, alive)
  PROVE  Refused(m) \/ Attempted(m, alive) \/ Queued(m)
BY DEF AsyncWriteSome, Refused, Attempted, Queued

LEMMA HandlerTypes == \A m \in Numbers : /\ Handler("error", m) \in Handlers
                                         /\ Handler("step", m) \in Handlers
                                         /\ Handler("deliver", m) \in Handlers
BY DEF Handler, Handlers

\* An attempt to write keeps the types of what it touches.
LEMMA AsyncTypes ==
  ASSUME TypeOK, NEW m \in Numbers, NEW alive, ready # << >>, AsyncWriteSome(m, alive),
         taken' = taken
  PROVE  ready' \in Seq(Handlers) /\ ops' \in Seq(Numbers) /\ TakeTypes'
<1>1. ready \in Seq(Handlers) /\ ops \in Seq(Numbers) /\ TakeTypes
  BY TypeParts DEF QueueTypes
<1>2. CASE Refused(m)
  <2>1. Return(<< Handler("error", m) >>) /\ Handler("error", m) \in Handlers
    BY <1>2, HandlerTypes DEF Refused
  <2>2. ready' \in Seq(Handlers)
    BY <1>1, <2>1, ReturnedOne
  <2>3. UNCHANGED << written, own, ops, speculative, wire >>
    BY <1>2 DEF Refused
  <2> QED  BY <1>1, <2>2, <2>3 DEF TakeTypes
<1>3. CASE Attempted(m, alive)
  <2>1. Return(<< Handler("step", m) >>) /\ Handler("step", m) \in Handlers
    BY <1>3, HandlerTypes DEF Attempted
  <2>2. ready' \in Seq(Handlers)
    BY <1>1, <2>1, ReturnedOne
  <2>3. PICK n \in Sendable(m) : Take(m, n, alive)
    BY <1>3 DEF Attempted
  <2>4. TakeTypes'
    BY <2>3, Taken
  <2>5. ops' = ops
    BY <1>3 DEF Attempted
  <2> QED  BY <1>1, <2>2, <2>4, <2>5
<1>4. CASE Queued(m)
  <2>1. Return(<< >>) /\ ops' = Append(ops, m) /\ UNCHANGED << written, own, speculative, wire >>
    BY <1>4 DEF Queued
  <2>2. ready' \in Seq(Handlers)
    BY <1>1, <2>1, ReturnedNone
  <2>3. ops' \in Seq(Numbers)
    BY <1>1, <2>1, AppendProperties
  <2> QED  BY <1>1, <2>1, <2>2, <2>3 DEF TakeTypes
<1> QED  BY <1>2, <1>3, <1>4, AsyncOutcomes

\* do_write_byte pops the front.
LEMMA DoWriteTypes ==
  ASSUME TypeOK, NEW deque \in Seq(Numbers), deque # << >>, ready # << >>,
         DoWriteByte(deque), taken' = taken
  PROVE  QueueTypes' /\ TakeTypes'
<1>1. Head(deque) \in Numbers /\ Tail(deque) \in Seq(Numbers)
  BY HeadTailProperties
<1>2. AsyncWriteSome(Head(deque), TRUE) /\ deque_write_buffer_' = Tail(deque)
  BY DEF DoWriteByte
<1> QED  BY <1>1, <1>2, AsyncTypes DEF QueueTypes

\* Failing writes post one error handler each.
LEMMA Failing ==
  ASSUME TypeOK, NEW why, Fail(why)
  PROVE  /\ ready' \in Seq(Handlers) /\ Len(ready) \in Nat
         /\ \A i \in 1 .. Len(ready) : ready'[i] = ready[i]
         /\ \A i \in 1 .. Len(ready') : i > Len(ready) => ready'[i].type = "error"
<1> DEFINE p == [i \in DOMAIN ops |-> Handler("error", ops[i])]
<1>1. /\ Len(ops) \in Nat /\ DOMAIN ops = 1 .. Len(ops) /\ ready \in Seq(Handlers)
      /\ \A i \in 1 .. Len(ops) : ops[i] \in Numbers
      /\ Len(ready) \in Nat
  BY QueueFacts DEF TypeOK
<1>2. p \in [1 .. Len(ops) -> Handlers]
  BY <1>1, HandlerTypes
<1>3. p \in Seq(Handlers)
  BY <1>1, <1>2, SeqDef
<1>4. \A i \in 1 .. Len(ops) : p[i].type = "error"
  BY <1>1 DEF Handler
<1>5. ready' = ready \o p /\ DOMAIN p = 1 .. Len(ops)
  BY <1>1 DEF Fail
<1> HIDE DEF p
<1>6. Len(p) = Len(ops)
  BY <1>1, <1>3, <1>5, LenProperties
<1>7. /\ ready' \in Seq(Handlers) /\ Len(ready') = Len(ready) + Len(p)
      /\ \A i \in 1 .. Len(ready) + Len(p) :
            ready'[i] = IF i <= Len(ready) THEN ready[i] ELSE p[i - Len(ready)]
  BY <1>1, <1>3, <1>5, ConcatProperties
<1>8. \A i \in 1 .. Len(ready) : ready'[i] = ready[i]
  BY <1>1, <1>6, <1>7
<1>9. ASSUME NEW i \in 1 .. Len(ready'), i > Len(ready) PROVE ready'[i].type = "error"
  <2>1. i \in 1 .. Len(ready) + Len(p) /\ ~(i <= Len(ready)) /\ i - Len(ready) \in 1 .. Len(ops)
    BY <1>1, <1>6, <1>7, <1>9
  <2>2. ready'[i] = p[i - Len(ready)]
    BY <1>7, <2>1
  <2> QED  BY <1>4, <2>1, <2>2
<1> QED  BY <1>1, <1>7, <1>8, <1>9

LEMMA InitTypes == Init => TypeOK
<1> SUFFICES ASSUME Init PROVE TypeOK
  OBVIOUS
<1>1. /\ ready \in Seq(Handlers) /\ ops \in Seq(Numbers) /\ deque_write_buffer_ \in Seq(Numbers)
      /\ wire \in Seq(Numbers \X (1 .. Parts)) /\ Len(wire) = 0
  BY EmptySeq DEF Init
<1>2. written \in [Numbers -> 0 .. Parts] /\ accepted \in 0 .. MaxMessages
  BY WriteAssumption DEF Init
<1>3. own = written /\ \A m \in Numbers : own[m] <= written[m]
  BY DEF Init
<1> QED  BY <1>1, <1>2, <1>3 DEF Init, TypeOK

LEMMA StepTypes == TypeOK /\ [Next]_vars => TypeOK'
<1> SUFFICES ASSUME TypeOK, [Next]_vars PROVE TypeOK'
  OBVIOUS
<1> USE TypeParts, NextTypeParts
<1>1. CASE DeliverByte
  <2>1. accepted + 1 \in Numbers /\ accepted' = accepted + 1 /\ ready \in Seq(Handlers)
    BY <1>1, WriteAssumption DEF DeliverByte, Numbers, PlainTypes, QueueTypes
  <2>2. Handler("deliver", accepted + 1) \in Handlers
    BY <2>1, HandlerTypes
  <2>3. ready' \in Seq(Handlers)
    BY <1>1, <2>1, <2>2, AppendProperties DEF DeliverByte, Posted
  <2> QED  BY <1>1, <2>1, <2>3 DEF DeliverByte, PlainTypes, QueueTypes, TakeTypes, Numbers
<1>2. ASSUME NEW m \in Numbers, Delivered(m) PROVE TypeOK'
  <2>1. ready # << >> /\ taken' = taken /\ PlainTypes'
    BY <1>2 DEF Delivered, Runs, PlainTypes
  <2>2. CASE deque_write_buffer_ = << >>
    <3>1. DoWriteByte(<< m >>)
      BY <1>2, <2>2 DEF Delivered, PushAndWrite
    <3>2. << m >> \in Seq(Numbers) /\ << m >> # << >>
      OBVIOUS
    <3>3. QueueTypes' /\ TakeTypes'
      BY <2>1, <3>1, <3>2, DoWriteTypes
    <3> QED  BY <2>1, <3>3
  <2>3. CASE deque_write_buffer_ # << >>
    <3>1. /\ deque_write_buffer_' = Append(deque_write_buffer_, m) /\ Return(<< >>)
          /\ UNCHANGED << written, own, ops, speculative, wire >>
      BY <1>2, <2>3 DEF Delivered, PushAndWrite
    <3>2. ready' \in Seq(Handlers)
      BY <2>1, <3>1, ReturnedNone DEF QueueTypes
    <3>3. deque_write_buffer_' \in Seq(Numbers)
      BY <3>1, AppendProperties DEF QueueTypes
    <3> QED  BY <2>1, <3>1, <3>2, <3>3 DEF QueueTypes, TakeTypes
  <2> QED  BY <2>2, <2>3
<1>3. ASSUME NEW m \in Numbers, WriteOn(m) PROVE TypeOK'
  <2>1. ready # << >> /\ taken' = taken /\ PlainTypes' /\ AsyncWriteSome(m, FALSE)
        /\ deque_write_buffer_' = deque_write_buffer_
    BY <1>3 DEF WriteOn, Runs, PlainTypes
  <2> QED  BY <2>1, AsyncTypes DEF QueueTypes
<1>4. ASSUME NEW m \in Numbers, WriteHandler(m) PROVE TypeOK'
  <2>1. ready # << >> /\ taken' = taken /\ PlainTypes'
    BY <1>4 DEF WriteHandler, Runs, PlainTypes
  <2>2. CASE deque_write_buffer_ # << >>
    <3>1. DoWriteByte(deque_write_buffer_)
      BY <1>4, <2>2 DEF WriteHandler
    <3>2. QueueTypes' /\ TakeTypes'
      BY <2>1, <2>2, <3>1, DoWriteTypes DEF QueueTypes
    <3> QED  BY <2>1, <3>2
  <2>3. CASE deque_write_buffer_ = << >>
    <3>1. Return(<< >>) /\ UNCHANGED << deque_write_buffer_, written, own, ops, speculative, wire >>
      BY <1>4, <2>3 DEF WriteHandler
    <3>2. ready' \in Seq(Handlers)
      BY <2>1, <3>1, ReturnedNone DEF QueueTypes
    <3> QED  BY <2>1, <3>1, <3>2 DEF QueueTypes, TakeTypes
  <2> QED  BY <2>2, <2>3
<1>5. ASSUME NEW m \in Numbers, WriteErrorHandler(m) PROVE TypeOK'
  <2>1. ready # << >> /\ Return(<< >>)
    BY <1>5 DEF WriteErrorHandler, Runs
  <2>2. ready' \in Seq(Handlers)
    BY <2>1, ReturnedNone DEF QueueTypes
  <2> QED  BY <1>5, <2>2 DEF WriteErrorHandler, PlainTypes, QueueTypes, TakeTypes
<1>6. ASSUME NEW why \in {"broken", "closed"}, Fail(why) PROVE TypeOK'
  <2>1. ready' \in Seq(Handlers) /\ ops' \in Seq(Numbers)
    BY <1>6, Failing, EmptySeq DEF Fail
  <2> QED  BY <1>6, <2>1 DEF Fail, PlainTypes, QueueTypes, TakeTypes
<1>7. CASE Writable
  <2>1. Head(ops) \in Numbers /\ Tail(ops) \in Seq(Numbers)
    BY <1>7, HeadTailProperties DEF Writable, QueueTypes
  <2>2. ASSUME NEW n \in Sendable(Head(ops)), Take(Head(ops), n, FALSE) PROVE TakeTypes'
    BY <1>7, <2>1, <2>2, Taken DEF Writable
  <2>3. TakeTypes'
    <3>1. ASSUME UNCHANGED << written, own, speculative, wire >> PROVE TakeTypes'
      BY <1>7, <3>1 DEF Writable, TakeTypes
    <3> QED  BY <1>7, <2>2, <3>1 DEF Writable
  <2>4. ready' \in Seq(Handlers)
    <3>1. /\ Handler("step", Head(ops)) \in Handlers /\ Handler("error", Head(ops)) \in Handlers
          /\ ready \in Seq(Handlers)
      BY <2>1, HandlerTypes DEF QueueTypes
    <3>2. PICK h \in Handlers : ready' = Append(ready, h)
      BY <1>7, <3>1 DEF Writable
    <3> QED  BY <3>1, <3>2, AppendProperties
  <2> QED  BY <1>7, <2>1, <2>3, <2>4 DEF Writable, PlainTypes, QueueTypes
<1>8. CASE WritableAgain
  BY <1>8 DEF WritableAgain, PlainTypes, QueueTypes, TakeTypes
<1>9. CASE PeerReads
  <2>1. Len(wire) \in Nat
    BY LenProperties DEF TakeTypes
  <2> QED  BY <1>9, <2>1 DEF PeerReads, PlainTypes, QueueTypes, TakeTypes
<1>10. CASE UNCHANGED vars
  BY <1>10 DEF vars, PlainTypes, QueueTypes, TakeTypes
<1> QED  BY <1>1, <1>2, <1>3, <1>4, <1>5, <1>6, <1>7, <1>8, <1>9, <1>10
         DEF Next, IoThread, Disconnect, ConnectionBreaks

\* Type correctness: no message is written past its end, nothing is read that
\* was not sent.
THEOREM TypeCorrect == Spec => []TypeOK
<1>1. Init => TypeOK
  BY InitTypes
<1>2. TypeOK /\ [Next]_vars => TypeOK'
  BY StepTypes
<1> QED  BY <1>1, <1>2, PTL DEF Spec

-----------------------------------------------------------------------------
(* The stream: message after message, part after part.                     *)

LEMMA ProductGrows ==
  ASSUME NEW P \in Nat \ {0}, NEW a \in Nat, NEW b \in Nat, a <= b
  PROVE  /\ a * P \in Nat /\ b * P \in Nat /\ a * P <= b * P
         /\ (a + 1) * P = a * P + P
OBVIOUS

\* The place of part q of message n, counted from 0, divides back to n and q.
LEMMA Places ==
  ASSUME NEW P \in Nat \ {0}, NEW n \in Nat, NEW q \in 0 .. P - 1
  PROVE  (n * P + q) \div P = n /\ (n * P + q) % P = q
<1> DEFINE a == n * P + q
           d == a \div P
           r == a % P
<1>1. a \in Nat
  OBVIOUS
<1>2. d \in Int /\ r \in 0 .. P - 1 /\ a = d * P + r
  <2> HIDE DEF a
  <2> QED  BY <1>1
<1>3. ~(d < n)
  <2> SUFFICES ASSUME d < n PROVE FALSE
    OBVIOUS
  <2> HIDE DEF d, r
  <2>1. (n - d) * P >= P
    BY <1>2
  <2>2. (n - d) * P = r - q
    BY <1>2
  <2> QED  BY <1>2, <2>1, <2>2
<1>4. ~(d > n)
  <2> SUFFICES ASSUME d > n PROVE FALSE
    OBVIOUS
  <2> HIDE DEF d, r
  <2>1. (d - n) * P >= P
    BY <1>2
  <2>2. (d - n) * P = q - r
    BY <1>2
  <2> QED  BY <1>2, <2>1, <2>2
<1>5. d = n
  BY <1>2, <1>3, <1>4
<1>6. r = q
  <2> HIDE DEF d, r
  <2>1. n * P + q = n * P + r /\ n * P \in Int
    BY <1>2, <1>5
  <2> QED  BY <1>2, <2>1
<1> QED  BY <1>5, <1>6

\* The streams of n messages and of one more.
LEMMA StreamFacts ==
  ASSUME NEW n \in Nat
  PROVE  /\ n * Parts \in Nat
         /\ Promise!Stream(n) \in Seq(Nat \X Nat)
         /\ Len(Promise!Stream(n)) = n * Parts
         /\ \A i \in 1 .. n * Parts :
              Promise!Stream(n)[i] = << ((i - 1) \div Parts) + 1, ((i - 1) % Parts) + 1 >>
<1> DEFINE L == n * Parts
           s == [i \in 1 .. L |-> << ((i - 1) \div Parts) + 1, ((i - 1) % Parts) + 1 >>]
<1>1. L \in Nat /\ Parts \in Nat \ {0}
  BY WriteAssumption
<1>2. Promise!Stream(n) = s
  BY DEF Promise!Stream
<1> HIDE DEF L
<1>3. ASSUME NEW i \in 1 .. L PROVE ((i - 1) \div Parts) + 1 \in Nat /\ ((i - 1) % Parts) + 1 \in Nat
  BY <1>1
<1>4. s \in [1 .. L -> Nat \X Nat]
  BY <1>3
<1>5. s \in Seq(Nat \X Nat)
  BY <1>1, <1>4, SeqDef
<1>6. DOMAIN s = 1 .. L
  OBVIOUS
<1>7. \A i \in 1 .. L : s[i] = << ((i - 1) \div Parts) + 1, ((i - 1) % Parts) + 1 >>
  OBVIOUS
<1> HIDE DEF s
<1>8. Len(s) \in Nat /\ DOMAIN s = 1 .. Len(s)
  BY <1>5, LenProperties
<1>9. Len(s) = L
  BY <1>1, <1>6, <1>8
<1> QED  BY <1>1, <1>2, <1>5, <1>7, <1>9 DEF L

\* A message written whole behind n messages makes the stream of n + 1.
LEMMA StreamExtends ==
  ASSUME NEW n \in Nat, NEW w \in Seq(Nat \X Nat),
         Len(w) = (n + 1) * Parts,
         \A i \in 1 .. n * Parts : w[i] = Promise!Stream(n)[i],
         \A i \in 1 .. Parts : w[n * Parts + i] = << n + 1, i >>
  PROVE  w = Promise!Stream(n + 1)
<1> DEFINE L == n * Parts
           s == Promise!Stream(n + 1)
<1>1. L \in Nat /\ Parts \in Nat \ {0} /\ (n + 1) * Parts = L + Parts /\ n + 1 \in Nat
  BY WriteAssumption, ProductGrows
<1>2. /\ s \in Seq(Nat \X Nat) /\ Len(s) = L + Parts
      /\ \A i \in 1 .. L + Parts : s[i] = << ((i - 1) \div Parts) + 1, ((i - 1) % Parts) + 1 >>
  BY <1>1, StreamFacts
<1>3. \A i \in 1 .. L :
         Promise!Stream(n)[i] = << ((i - 1) \div Parts) + 1, ((i - 1) % Parts) + 1 >>
  BY StreamFacts
<1> HIDE DEF L, s
<1>4. ASSUME NEW i \in 1 .. L PROVE w[i] = s[i]
  <2>1. i \in 1 .. L + Parts
    BY <1>1
  <2>2. w[i] = Promise!Stream(n)[i]
    BY DEF L
  <2> QED  BY <1>2, <1>3, <2>1, <2>2
<1>5. ASSUME NEW q \in 1 .. Parts PROVE w[L + q] = s[L + q]
  <2>1. (L + (q - 1)) \div Parts = n /\ (L + (q - 1)) % Parts = q - 1
    <3>1. q - 1 \in 0 .. Parts - 1
      BY <1>1
    <3> QED  BY <1>1, <3>1, Places DEF L
  <2>2. (L + q) - 1 = L + (q - 1) /\ L + q \in 1 .. L + Parts
    BY <1>1
  <2>3. s[L + q] = << n + 1, (q - 1) + 1 >>
    BY <1>2, <2>1, <2>2
  <2>4. (q - 1) + 1 = q
    BY <1>1
  <2>5. w[L + q] = << n + 1, q >>
    BY DEF L
  <2> QED  BY <2>3, <2>4, <2>5
<1>6. ASSUME NEW i \in 1 .. L + Parts PROVE w[i] = s[i]
  <2>1. CASE i <= L
    BY <1>1, <1>4, <2>1
  <2>2. CASE ~(i <= L)
    <3>1. i - L \in 1 .. Parts /\ L + (i - L) = i
      BY <1>1, <2>2
    <3>2. w[L + (i - L)] = s[L + (i - L)]
      BY <1>5, <3>1
    <3> QED  BY <3>1, <3>2
  <2> QED  BY <2>1, <2>2
<1>7. Len(w) = L + Parts
  BY <1>1
<1> QED  BY <1>2, <1>6, <1>7, SeqEqual DEF s

-----------------------------------------------------------------------------
(* The order in which messages are sent.                                   *)

\* What is in the queues, by position.
LEMMA ReadyTyped ==
  ASSUME NEW r \in Seq(Handlers)
  PROVE  /\ Len(r) \in Nat /\ DOMAIN r = 1 .. Len(r)
         /\ \A i \in DOMAIN r : r[i] \in Handlers /\ r[i].message \in Numbers
<1>1. \A h \in Handlers : h.message \in Numbers
  BY DEF Handlers
<1> QED  BY <1>1, QueueFacts

LEMMA OpsTyped ==
  ASSUME NEW o \in Seq(Numbers)
  PROVE  /\ Len(o) \in Nat /\ DOMAIN o = 1 .. Len(o)
         /\ \A i \in DOMAIN o : o[i] \in Numbers
BY QueueFacts

LEMMA NumbersTyped ==
  ASSUME NEW w \in [Numbers -> 0 .. Parts], NEW a \in 0 .. MaxMessages
  PROVE  /\ \A m \in Numbers : m \in Nat /\ w[m] \in Nat
         /\ a \in Nat
BY WriteAssumption DEF Numbers

\* A step keeps the handlers that were d places further back, and posts at most
\* the handlers of writes in progress; it keeps the waiting writes that were e
\* places further back.
NowBegun(m) == written'[m] > 0
NowWaits(m) == m <= accepted' /\ \A k \in Numbers : NowBegun(k) => k < m
KeptHandlers(d) ==
    \A j \in DOMAIN ready' : \/ j + d \in DOMAIN ready /\ ready'[j] = ready[j + d]
                             \/ ready'[j].type = "error"
                             \/ ready'[j].type = "step" /\ NowBegun(ready'[j].message)
KeptWaiting(e) ==
    \A i \in DOMAIN ops' : \/ i + e \in DOMAIN ops /\ ops'[i] = ops[i + e]
                           \/ NowBegun(ops'[i])
\* Nothing begins but m, and m only when its turn has come.
BeginsAtMost(m) ==
    /\ \A k \in Numbers : Begun(k) => NowBegun(k)
    /\ \A k \in Numbers : NowBegun(k) => Begun(k) \/ k = m
    /\ NowBegun(m) /\ ~Begun(m) =>
         /\ Waits(m)
         /\ \A i \in DOMAIN ops' : NowBegun(ops'[i]) \/ m < ops'[i]
         /\ \A j \in DOMAIN ready' : ready'[j] \in Deliveries => m < ready'[j].message

LEMMA HandlersKept ==
  ASSUME TypeOK, TypeOK', Order, NEW m, NEW d \in {0, 1},
         accepted' = accepted, KeptHandlers(d), BeginsAtMost(m)
  PROVE  StepsBegun' /\ BegunAccepted' /\ DeliveriesWait' /\ DeliveriesInOrder'
<1>1. /\ \A j \in DOMAIN ready' : ready'[j] \in Handlers /\ ready'[j].message \in Numbers
      /\ Len(ready') \in Nat /\ DOMAIN ready' = 1 .. Len(ready')
  BY ReadyTyped DEF TypeOK
<1>2. /\ \A j \in DOMAIN ready : ready[j].message \in Numbers
      /\ Len(ready) \in Nat /\ DOMAIN ready = 1 .. Len(ready)
  BY ReadyTyped DEF TypeOK
<1>3. /\ \A k \in Numbers : k \in Nat
      /\ accepted \in Nat
  BY NumbersTyped DEF TypeOK
<1>4. \A j \in DOMAIN ready' : ready'[j] \in Deliveries =>
          j + d \in DOMAIN ready /\ ready'[j] = ready[j + d]
  BY DEF KeptHandlers, Deliveries
<1>5. StepsBegun'
  <2> SUFFICES ASSUME NEW j \in DOMAIN ready', ready'[j].type = "step"
               PROVE  NowBegun(ready'[j].message)
    BY DEF StepsBegun, Begun, NowBegun
  <2>1. \/ j + d \in DOMAIN ready /\ ready'[j] = ready[j + d]
        \/ NowBegun(ready'[j].message)
    BY DEF KeptHandlers
  <2> QED  BY <1>1, <2>1 DEF Order, StepsBegun, BeginsAtMost
<1>6. BegunAccepted'
  BY DEF BegunAccepted, BeginsAtMost, Order, Waits, Begun, NowBegun
\* Whoever waits after the step is not m, if m has begun in it.
<1>7. ASSUME NEW k \in Numbers, Waits(k), NowBegun(m) /\ ~Begun(m) => m < k
       PROVE  NowWaits(k)
  BY <1>7 DEF Waits, NowWaits, BeginsAtMost
<1>8. DeliveriesWait'
  <2> SUFFICES ASSUME NEW j \in DOMAIN ready', ready'[j] \in Deliveries
               PROVE  NowWaits(ready'[j].message)
    BY DEF DeliveriesWait, Begun, NowBegun, Waits, NowWaits
  <2>1. j + d \in DOMAIN ready /\ ready'[j] = ready[j + d]
    BY <1>4
  <2>2. Waits(ready'[j].message)
    BY <2>1 DEF Order, DeliveriesWait
  <2>3. NowBegun(m) /\ ~Begun(m) => m < ready'[j].message
    BY DEF BeginsAtMost
  <2> QED  BY <1>1, <1>7, <2>2, <2>3
<1>9. DeliveriesInOrder'
  <2> SUFFICES ASSUME NEW i \in DOMAIN ready', NEW j \in DOMAIN ready', i < j,
                      ready'[i] \in Deliveries, ready'[j] \in Deliveries
               PROVE  ready'[i].message < ready'[j].message
    BY DEF DeliveriesInOrder, Begun, NowBegun
  <2>1. /\ i + d \in DOMAIN ready /\ ready'[i] = ready[i + d]
        /\ j + d \in DOMAIN ready /\ ready'[j] = ready[j + d]
    BY <1>4
  <2>2. i + d < j + d
    BY <1>1
  <2> QED  BY <2>1, <2>2 DEF Order, DeliveriesInOrder
<1> QED  BY <1>5, <1>6, <1>8, <1>9

LEMMA WaitingKept ==
  ASSUME TypeOK, TypeOK', Order, NEW m, NEW d \in {0, 1}, NEW e \in {0, 1},
         accepted' = accepted, KeptHandlers(d), KeptWaiting(e), BeginsAtMost(m)
  PROVE  OpsWait' /\ OpsInOrder' /\ OpsBeforeDeliveries'
<1>1. /\ \A j \in DOMAIN ready' : ready'[j] \in Handlers /\ ready'[j].message \in Numbers
      /\ Len(ready') \in Nat /\ DOMAIN ready' = 1 .. Len(ready')
  BY ReadyTyped DEF TypeOK
<1>2. /\ \A j \in DOMAIN ready : ready[j].message \in Numbers
      /\ Len(ready) \in Nat /\ DOMAIN ready = 1 .. Len(ready)
  BY ReadyTyped DEF TypeOK
<1>3. /\ \A i \in DOMAIN ops' : ops'[i] \in Numbers
      /\ Len(ops') \in Nat /\ DOMAIN ops' = 1 .. Len(ops')
  BY OpsTyped DEF TypeOK
<1>4. /\ \A i \in DOMAIN ops : ops[i] \in Numbers
      /\ Len(ops) \in Nat /\ DOMAIN ops = 1 .. Len(ops)
  BY OpsTyped DEF TypeOK
<1>5. /\ \A k \in Numbers : k \in Nat
      /\ accepted \in Nat
  BY NumbersTyped DEF TypeOK
<1>6. \A j \in DOMAIN ready' : ready'[j] \in Deliveries =>
          j + d \in DOMAIN ready /\ ready'[j] = ready[j + d]
  BY DEF KeptHandlers, Deliveries
<1>7. \A i \in DOMAIN ops' : ~NowBegun(ops'[i]) =>
          i + e \in DOMAIN ops /\ ops'[i] = ops[i + e] /\ ~Begun(ops[i + e])
  BY <1>3 DEF KeptWaiting, BeginsAtMost
<1>8. ASSUME NEW k \in Numbers, Waits(k), NowBegun(m) /\ ~Begun(m) => m < k
       PROVE  NowWaits(k)
  BY <1>8 DEF Waits, NowWaits, BeginsAtMost
<1>9. OpsWait'
  <2> SUFFICES ASSUME NEW i \in DOMAIN ops', ~NowBegun(ops'[i]) PROVE NowWaits(ops'[i])
    BY DEF OpsWait, Begun, NowBegun, Waits, NowWaits
  <2>1. i + e \in DOMAIN ops /\ ops'[i] = ops[i + e] /\ ~Begun(ops[i + e])
    BY <1>7
  <2>2. Waits(ops'[i])
    BY <2>1 DEF Order, OpsWait
  <2>3. NowBegun(m) /\ ~Begun(m) => m < ops'[i]
    BY DEF BeginsAtMost
  <2> QED  BY <1>3, <1>8, <2>2, <2>3
<1>10. OpsInOrder'
  <2> SUFFICES ASSUME NEW i \in DOMAIN ops', NEW j \in DOMAIN ops', i < j,
                      ~NowBegun(ops'[i]), ~NowBegun(ops'[j])
               PROVE  ops'[i] < ops'[j]
    BY DEF OpsInOrder, Begun, NowBegun
  <2>1. /\ i + e \in DOMAIN ops /\ ops'[i] = ops[i + e] /\ ~Begun(ops[i + e])
        /\ j + e \in DOMAIN ops /\ ops'[j] = ops[j + e] /\ ~Begun(ops[j + e])
    BY <1>7
  <2>2. i + e < j + e
    BY <1>3
  <2> QED  BY <2>1, <2>2 DEF Order, OpsInOrder
<1>11. OpsBeforeDeliveries'
  <2> SUFFICES ASSUME NEW i \in DOMAIN ops', NEW j \in DOMAIN ready',
                      ~NowBegun(ops'[i]), ready'[j] \in Deliveries
               PROVE  ops'[i] < ready'[j].message
    BY DEF OpsBeforeDeliveries, Begun, NowBegun
  <2>1. /\ i + e \in DOMAIN ops /\ ops'[i] = ops[i + e] /\ ~Begun(ops[i + e])
        /\ j + d \in DOMAIN ready /\ ready'[j] = ready[j + d]
    BY <1>6, <1>7
  <2> QED  BY <2>1 DEF Order, OpsBeforeDeliveries
<1> QED  BY <1>9, <1>10, <1>11

\* An attempt of n parts begins m, if it had not begun, and nothing else.
LEMMA TakeBegins ==
  ASSUME TypeOK, NEW alive, NEW m \in Numbers, NEW n \in Sendable(m), Take(m, n, alive),
         taken' = taken
  PROVE  /\ NowBegun(m)
         /\ \A k \in Numbers : Begun(k) => NowBegun(k)
         /\ \A k \in Numbers : NowBegun(k) => Begun(k) \/ k = m
<1>1. written' = [written EXCEPT ![m] = @ + n] /\ n \in 1 .. Parts
  BY SendableRange DEF Take
<1>2. written \in [Numbers -> 0 .. Parts] /\ Parts \in Nat
  BY WriteAssumption DEF TypeOK
<1>3. written'[m] = written[m] + n /\ \A k \in Numbers : k # m => written'[k] = written[k]
  BY <1>1, <1>2
<1> QED  BY <1>1, <1>2, <1>3 DEF Begun, NowBegun

\* An attempt on a message whose turn it is, or which has begun, keeps what is
\* known of the wire: only a first attempt sends bytes of the message itself.
LEMMA WireOrder ==
  ASSUME TypeOK, WireBegun, OwnBytesInOrder, NEW alive, NEW m \in Numbers,
         NEW n \in Sendable(m), Take(m, n, alive), taken' = taken, alive => Waits(m)
  PROVE  WireBegun' /\ OwnBytesInOrder'
<1>1. /\ n \in 1 .. Parts /\ written[m] \in 0 .. Parts /\ n \in Nat /\ Parts \in Nat
      /\ written' = [written EXCEPT ![m] = @ + n]
      /\ own' = IF alive THEN [own EXCEPT ![m] = @ + n] ELSE own
      /\ Len(wire) \in Nat /\ Len(wire') = Len(wire) + n
      /\ \A i \in 1 .. Len(wire) : wire'[i] = wire[i]
      /\ \A i \in 1 .. n : wire'[Len(wire) + i] = << m, written[m] + i >>
      /\ TakeTypes'
  BY Taken, WriteAssumption
<1>2. /\ DOMAIN wire = 1 .. Len(wire) /\ DOMAIN wire' = 1 .. Len(wire) + n
  BY <1>1, LenProperties DEF TypeOK, TakeTypes
<1>3. ASSUME NEW i \in DOMAIN wire', i > Len(wire)
      PROVE  /\ i - Len(wire) \in 1 .. n
             /\ wire'[i][1] = m /\ wire'[i][2] = written[m] + (i - Len(wire))
  <2>1. i - Len(wire) \in 1 .. n /\ Len(wire) + (i - Len(wire)) = i
    BY <1>1, <1>2, <1>3
  <2>2. wire'[i] = << m, written[m] + (i - Len(wire)) >>
    BY <1>1, <2>1
  <2> QED  BY <2>1, <2>2
<1>4. \A i \in DOMAIN wire : wire[i][1] \in Numbers
  <2>1. \A i \in DOMAIN wire : wire[i] \in Numbers \X (1 .. Parts)
    BY <1>2, ElementOfSeq DEF TypeOK
  <2> QED  BY <2>1
<1>5. \A k \in Numbers : Begun(k) => NowBegun(k)
  BY <1>1 DEF Begun, NowBegun, TypeOK
<1>6. NowBegun(m)
  BY <1>1 DEF Begun, NowBegun, TypeOK
<1>7. WireBegun'
  <2> SUFFICES ASSUME NEW i \in DOMAIN wire' PROVE NowBegun(wire'[i][1])
    BY DEF WireBegun, Begun, NowBegun
  <2>1. CASE i > Len(wire)
    BY <1>3, <1>6, <2>1
  <2>2. CASE ~(i > Len(wire))
    <3>1. i \in DOMAIN wire /\ wire'[i] = wire[i]
      BY <1>1, <1>2, <2>2
    <3> QED  BY <1>4, <1>5, <3>1 DEF WireBegun
  <2> QED  BY <2>1, <2>2
<1>8. own \in [Numbers -> 0 .. Parts] /\ \A k \in Numbers : own[k] <= written[k]
  BY DEF TypeOK
\* A place before the attempt that holds own bytes now did so before.
<1>9. ASSUME NEW i \in DOMAIN wire, wire[i][2] <= own'[wire[i][1]] PROVE i \in OwnPlaces
  <2>1. CASE wire[i][1] = m /\ alive
    <3>1. Begun(m) /\ Waits(m) /\ m \in Nat
      BY <2>1 DEF WireBegun, Numbers
    <3> QED  BY <3>1 DEF Waits
  <2>2. CASE ~(wire[i][1] = m /\ alive)
    <3>1. own'[wire[i][1]] = own[wire[i][1]]
      BY <1>1, <1>4, <1>8, <2>2
    <3> QED  BY <1>9, <3>1 DEF OwnPlaces
  <2> QED  BY <2>1, <2>2
\* A place of the attempt holds own bytes only if it is the first.
<1>10. ASSUME NEW i \in DOMAIN wire', i > Len(wire), wire'[i][2] <= own'[m] PROVE alive
  <2>1. wire'[i][2] = written[m] + (i - Len(wire)) /\ i - Len(wire) \in 1 .. n
    BY <1>3, <1>10
  <2>2. own[m] <= written[m] /\ own[m] \in 0 .. Parts
    BY <1>8
  <2>3. written[m] \in Nat /\ Parts \in Nat /\ n \in Nat
    BY <1>1
  <2>4. ~(wire'[i][2] <= own[m])
    BY <2>1, <2>2, <2>3
  <2> QED  BY <1>1, <1>10, <2>4
<1>11. OwnBytesInOrder'
  <2> SUFFICES ASSUME NEW i \in DOMAIN wire', NEW j \in DOMAIN wire', i < j,
                      wire'[i][2] <= own'[wire'[i][1]], wire'[j][2] <= own'[wire'[j][1]]
               PROVE  \/ wire'[i][1] < wire'[j][1]
                      \/ wire'[i][1] = wire'[j][1] /\ wire'[i][2] < wire'[j][2]
    BY DEF OwnBytesInOrder, OwnPlaces
  <2>1. CASE i > Len(wire)
    <3>1. j > Len(wire)
      BY <1>1, <1>2, <2>1
    <3> QED  BY <1>1, <1>2, <1>3, <2>1, <3>1
  <2>2. CASE ~(i > Len(wire)) /\ j > Len(wire)
    <3>1. i \in DOMAIN wire /\ wire'[i] = wire[i]
      BY <1>1, <1>2, <2>2
    <3>2. wire'[j][1] = m /\ alive
      BY <1>3, <1>10, <2>2
    <3>3. Begun(wire[i][1]) /\ wire[i][1] \in Numbers
      BY <1>4, <3>1 DEF WireBegun
    <3> QED  BY <3>1, <3>2, <3>3 DEF Waits
  <2>3. CASE ~(j > Len(wire))
    <3>1. /\ i \in DOMAIN wire /\ wire'[i] = wire[i]
          /\ j \in DOMAIN wire /\ wire'[j] = wire[j]
      BY <1>1, <1>2, <2>3
    <3>2. i \in OwnPlaces /\ j \in OwnPlaces
      BY <1>9, <3>1
    <3> QED  BY <3>1, <3>2 DEF OwnBytesInOrder
  <2> QED  BY <2>1, <2>2, <2>3
<1> QED  BY <1>7, <1>11

\* After an attempt of m, messages up to k are at once only as before, or m is
\* the k-th, written whole now and behind nothing else.
LEMMA OnceBefore ==
  ASSUME TypeOK, NEW alive, NEW m \in Numbers, NEW n \in Sendable(m), Take(m, n, alive),
         taken' = taken, alive => Waits(m), NEW k \in 0 .. MaxMessages, AtOnce(k)'
  PROVE  \/ m > k /\ AtOnce(k)
         \/ /\ alive /\ n = Parts /\ m = k /\ written[m] = 0 /\ AtOnce(k - 1)
            /\ \A j \in Numbers : j > k - 1 => ~Begun(j)
<1>1. /\ n \in 1 .. Parts /\ written[m] \in 0 .. Parts /\ n <= Parts - written[m]
      /\ Parts \in Nat \ {0}
      /\ own' = IF alive THEN [own EXCEPT ![m] = @ + n] ELSE own
  BY Taken, SendableRange, WriteAssumption
<1>2. /\ own \in [Numbers -> 0 .. Parts] /\ \A j \in Numbers : own[j] <= written[j]
      /\ written \in [Numbers -> 0 .. Parts]
  BY DEF TypeOK
<1>3. /\ m \in Nat /\ k \in Nat /\ MaxMessages \in Nat /\ 1 .. k \subseteq Numbers
      /\ \A j \in Numbers : j \in Nat /\ j >= 1
  BY WriteAssumption DEF Numbers
<1>4. \A j \in 1 .. k : own'[j] = Parts
  BY DEF AtOnce
<1>5. \A j \in Numbers : j # m => own'[j] = own[j]
  BY <1>1, <1>2
<1>6. CASE m > k
  <2>1. \A j \in 1 .. k : own[j] = Parts
    BY <1>3, <1>4, <1>5, <1>6
  <2> QED  BY <1>6, <2>1 DEF AtOnce
<1>7. CASE ~(m > k)
  <2>1. m \in 1 .. k /\ own'[m] = Parts
    BY <1>3, <1>4, <1>7
  <2>2. alive
    <3> SUFFICES ASSUME ~alive PROVE FALSE
      OBVIOUS
    <3>1. own[m] = Parts
      BY <1>1, <2>1
    <3> QED  BY <1>1, <1>2, <3>1
  <2>3. Waits(m) /\ ~Begun(m)
    BY <1>3, <2>2 DEF Waits
  <2>4. written[m] = 0 /\ own[m] = 0
    BY <1>1, <1>2, <2>3 DEF Begun
  <2>5. own'[m] = own[m] + n
    BY <1>1, <1>2, <2>2
  <2>6. n = Parts
    BY <1>1, <2>1, <2>4, <2>5
  <2>7. m = k
    <3> SUFFICES ASSUME m < k PROVE FALSE
      BY <1>3, <1>7
    <3>1. k \in 1 .. k /\ k \in Numbers /\ k # m
      BY <1>3
    <3>2. own[k] = Parts
      BY <1>4, <1>5, <3>1
    <3>3. Begun(k)
      BY <1>1, <1>2, <3>1, <3>2 DEF Begun
    <3> QED  BY <1>3, <2>3, <3>1, <3>3 DEF Waits
  <2>8. AtOnce(k - 1)
    <3>1. \A j \in 1 .. k - 1 : j \in 1 .. k /\ j # m /\ j \in Numbers
      BY <1>3, <2>7
    <3>2. \A j \in 1 .. k - 1 : own[j] = Parts
      BY <1>4, <1>5, <3>1
    <3> QED  BY <3>2 DEF AtOnce
  <2>9. \A j \in Numbers : j > k - 1 => ~Begun(j)
    BY <1>3, <2>3, <2>7 DEF Waits
  <2> QED  BY <2>2, <2>4, <2>6, <2>7, <2>8, <2>9
<1> QED  BY <1>6, <1>7

LEMMA WireGrows ==
  ASSUME TypeOK, WireInv, NEW alive, NEW m \in Numbers, NEW n \in Sendable(m),
         Take(m, n, alive), taken' = taken, alive => Waits(m)
  PROVE  WireInv'
<1>1. /\ n \in 1 .. Parts /\ Parts \in Nat \ {0} /\ MaxMessages \in Nat
      /\ Len(wire) \in Nat /\ Len(wire') = Len(wire) + n
      /\ \A i \in 1 .. Len(wire) : wire'[i] = wire[i]
      /\ \A i \in 1 .. n : wire'[Len(wire) + i] = << m, written[m] + i >>
      /\ TakeTypes'
  BY Taken, WriteAssumption
<1>2. WireBegun' /\ OwnBytesInOrder'
  BY WireOrder DEF WireInv
<1>3. NowBegun(m)
  BY TakeBegins
\* What the m-th message, written whole behind the others at once, makes.
<1>4. ASSUME NEW k \in 0 .. MaxMessages, alive, n = Parts, m = k, written[m] = 0,
             AtOnce(k - 1), \A j \in Numbers : j > k - 1 => ~Begun(j)
      PROVE  /\ Len(wire') = k * Parts
             /\ \A i \in 1 .. k * Parts : wire'[i] = Promise!Stream(k)[i]
  <2>1. k - 1 \in 0 .. MaxMessages /\ k - 1 \in Nat /\ (k - 1) + 1 = k
    BY <1>1, <1>4, WriteAssumption DEF Numbers
  <2>2. Len(wire) = (k - 1) * Parts
    BY <1>4, <2>1 DEF WireInv, Tight
  <2>3. \A i \in 1 .. (k - 1) * Parts : wire[i] = Promise!Stream(k - 1)[i]
    BY <1>4, <2>1 DEF WireInv, StreamUntilCut, AtOnce
  <2>4. (k - 1) * Parts \in Nat /\ ((k - 1) + 1) * Parts = (k - 1) * Parts + Parts
    BY <1>1, <2>1, ProductGrows
  <2>5. Len(wire') = ((k - 1) + 1) * Parts
    BY <1>1, <1>4, <2>2, <2>4
  <2>6. \A i \in 1 .. (k - 1) * Parts : wire'[i] = Promise!Stream(k - 1)[i]
    BY <1>1, <2>2, <2>3
  <2>7. ASSUME NEW i \in 1 .. Parts PROVE wire'[(k - 1) * Parts + i] = << (k - 1) + 1, i >>
    <3>1. wire'[Len(wire) + i] = << m, written[m] + i >>
      BY <1>1, <1>4
    <3>2. written[m] + i = i
      BY <1>1, <1>4
    <3> QED  BY <1>4, <2>1, <2>2, <3>1, <3>2
  <2>8. wire' \in Seq(Nat \X Nat)
    <3>1. Numbers \X (1 .. Parts) \subseteq Nat \X Nat
      BY <1>1, WriteAssumption DEF Numbers
    <3>2. wire' \in Seq(Numbers \X (1 .. Parts))
      BY <1>1 DEF TakeTypes
    <3> QED  BY <3>1, <3>2, SeqMonotonic
  <2>9. wire' = Promise!Stream((k - 1) + 1)
    BY <2>1, <2>5, <2>6, <2>7, <2>8, StreamExtends
  <2> QED  BY <2>1, <2>5, <2>9
<1>5. ASSUME NEW k \in 0 .. MaxMessages, AtOnce(k)'
      PROVE  \/ m > k /\ AtOnce(k)
             \/ /\ Len(wire') = k * Parts
                /\ \A i \in 1 .. k * Parts : wire'[i] = Promise!Stream(k)[i]
  <2>1. \/ m > k /\ AtOnce(k)
        \/ /\ alive /\ n = Parts /\ m = k /\ written[m] = 0 /\ AtOnce(k - 1)
           /\ \A j \in Numbers : j > k - 1 => ~Begun(j)
    BY <1>5, OnceBefore
  <2> QED  BY <1>4, <2>1
<1>6. Tight'
  <2> SUFFICES ASSUME NEW k \in 0 .. MaxMessages, AtOnce(k)',
                      \A j \in Numbers : j > k => ~NowBegun(j)
               PROVE  Len(wire') = k * Parts
    BY DEF Tight, Begun, NowBegun
  <2> QED  BY <1>3, <1>5
<1>7. StreamUntilCut'
  <2> SUFFICES ASSUME NEW k \in 0 .. MaxMessages, AtOnce(k)'
               PROVE  /\ k * Parts <= Len(wire')
                      /\ \A i \in 1 .. k * Parts : wire'[i] = Promise!Stream(k)[i]
    BY DEF StreamUntilCut, AtOnce
  <2>1. k * Parts \in Nat
    BY <1>1
  <2>2. CASE AtOnce(k)
    <3>1. /\ k * Parts <= Len(wire)
          /\ \A i \in 1 .. k * Parts : wire[i] = Promise!Stream(k)[i]
      BY <2>2 DEF WireInv, StreamUntilCut, AtOnce
    <3>2. k * Parts <= Len(wire')
      BY <1>1, <2>1, <3>1
    <3>3. \A i \in 1 .. k * Parts : i \in 1 .. Len(wire)
      BY <1>1, <2>1, <3>1
    <3> QED  BY <1>1, <3>1, <3>2, <3>3
  <2>3. CASE ~AtOnce(k)
    <3>1. /\ Len(wire') = k * Parts
          /\ \A i \in 1 .. k * Parts : wire'[i] = Promise!Stream(k)[i]
      BY <1>5, <2>3
    <3> QED  BY <2>1, <3>1
  <2> QED  BY <2>2, <2>3
<1> QED  BY <1>2, <1>6, <1>7 DEF WireInv

\* A step that writes nothing keeps what is known of the wire.
LEMMA WireSame ==
  ASSUME WireInv, UNCHANGED << wire, written, own >>
  PROVE  WireInv'
BY DEF WireInv, WireBegun, OwnBytesInOrder, OwnPlaces, Tight, StreamUntilCut, AtOnce, Begun

\* What running a handler leaves of the queue, when it posts nothing or the
\* handler of a write in progress.
LEMMA ReturnKeeps ==
  ASSUME TypeOK, TypeOK', NEW m \in Numbers, ready # << >>,
         \/ Return(<< >>)
         \/ Return(<< Handler("error", m) >>)
         \/ Return(<< Handler("step", m) >>) /\ NowBegun(m)
  PROVE  /\ KeptHandlers(1)
         /\ \A j \in DOMAIN ready' : ready'[j] \in Deliveries =>
                /\ j + 1 \in DOMAIN ready /\ ready'[j] = ready[j + 1]
<1>1. /\ ready \in Seq(Handlers)
      /\ Len(ready) \in Nat /\ DOMAIN ready = 1 .. Len(ready) /\ Len(ready) >= 1
  BY QueueFacts DEF TypeOK
<1>2. /\ Len(ready') \in Nat /\ DOMAIN ready' = 1 .. Len(ready')
  BY ReadyTyped DEF TypeOK
<1>3. CASE Return(<< >>)
  <2>1. /\ Len(ready') = Len(ready) - 1
        /\ \A i \in 1 .. Len(ready) - 1 : ready'[i] = ready[i + 1]
    BY <1>1, <1>3, ReturnedNone
  <2> QED  BY <1>1, <1>2, <2>1 DEF KeptHandlers
<1>4. ASSUME NEW h \in Handlers, Return(<< h >>),
             h = Handler("error", m) \/ (h = Handler("step", m) /\ NowBegun(m))
      PROVE  /\ KeptHandlers(1)
             /\ \A j \in DOMAIN ready' : ready'[j] \in Deliveries =>
                    /\ j + 1 \in DOMAIN ready /\ ready'[j] = ready[j + 1]
  <2>1. /\ Len(ready') = Len(ready)
        /\ \A i \in 1 .. Len(ready) - 1 : ready'[i] = ready[i + 1]
        /\ ready'[Len(ready)] = h
    BY <1>1, <1>4, ReturnedOne
  <2>2. h.type = "error" \/ (h.type = "step" /\ NowBegun(h.message))
    BY <1>4 DEF Handler
  <2>3. ASSUME NEW j \in DOMAIN ready'
        PROVE  \/ j + 1 \in DOMAIN ready /\ ready'[j] = ready[j + 1]
               \/ ready'[j] = h
    BY <1>1, <1>2, <2>1
  <2>4. h \notin Deliveries
    BY <2>2 DEF Deliveries
  <2> QED  BY <2>2, <2>3, <2>4 DEF KeptHandlers
<1> QED  BY <1>3, <1>4, HandlerTypes

\* The delivery that runs is of a message that waits, behind the waiting writes
\* and before the other deliveries.
LEMMA DeliveryTurn ==
  ASSUME TypeOK, Order, NEW m \in Numbers, ready # << >>, Head(ready) = Handler("deliver", m)
  PROVE  /\ Waits(m)
         /\ \A i \in DOMAIN ops : Begun(ops[i]) \/ ops[i] < m
         /\ \A j \in DOMAIN ready : j > 1 /\ ready[j] \in Deliveries => m < ready[j].message
<1>1. /\ 1 \in DOMAIN ready /\ ready[1] = Handler("deliver", m)
      /\ Len(ready) \in Nat /\ DOMAIN ready = 1 .. Len(ready)
  BY QueueFacts DEF TypeOK
<1>2. ready[1] \in Deliveries /\ ready[1].message = m
  BY <1>1 DEF Handler, Deliveries
<1>3. Waits(m)
  BY <1>1, <1>2 DEF Order, DeliveriesWait
<1>4. \A i \in DOMAIN ops : Begun(ops[i]) \/ ops[i] < m
  BY <1>1, <1>2 DEF Order, OpsBeforeDeliveries
<1>5. \A j \in DOMAIN ready : j > 1 /\ ready[j] \in Deliveries => m < ready[j].message
  BY <1>1, <1>2 DEF Order, DeliveriesInOrder
<1> QED  BY <1>3, <1>4, <1>5

\* A waiting write that goes behind those that wait: its delivery was the first.
LEMMA QueuedInOrder ==
  ASSUME TypeOK, TypeOK', Order, NEW m \in Numbers, ready # << >>,
         Head(ready) = Handler("deliver", m), Queued(m), accepted' = accepted, KeptHandlers(1)
  PROVE  OpsWait' /\ OpsInOrder' /\ OpsBeforeDeliveries'
<1>1. /\ Waits(m)
      /\ \A i \in DOMAIN ops : Begun(ops[i]) \/ ops[i] < m
      /\ \A j \in DOMAIN ready : j > 1 /\ ready[j] \in Deliveries => m < ready[j].message
  BY DeliveryTurn
<1>2. /\ \A i \in DOMAIN ops : ops[i] \in Numbers
      /\ Len(ops) \in Nat /\ DOMAIN ops = 1 .. Len(ops)
      /\ Len(ready) \in Nat /\ DOMAIN ready = 1 .. Len(ready)
      /\ Len(ready') \in Nat /\ DOMAIN ready' = 1 .. Len(ready')
  BY OpsTyped, ReadyTyped DEF TypeOK
<1>3. /\ Len(ops') = Len(ops) + 1
      /\ \A i \in 1 .. Len(ops) : ops'[i] = ops[i]
      /\ ops'[Len(ops) + 1] = m
  BY QueueFacts DEF Queued, TypeOK
<1>4. DOMAIN ops' = 1 .. Len(ops) + 1
  BY <1>3, OpsTyped DEF TypeOK
<1>5. ASSUME NEW i \in DOMAIN ops'
      PROVE  (i \in DOMAIN ops /\ ops'[i] = ops[i]) \/ (i = Len(ops) + 1 /\ ops'[i] = m)
  BY <1>2, <1>3, <1>4
<1>6. written' = written
  BY DEF Queued
<1>7. OpsWait'
  <2> SUFFICES ASSUME NEW i \in DOMAIN ops', ~NowBegun(ops'[i]) PROVE NowWaits(ops'[i])
    BY DEF OpsWait, Begun, NowBegun, Waits, NowWaits
  <2>1. Waits(ops'[i])
    BY <1>1, <1>5, <1>6 DEF Order, OpsWait, Begun, NowBegun
  <2> QED  BY <1>6, <2>1 DEF Waits, NowWaits, Begun, NowBegun
<1>8. OpsInOrder'
  <2> SUFFICES ASSUME NEW i \in DOMAIN ops', NEW j \in DOMAIN ops', i < j,
                      ~NowBegun(ops'[i]), ~NowBegun(ops'[j])
               PROVE  ops'[i] < ops'[j]
    BY DEF OpsInOrder, Begun, NowBegun
  <2>1. i \in DOMAIN ops /\ ops'[i] = ops[i] /\ ~Begun(ops[i])
    BY <1>2, <1>4, <1>5, <1>6 DEF Begun, NowBegun
  <2>2. CASE j \in DOMAIN ops /\ ops'[j] = ops[j]
    BY <1>6, <2>1, <2>2 DEF Order, OpsInOrder, Begun, NowBegun
  <2>3. CASE ops'[j] = m
    BY <1>1, <2>1, <2>3
  <2> QED  BY <1>5, <2>2, <2>3
<1>9. OpsBeforeDeliveries'
  <2> SUFFICES ASSUME NEW i \in DOMAIN ops', NEW j \in DOMAIN ready',
                      ~NowBegun(ops'[i]), ready'[j] \in Deliveries
               PROVE  ops'[i] < ready'[j].message
    BY DEF OpsBeforeDeliveries, Begun, NowBegun
  <2>1. j + 1 \in DOMAIN ready /\ ready'[j] = ready[j + 1]
    BY DEF KeptHandlers, Deliveries
  <2>2. m < ready'[j].message
    BY <1>1, <1>2, <2>1
  <2>3. CASE i \in DOMAIN ops /\ ops'[i] = ops[i]
    BY <1>6, <2>1, <2>3 DEF Order, OpsBeforeDeliveries, Begun, NowBegun
  <2> QED  BY <1>5, <2>2, <2>3
<1> QED  BY <1>7, <1>8, <1>9

Queues == /\ StepsBegun /\ BegunAccepted /\ OpsWait /\ DeliveriesWait
          /\ OpsInOrder /\ DeliveriesInOrder /\ OpsBeforeDeliveries

LEMMA QueuesKept ==
  ASSUME TypeOK, TypeOK', Order, NEW m, NEW d \in {0, 1}, NEW e \in {0, 1},
         accepted' = accepted, KeptHandlers(d), KeptWaiting(e), BeginsAtMost(m)
  PROVE  Queues'
<1>1. StepsBegun' /\ BegunAccepted' /\ DeliveriesWait' /\ DeliveriesInOrder'
  BY HandlersKept
<1>2. OpsWait' /\ OpsInOrder' /\ OpsBeforeDeliveries'
  BY WaitingKept
<1> QED  BY <1>1, <1>2 DEF Queues

\* A step in which nothing begins.
LEMMA NothingBegins ==
  ASSUME written' = written, NEW m
  PROVE  BeginsAtMost(m) /\ (NowBegun(m) <=> Begun(m))
BY DEF BeginsAtMost, Begun, NowBegun

\* An attempt to write, of a write in progress or of the delivery that runs.
LEMMA AsyncOrder ==
  ASSUME TypeOK, TypeOK', Order, NEW m \in Numbers, NEW alive, ready # << >>,
         AsyncWriteSome(m, alive), accepted' = accepted, taken' = taken,
         \/ Begun(m) /\ ~alive
         \/ Head(ready) = Handler("deliver", m)
  PROVE  Queues' /\ WireInv'
<1>1. Head(ready) = Handler("deliver", m) =>
         /\ Waits(m)
         /\ \A i \in DOMAIN ops : Begun(ops[i]) \/ ops[i] < m
         /\ \A j \in DOMAIN ready : j > 1 /\ ready[j] \in Deliveries => m < ready[j].message
  BY DeliveryTurn
<1>2. /\ Len(ready) \in Nat /\ DOMAIN ready = 1 .. Len(ready)
      /\ Len(ready') \in Nat /\ DOMAIN ready' = 1 .. Len(ready')
      /\ Len(ops) \in Nat /\ DOMAIN ops = 1 .. Len(ops)
  BY OpsTyped, ReadyTyped DEF TypeOK
<1>3. CASE Refused(m)
  <2>1. Return(<< Handler("error", m) >>) /\ UNCHANGED << written, own, ops, wire >>
    BY <1>3 DEF Refused
  <2>2. KeptHandlers(1)
    BY <2>1, ReturnKeeps
  <2>3. KeptWaiting(0)
    BY <1>2, <2>1 DEF KeptWaiting
  <2>4. Queues'
    BY <2>1, <2>2, <2>3, NothingBegins, QueuesKept
  <2> QED  BY <2>1, <2>4, WireSame DEF Order
<1>4. CASE Attempted(m, alive)
  <2>1. PICK n \in Sendable(m) : Take(m, n, alive)
    BY <1>4 DEF Attempted
  <2>2. Return(<< Handler("step", m) >>) /\ ops = << >> /\ ops' = << >>
    BY <1>4 DEF Attempted
  <2>3. /\ NowBegun(m)
        /\ \A k \in Numbers : Begun(k) => NowBegun(k)
        /\ \A k \in Numbers : NowBegun(k) => Begun(k) \/ k = m
    BY <2>1, TakeBegins
  <2>4. /\ KeptHandlers(1)
        /\ \A j \in DOMAIN ready' : ready'[j] \in Deliveries =>
                /\ j + 1 \in DOMAIN ready /\ ready'[j] = ready[j + 1]
    BY <2>2, <2>3, ReturnKeeps
  <2>5. DOMAIN ops' = {}
    BY <2>2
  <2>6. KeptWaiting(0)
    BY <2>5 DEF KeptWaiting
  <2>7. ~Begun(m) => \A j \in DOMAIN ready' : ready'[j] \in Deliveries => m < ready'[j].message
    BY <1>1, <1>2, <2>4
  <2>8. BeginsAtMost(m)
    BY <1>1, <2>3, <2>5, <2>7 DEF BeginsAtMost
  <2>9. Queues'
    BY <2>4, <2>6, <2>8, QueuesKept
  <2>10. WireInv'
    BY <1>1, <2>1, WireGrows DEF Order
  <2> QED  BY <2>9, <2>10
<1>5. CASE Queued(m)
  <2>1. /\ Return(<< >>) /\ ops' = Append(ops, m)
        /\ written' = written /\ wire' = wire /\ own' = own
    BY <1>5 DEF Queued
  <2>2. KeptHandlers(1)
    BY <2>1, ReturnKeeps
  <2>3. BeginsAtMost(m) /\ (NowBegun(m) <=> Begun(m))
    BY <2>1, NothingBegins
  <2>4. ASSUME Begun(m) PROVE Queues'
    <3>1. /\ Len(ops') = Len(ops) + 1
          /\ \A i \in 1 .. Len(ops) : ops'[i] = ops[i]
          /\ ops'[Len(ops) + 1] = m
      BY <2>1, QueueFacts DEF TypeOK
    <3>2. DOMAIN ops' = 1 .. Len(ops) + 1
      BY <3>1, OpsTyped DEF TypeOK
    <3>3. ASSUME NEW i \in DOMAIN ops'
          PROVE  (i + 0 \in DOMAIN ops /\ ops'[i] = ops[i + 0]) \/ NowBegun(ops'[i])
      BY <1>2, <2>3, <2>4, <3>1, <3>2
    <3>4. KeptWaiting(0)
      BY <3>3 DEF KeptWaiting
    <3> QED  BY <2>2, <2>3, <3>4, QueuesKept
  <2>5. ASSUME ~Begun(m) PROVE Queues'
    <3>1. OpsWait' /\ OpsInOrder' /\ OpsBeforeDeliveries'
      BY <1>5, <2>2, <2>5, QueuedInOrder
    <3>2. StepsBegun' /\ BegunAccepted' /\ DeliveriesWait' /\ DeliveriesInOrder'
      BY <2>2, <2>3, HandlersKept
    <3> QED  BY <3>1, <3>2 DEF Queues
  <2>6. WireInv'
    BY <2>1, WireSame DEF Order
  <2> QED  BY <2>4, <2>5, <2>6
<1> QED  BY <1>3, <1>4, <1>5, AsyncOutcomes

\* A step of another part of the system: the queues keep what they hold.
LEMMA OthersOrder ==
  ASSUME Order,
         UNCHANGED << accepted, ready, deque_write_buffer_, written, own, ops, wire >>
  PROVE  Order'
<1>1. WireInv'
  BY WireSame DEF Order
<1> QED  BY <1>1 DEF Order, DequeEmpty, StepsBegun, BegunAccepted, OpsWait, DeliveriesWait,
                     Waits, Begun, OpsInOrder, DeliveriesInOrder, OpsBeforeDeliveries

LEMMA OrderParts == Order' <=> DequeEmpty' /\ Queues' /\ WireInv'
BY DEF Order, Queues

LEMMA DeliverByteOrder ==
  ASSUME TypeOK, TypeOK', Order, DeliverByte
  PROVE  Order'
<1> DEFINE m == accepted + 1
<1>1. /\ ready' = Append(ready, Handler("deliver", m)) /\ accepted' = m
      /\ UNCHANGED << deque_write_buffer_, written, own, ops, wire >>
  BY DEF DeliverByte, Posted
<1>2. /\ \A k \in Numbers : k \in Nat
      /\ accepted \in Nat /\ m \in Numbers
  BY WriteAssumption, <1>1 DEF TypeOK, Numbers, DeliverByte
<1>3. /\ Len(ready) \in Nat /\ DOMAIN ready = 1 .. Len(ready)
      /\ DOMAIN ready' = 1 .. Len(ready')
      /\ \A j \in DOMAIN ready' : ready'[j].message \in Numbers
  BY ReadyTyped DEF TypeOK
<1>4. \A i \in DOMAIN ops : ops[i] \in Numbers
  BY OpsTyped DEF TypeOK
<1> HIDE DEF m
<1>5. /\ Len(ready') = Len(ready) + 1
      /\ \A i \in 1 .. Len(ready) : ready'[i] = ready[i]
      /\ ready'[Len(ready) + 1] = Handler("deliver", m)
  BY <1>1, <1>2, QueueFacts, HandlerTypes DEF TypeOK
<1>6. m > accepted /\ accepted' > accepted
  BY <1>1, <1>2 DEF m
<1>7. \A k \in Numbers : Begun(k) => k < m
  BY <1>2, <1>6 DEF Order, BegunAccepted
<1>8. \A k \in Numbers : Waits(k) => NowWaits(k) /\ k < m
  BY <1>1, <1>2, <1>6 DEF Waits, NowWaits, Begun, NowBegun
<1>9. NowWaits(m)
  BY <1>1, <1>2, <1>7 DEF NowWaits, Begun, NowBegun
<1>10. ASSUME NEW j \in DOMAIN ready'
       PROVE  \/ j \in DOMAIN ready /\ ready'[j] = ready[j]
              \/ /\ j = Len(ready) + 1 /\ ready'[j] = Handler("deliver", m)
                 /\ ready'[j].message = m /\ ready'[j].type = "deliver"
  BY <1>3, <1>5 DEF Handler
<1>11. ASSUME NEW j \in DOMAIN ready, ready[j] \in Deliveries PROVE Waits(ready[j].message)
  BY <1>11 DEF Order, DeliveriesWait
<1>12. \A j \in DOMAIN ready : ready[j].message \in Numbers
  BY ReadyTyped DEF TypeOK
<1>13. StepsBegun'
  <2> SUFFICES ASSUME NEW j \in DOMAIN ready', ready'[j].type = "step"
               PROVE  NowBegun(ready'[j].message)
    BY DEF StepsBegun, Begun, NowBegun
  <2> QED  BY <1>1, <1>10 DEF Order, StepsBegun, Begun, NowBegun
<1>14. BegunAccepted'
  BY <1>1, <1>2, <1>7 DEF BegunAccepted, Begun
<1>15. OpsWait'
  <2> SUFFICES ASSUME NEW i \in DOMAIN ops, ~Begun(ops[i]) PROVE NowWaits(ops[i])
    BY <1>1 DEF OpsWait, Begun, NowBegun, Waits, NowWaits
  <2> QED  BY <1>4, <1>8 DEF Order, OpsWait
<1>16. DeliveriesWait'
  <2> SUFFICES ASSUME NEW j \in DOMAIN ready', ready'[j] \in Deliveries
               PROVE  NowWaits(ready'[j].message)
    BY DEF DeliveriesWait, Begun, NowBegun, Waits, NowWaits
  <2>1. CASE j \in DOMAIN ready /\ ready'[j] = ready[j]
    BY <1>8, <1>11, <1>12, <2>1
  <2>2. CASE ready'[j].message = m
    BY <1>9, <2>2
  <2> QED  BY <1>10, <2>1, <2>2
<1>17. OpsInOrder'
  BY <1>1 DEF Order, OpsInOrder, Begun
<1>18. DeliveriesInOrder'
  <2> SUFFICES ASSUME NEW i \in DOMAIN ready', NEW j \in DOMAIN ready', i < j,
                      ready'[i] \in Deliveries, ready'[j] \in Deliveries
               PROVE  ready'[i].message < ready'[j].message
    BY DEF DeliveriesInOrder
  <2>1. i \in DOMAIN ready /\ ready'[i] = ready[i]
    BY <1>3, <1>5
  <2>2. CASE j \in DOMAIN ready /\ ready'[j] = ready[j]
    BY <2>1, <2>2 DEF Order, DeliveriesInOrder
  <2>3. CASE ready'[j].message = m
    BY <1>8, <1>11, <1>12, <2>1, <2>3
  <2> QED  BY <1>10, <2>2, <2>3
<1>19. OpsBeforeDeliveries'
  <2> SUFFICES ASSUME NEW i \in DOMAIN ops, NEW j \in DOMAIN ready',
                      ~Begun(ops[i]), ready'[j] \in Deliveries
               PROVE  ops[i] < ready'[j].message
    BY <1>1 DEF OpsBeforeDeliveries, Begun
  <2>1. CASE j \in DOMAIN ready /\ ready'[j] = ready[j]
    BY <2>1 DEF Order, OpsBeforeDeliveries
  <2>2. CASE ready'[j].message = m
    BY <1>4, <1>8, <2>2 DEF Order, OpsWait
  <2> QED  BY <1>10, <2>1, <2>2
<1>20. WireInv' /\ DequeEmpty'
  BY <1>1, WireSame DEF Order, DequeEmpty
<1> QED  BY <1>13, <1>14, <1>15, <1>16, <1>17, <1>18, <1>19, <1>20 DEF Order

\* The socket is writable: the first of the waiting writes goes on or begins.
LEMMA WritableTakes ==
  ASSUME TypeOK, TypeOK', Order, Writable, NEW n \in Sendable(Head(ops)),
         Take(Head(ops), n, FALSE), ready' = Append(ready, Handler("step", Head(ops)))
  PROVE  Order'
<1> DEFINE m == Head(ops)
<1>1. /\ ops # << >> /\ taken' = taken /\ accepted' = accepted /\ ops' = Tail(ops)
      /\ deque_write_buffer_' = deque_write_buffer_
      /\ ready' = Append(ready, Handler("step", m))
  BY DEF Writable
<1>2. n \in Sendable(m) /\ Take(m, n, FALSE)
  OBVIOUS
<1>3. /\ m = ops[1] /\ m \in Numbers /\ 1 \in DOMAIN ops
      /\ Len(ops) \in Nat /\ DOMAIN ops = 1 .. Len(ops)
      /\ Len(ops') = Len(ops) - 1
      /\ \A i \in 1 .. Len(ops) - 1 : ops'[i] = ops[i + 1]
  BY <1>1, QueueFacts DEF TypeOK
<1> HIDE DEF m
<1>4. /\ DOMAIN ops' = 1 .. Len(ops')
      /\ Len(ready) \in Nat /\ DOMAIN ready = 1 .. Len(ready)
      /\ DOMAIN ready' = 1 .. Len(ready')
  BY OpsTyped, ReadyTyped DEF TypeOK
<1>5. /\ Len(ready') = Len(ready) + 1
      /\ \A i \in 1 .. Len(ready) : ready'[i] = ready[i]
      /\ ready'[Len(ready) + 1] = Handler("step", m)
  BY <1>1, <1>3, QueueFacts, HandlerTypes DEF TypeOK
<1>6. /\ NowBegun(m)
      /\ \A k \in Numbers : Begun(k) => NowBegun(k)
      /\ \A k \in Numbers : NowBegun(k) => Begun(k) \/ k = m
  BY <1>1, <1>2, <1>3, TakeBegins
<1>7. ASSUME NEW j \in DOMAIN ready'
      PROVE  \/ j \in DOMAIN ready /\ ready'[j] = ready[j]
             \/ ready'[j] = Handler("step", m)
  BY <1>4, <1>5
<1>8. Handler("step", m).type = "step" /\ Handler("step", m).message = m
  BY DEF Handler
<1>9. KeptHandlers(0)
  <2> SUFFICES ASSUME NEW j \in DOMAIN ready'
               PROVE  \/ j + 0 \in DOMAIN ready /\ ready'[j] = ready[j + 0]
                      \/ ready'[j].type = "step" /\ NowBegun(ready'[j].message)
    BY DEF KeptHandlers
  <2>1. j + 0 = j
    BY <1>4
  <2> QED  BY <1>6, <1>7, <1>8, <2>1
<1>10. \A i \in DOMAIN ops' : i + 1 \in DOMAIN ops /\ ops'[i] = ops[i + 1] /\ i + 1 > 1
  BY <1>3, <1>4
<1>11. KeptWaiting(1)
  BY <1>10 DEF KeptWaiting
<1>12. BeginsAtMost(m)
  <2> SUFFICES ASSUME ~Begun(m)
               PROVE  /\ Waits(m)
                      /\ \A i \in DOMAIN ops' : NowBegun(ops'[i]) \/ m < ops'[i]
                      /\ \A j \in DOMAIN ready' : ready'[j] \in Deliveries =>
                                                     m < ready'[j].message
    BY <1>6 DEF BeginsAtMost
  <2>1. Waits(m)
    BY <1>3 DEF Order, OpsWait
  <2>2. ASSUME NEW i \in DOMAIN ops', ~NowBegun(ops'[i]) PROVE m < ops'[i]
    <3>1. i + 1 \in DOMAIN ops /\ ops'[i] = ops[i + 1] /\ i + 1 > 1 /\ ops[i + 1] \in Numbers
      BY <1>10, OpsTyped DEF TypeOK
    <3>2. ~Begun(ops[i + 1])
      BY <1>6, <2>2, <3>1
    <3> QED  BY <1>3, <3>1, <3>2 DEF Order, OpsInOrder
  <2>3. ASSUME NEW j \in DOMAIN ready', ready'[j] \in Deliveries PROVE m < ready'[j].message
    <3>1. j \in DOMAIN ready /\ ready'[j] = ready[j]
      BY <1>7, <1>8, <2>3 DEF Deliveries
    <3> QED  BY <1>3, <2>3, <3>1 DEF Order, OpsBeforeDeliveries
  <2> QED  BY <2>1, <2>2, <2>3
<1>13. Queues'
  BY <1>1, <1>3, <1>9, <1>11, <1>12, QueuesKept
<1>14. Begun(m) \/ Waits(m)
  BY <1>3 DEF Order, OpsWait
<1>15. WireInv'
  BY <1>1, <1>2, <1>3, WireGrows DEF Order
<1>16. DequeEmpty'
  BY <1>1 DEF Order, DequeEmpty
<1> QED  BY <1>13, <1>15, <1>16, OrderParts

\* Or its attempt fails.
LEMMA WritableFails ==
  ASSUME TypeOK, TypeOK', Order, Writable, UNCHANGED << written, own, wire >>,
         ready' = Append(ready, Handler("error", Head(ops)))
  PROVE  Order'
<1> DEFINE h == Handler("error", Head(ops))
<1>1. /\ ops # << >> /\ accepted' = accepted /\ ops' = Tail(ops)
      /\ deque_write_buffer_' = deque_write_buffer_ /\ ready' = Append(ready, h)
  BY DEF Writable
<1>2. /\ Len(ops) \in Nat /\ DOMAIN ops = 1 .. Len(ops) /\ Head(ops) \in Numbers
      /\ Len(ops') = Len(ops) - 1
      /\ \A i \in 1 .. Len(ops) - 1 : ops'[i] = ops[i + 1]
  BY <1>1, QueueFacts DEF TypeOK
<1>3. h \in Handlers /\ h.type = "error"
  BY <1>2, HandlerTypes DEF Handler
<1> HIDE DEF h
<1>4. /\ DOMAIN ops' = 1 .. Len(ops')
      /\ Len(ready) \in Nat /\ DOMAIN ready = 1 .. Len(ready)
      /\ DOMAIN ready' = 1 .. Len(ready')
  BY OpsTyped, ReadyTyped DEF TypeOK
<1>5. /\ Len(ready') = Len(ready) + 1
      /\ \A i \in 1 .. Len(ready) : ready'[i] = ready[i]
      /\ ready'[Len(ready) + 1] = h
  BY <1>1, <1>3, QueueFacts DEF TypeOK
<1>6. KeptHandlers(0)
  <2> SUFFICES ASSUME NEW j \in DOMAIN ready'
               PROVE  \/ j + 0 \in DOMAIN ready /\ ready'[j] = ready[j + 0]
                      \/ ready'[j].type = "error"
    BY DEF KeptHandlers
  <2>1. j + 0 = j /\ (j = Len(ready) + 1 \/ j \in 1 .. Len(ready))
    BY <1>4, <1>5
  <2> QED  BY <1>3, <1>4, <1>5, <2>1
<1>7. KeptWaiting(1)
  <2>1. \A i \in DOMAIN ops' : i + 1 \in DOMAIN ops /\ ops'[i] = ops[i + 1]
    BY <1>2, <1>4
  <2> QED  BY <2>1 DEF KeptWaiting
<1>8. Queues'
  <2>1. BeginsAtMost(0)
    BY NothingBegins
  <2> QED  BY <1>1, <1>6, <1>7, <2>1, QueuesKept
<1>9. WireInv' /\ DequeEmpty'
  BY <1>1, WireSame DEF Order, DequeEmpty
<1> QED  BY <1>8, <1>9, OrderParts

LEMMA WritableOrder ==
  ASSUME TypeOK, TypeOK', Order, Writable
  PROVE  Order'
BY WritableTakes, WritableFails DEF Writable

LEMMA FailOrder ==
  ASSUME TypeOK, TypeOK', Order, NEW why, Fail(why)
  PROVE  Order'
<1>1. /\ ops' = << >> /\ written' = written /\ accepted' = accepted /\ wire' = wire /\ own' = own
      /\ deque_write_buffer_' = deque_write_buffer_
  BY DEF Fail
<1>2. /\ Len(ready) \in Nat /\ DOMAIN ready = 1 .. Len(ready)
      /\ Len(ready') \in Nat /\ DOMAIN ready' = 1 .. Len(ready')
  BY ReadyTyped DEF TypeOK
<1>3. /\ \A i \in 1 .. Len(ready) : ready'[i] = ready[i]
      /\ \A i \in 1 .. Len(ready') : i > Len(ready) => ready'[i].type = "error"
  BY Failing
<1>4. KeptHandlers(0)
  <2> SUFFICES ASSUME NEW j \in DOMAIN ready'
               PROVE  \/ j + 0 \in DOMAIN ready /\ ready'[j] = ready[j + 0]
                      \/ ready'[j].type = "error"
    BY DEF KeptHandlers
  <2>1. j + 0 = j /\ (j > Len(ready) \/ j \in 1 .. Len(ready))
    BY <1>2
  <2> QED  BY <1>2, <1>3, <2>1
<1>5. DOMAIN ops' = {}
  BY <1>1
<1>6. KeptWaiting(0)
  BY <1>5 DEF KeptWaiting
<1>7. Queues'
  <2>1. BeginsAtMost(0)
    BY <1>1, NothingBegins
  <2> QED  BY <1>1, <1>4, <1>6, <2>1, QueuesKept
<1>8. WireInv' /\ DequeEmpty'
  BY <1>1, WireSame DEF Order, DequeEmpty
<1> QED  BY <1>7, <1>8, OrderParts

LEMMA InitOrder == Init => Order
<1> SUFFICES ASSUME Init PROVE Order
  OBVIOUS
<1>1. DOMAIN ready = {} /\ DOMAIN ops = {} /\ DOMAIN wire = {} /\ DequeEmpty
  BY DEF Init, DequeEmpty
<1>2. \A m \in Numbers : ~Begun(m) /\ own[m] = 0
  BY DEF Init, Begun
<1>3. Parts \in Nat \ {0} /\ MaxMessages \in Nat /\ Len(wire) = 0
  BY WriteAssumption DEF Init
<1>4. \A k \in 0 .. MaxMessages : AtOnce(k) => k = 0
  <2> SUFFICES ASSUME NEW k \in 0 .. MaxMessages, AtOnce(k), k # 0 PROVE FALSE
    OBVIOUS
  <2>1. 1 \in 1 .. k /\ 1 \in Numbers
    BY <1>3 DEF Numbers
  <2> QED  BY <1>2, <1>3, <2>1 DEF AtOnce
<1>5. 0 * Parts = 0 /\ 1 .. 0 = {}
  BY <1>3
<1>6. WireInv
  BY <1>1, <1>3, <1>4, <1>5
     DEF WireInv, WireBegun, OwnBytesInOrder, OwnPlaces, Tight, StreamUntilCut, AtOnce
<1> QED  BY <1>1, <1>2, <1>6 DEF Order, StepsBegun, BegunAccepted, OpsWait, DeliveriesWait,
            OpsInOrder, DeliveriesInOrder, OpsBeforeDeliveries

LEMMA StepOrder == TypeOK /\ TypeOK' /\ Order /\ [Next]_vars => Order'
<1> SUFFICES ASSUME TypeOK, TypeOK', Order, [Next]_vars PROVE Order'
  OBVIOUS
<1> USE OrderParts
<1>1. CASE DeliverByte
  BY <1>1, DeliverByteOrder
<1>2. ASSUME NEW m \in Numbers, Delivered(m) PROVE Order'
  <2>1. /\ ready # << >> /\ Head(ready) = Handler("deliver", m)
        /\ taken' = taken /\ accepted' = accepted /\ PushAndWrite(m)
    BY <1>2 DEF Delivered, Runs
  <2>2. DoWriteByte(<< m >>)
    BY <2>1 DEF PushAndWrite, Order, DequeEmpty
  <2>3. Head(<< m >>) = m /\ Tail(<< m >>) = << >>
    OBVIOUS
  <2>4. AsyncWriteSome(m, TRUE) /\ deque_write_buffer_' = << >>
    BY <2>2, <2>3 DEF DoWriteByte
  <2>5. Queues' /\ WireInv'
    BY <2>1, <2>4, AsyncOrder
  <2> QED  BY <2>4, <2>5 DEF DequeEmpty
<1>3. ASSUME NEW m \in Numbers, WriteOn(m) PROVE Order'
  <2>1. /\ ready # << >> /\ Head(ready) = Handler("step", m) /\ AsyncWriteSome(m, FALSE)
        /\ taken' = taken /\ accepted' = accepted
        /\ deque_write_buffer_' = deque_write_buffer_
    BY <1>3 DEF WriteOn, Runs
  <2>2. 1 \in DOMAIN ready /\ ready[1].type = "step" /\ ready[1].message = m
    <3>1. ready \in Seq(Handlers)
      BY DEF TypeOK
    <3>2. /\ Len(ready) >= 1 /\ Len(ready) \in Nat /\ DOMAIN ready = 1 .. Len(ready)
          /\ Head(ready) = ready[1]
      BY <2>1, <3>1, QueueFacts
    <3> QED  BY <2>1, <3>2 DEF Handler
  <2>3. Begun(m)
    BY <2>2 DEF Order, StepsBegun
  <2>4. Queues' /\ WireInv'
    BY <2>1, <2>3, AsyncOrder
  <2> QED  BY <2>1, <2>4 DEF Order, DequeEmpty
<1>4. ASSUME NEW m \in Numbers, WriteHandler(m) \/ WriteErrorHandler(m) PROVE Order'
  <2>1. /\ ready # << >> /\ Return(<< >>) /\ accepted' = accepted
        /\ UNCHANGED << deque_write_buffer_, written, own, ops, wire >>
    BY <1>4 DEF WriteHandler, WriteErrorHandler, Runs, Order, DequeEmpty
  <2>2. KeptHandlers(1)
    BY <2>1, ReturnKeeps
  <2>3. Len(ops) \in Nat /\ DOMAIN ops = 1 .. Len(ops)
    BY OpsTyped DEF TypeOK
  <2>4. KeptWaiting(0)
    BY <2>1, <2>3 DEF KeptWaiting
  <2>5. Queues'
    BY <2>1, <2>2, <2>4, NothingBegins, QueuesKept
  <2> QED  BY <2>1, <2>5, WireSame DEF Order, DequeEmpty
<1>5. ASSUME NEW why \in {"broken", "closed"}, Fail(why) PROVE Order'
  BY <1>5, FailOrder
<1>6. CASE Writable
  BY <1>6, WritableOrder
<1>7. CASE WritableAgain \/ PeerReads \/ UNCHANGED vars
  BY <1>7, OthersOrder DEF WritableAgain, PeerReads, vars
<1> QED  BY <1>1, <1>2, <1>3, <1>4, <1>5, <1>6, <1>7
         DEF Next, IoThread, Disconnect, ConnectionBreaks

LEMMA InvHolds == Spec => [](TypeOK /\ Order)
<1>1. Init => TypeOK /\ Order
  BY InitTypes, InitOrder
<1>2. TypeOK /\ Order /\ [Next]_vars => TypeOK' /\ Order'
  BY StepTypes, StepOrder
<1> QED  BY <1>1, <1>2, PTL DEF Spec

\* The bytes of the messages themselves reach the reader in the order of
\* deliver_byte and each one once, although the session starts writes beside
\* those in progress and goes on with freed buffers.
THEOREM OwnBytesInOrderHolds == Spec => []OwnBytesInOrder
<1>1. TypeOK /\ Order => OwnBytesInOrder
  BY DEF Order, WireInv
<1> QED  BY <1>1, InvHolds, PTL

\* Up to the first write that is cut or has to wait, the wire is the stream of
\* the messages.
THEOREM StreamUntilCutHolds == Spec => []StreamUntilCut
<1>1. TypeOK /\ Order => StreamUntilCut
  BY DEF Order, WireInv
<1> QED  BY <1>1, InvHolds, PTL
=============================================================================
