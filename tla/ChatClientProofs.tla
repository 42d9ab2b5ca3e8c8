-------------------------- MODULE ChatClientProofs --------------------------
(***************************************************************************)
(* Theorems about ChatClient, for any number of frames, updates and pieces *)
(* and whatever fails: one read, one write and one tick at a time, the     *)
(* queue of writes and the stream it makes, the answers of the handshake.  *)
(***************************************************************************)
EXTENDS ChatClient, SequenceTheorems, FiniteSetTheorems, TLAPS

-----------------------------------------------------------------------------
(* The inductive invariant.                                                *)

\* Handlers of which the client never has two queued.
Serial == {"connect", "read", "write", "tick"}
Has(t) == \E i \in DOMAIN ready : ready[i].type = t
One(t) == \A i, j \in DOMAIN ready : ready[i].type = t /\ ready[j].type = t => i = j

\* The chains: connect and then one read after the other, one write of the front
\* after the other, one wait of the timer.
Control ==
    /\ \A t \in Serial : One(t)
    /\ connecting => ~reading /\ ~Has("connect") /\ ~Has("read")
    /\ Has("connect") => ~reading /\ ~Has("read")
    /\ reading => ~Has("read")
    /\ writing => ~Has("write")
    /\ writing \/ Has("write") => deque_write_buffer_ # << >>
    /\ Has("write") \/ deque_write_buffer_ = << >> => written = 0
    /\ waits <= 1

\* Each update stems from a tick, each answer from a frame.
IsUpdate(i) == outbox[i].head = "UPDATE_ACK"
Updates == { i \in DOMAIN outbox : IsUpdate(i) }
Answers == { i \in DOMAIN outbox : ~IsUpdate(i) }
Counting == /\ Cardinality(Updates) + (IF Has("tick") THEN 1 ELSE 0) <= MaxUpdates
            /\ Cardinality(Answers) + (IF Has("read") THEN 1 ELSE 0) <= received

\* f messages have been written and popped.  The deque holds the next ones, the
\* rest is posted; the wire ends within the front of the deque.
Posted(m) == \E i \in DOMAIN ready : ready[i] = Push(m)
Flow(f) == /\ \A i \in DOMAIN deque_write_buffer_ : deque_write_buffer_[i] = f + i
           /\ f + Len(deque_write_buffer_) <= Len(outbox)
           /\ \A m \in Numbers :
                 Posted(m) <=> f + Len(deque_write_buffer_) < m /\ m <= Len(outbox)
           /\ Len(wire) = IF Has("write") THEN f * Parts + Parts ELSE f * Parts + written
PushedInOrder == \A i, j \in DOMAIN ready :
    i < j /\ ready[i].type = "push" /\ ready[j].type = "push" => ready[i].message < ready[j].message
WireIsStream == \A i \in DOMAIN wire : wire[i] = << ((i - 1) \div Parts) + 1, ((i - 1) % Parts) + 1 >>
Stream == (\E f \in Nat : Flow(f)) /\ PushedInOrder /\ WireIsStream

\* How many frames the client has handled.
Handled == IF Has("read") THEN received - 1 ELSE received
InTurn == \A i \in DOMAIN outbox :
    outbox[i] = IF i = 1 THEN [head |-> "HELLO_ACK", id |-> "service_id"]
                ELSE IF i = 2 THEN [head |-> "CREDENTIALS_ACK", id |-> "zero"]
                ELSE [head |-> "UPDATE_ACK", id |-> "participant_id"]
FramesInTurn == \A i \in DOMAIN ready : ready[i].type = "read" =>
    IF received <= 3 THEN received >= 1 /\ ready[i].frame = Opening[received]
    ELSE \A n \in 1 .. 3 : ready[i].frame # Opening[n]
Progress == /\ Handled < 3 => Len(outbox) = Handled /\ waits = 0 /\ ~Has("tick")
            /\ Handled >= 3 => Len(outbox) >= 2 /\ participant_id_ = "participant_id"
Stage == orderly => FramesInTurn /\ Progress /\ InTurn


-----------------------------------------------------------------------------
(* Queues.                                                                 *)

\* A queue by position, and with a handler behind it.
LEMMA QueueFacts ==
  ASSUME NEW S, NEW q \in Seq(S)
  PROVE  /\ Len(q) \in Nat /\ DOMAIN q = 1 .. Len(q)
         /\ \A i \in 1 .. Len(q) : q[i] \in S
         /\ q # << >> => /\ Head(q) = q[1] /\ q[1] \in S /\ Len(q) >= 1
                         /\ Tail(q) \in Seq(S) /\ Len(Tail(q)) = Len(q) - 1
                         /\ \A i \in 1 .. Len(q) - 1 : Tail(q)[i] = q[i + 1]
         /\ \A x \in S : /\ Append(q, x) \in Seq(S) /\ Len(Append(q, x)) = Len(q) + 1
                         /\ \A i \in 1 .. Len(q) : Append(q, x)[i] = q[i]
                         /\ Append(q, x)[Len(q) + 1] = x
<1>1. Len(q) \in Nat /\ DOMAIN q = 1 .. Len(q) /\ \A i \in 1 .. Len(q) : q[i] \in S
  BY LenProperties, ElementOfSeq
<1>2. q # << >> => /\ Head(q) = q[1] /\ Len(q) >= 1
                   /\ Tail(q) \in Seq(S) /\ Len(Tail(q)) = Len(q) - 1
                   /\ \A i \in 1 .. Len(q) - 1 : Tail(q)[i] = q[i + 1]
  BY HeadTailProperties, EmptySeq, <1>1
<1>3. \A x \in S : /\ Append(q, x) \in Seq(S) /\ Len(Append(q, x)) = Len(q) + 1
                   /\ \A i \in 1 .. Len(q) : Append(q, x)[i] = q[i]
                   /\ Append(q, x)[Len(q) + 1] = x
  BY AppendProperties
<1> QED  BY <1>1, <1>2, <1>3

\* What a handler's return leaves in the queue.
LEMMA Returned ==
  ASSUME NEW p \in Seq(Handlers), ready \in Seq(Handlers), ready # << >>, Return(p)
  PROVE  /\ ready' \in Seq(Handlers) /\ Len(ready') = Len(ready) - 1 + Len(p)
         /\ \A i \in 1 .. Len(ready) - 1 : ready'[i] = ready[i + 1]
         /\ \A i \in 1 .. Len(p) : ready'[Len(ready) - 1 + i] = p[i]
<1> DEFINE T == Tail(ready)
<1>1. /\ T \in Seq(Handlers) /\ Len(T) = Len(ready) - 1 /\ Len(ready) \in Nat
      /\ \A i \in 1 .. Len(ready) - 1 : T[i] = ready[i + 1]
      /\ Len(p) \in Nat /\ Len(ready) >= 1
  BY QueueFacts
<1>2. ready' = T \o p
  BY DEF Return
<1> HIDE DEF T
<1>3. /\ ready' \in Seq(Handlers) /\ Len(ready') = Len(T) + Len(p)
      /\ \A i \in 1 .. Len(T) + Len(p) :
            ready'[i] = IF i <= Len(T) THEN T[i] ELSE p[i - Len(T)]
  BY <1>1, <1>2, ConcatProperties
<1>4. ASSUME NEW i \in 1 .. Len(ready) - 1 PROVE ready'[i] = ready[i + 1]
  <2>1. i \in 1 .. Len(T) + Len(p) /\ i <= Len(T) /\ T[i] = ready[i + 1]
    BY <1>1
  <2> QED  BY <1>3, <2>1
<1>5. ASSUME NEW i \in 1 .. Len(p) PROVE ready'[Len(ready) - 1 + i] = p[i]
  <2>1. /\ Len(T) + i \in 1 .. Len(T) + Len(p) /\ ~(Len(T) + i <= Len(T))
        /\ (Len(T) + i) - Len(T) = i
    BY <1>1
  <2> QED  BY <1>1, <1>3, <2>1
<1> QED  BY <1>1, <1>3, <1>4, <1>5

\* The handler that runs is taken off; what it posts is of no serial type.
Plain(p) == p \in Seq(Handlers) /\ \A k \in DOMAIN p : p[k].type \notin Serial

LEMMA RunKeeps ==
  ASSUME ready \in Seq(Handlers), NEW h, Runs(h), NEW p, Plain(p), Return(p),
         NEW t \in Serial, One(t)
  PROVE  One(t)' /\ (Has(t)' <=> Has(t) /\ h.type # t)
<1>1. /\ p \in Seq(Handlers) /\ Len(p) \in Nat /\ DOMAIN p = 1 .. Len(p)
      /\ ready # << >> /\ ready[1] = h /\ Len(ready) \in Nat /\ Len(ready) >= 1
      /\ DOMAIN ready = 1 .. Len(ready)
  BY QueueFacts DEF Plain, Runs
<1>2. /\ ready' \in Seq(Handlers) /\ Len(ready') = Len(ready) - 1 + Len(p)
      /\ \A i \in 1 .. Len(ready) - 1 : ready'[i] = ready[i + 1]
      /\ \A i \in 1 .. Len(p) : ready'[Len(ready) - 1 + i] = p[i]
  BY <1>1, Returned
<1>3. DOMAIN ready' = 1 .. Len(ready) - 1 + Len(p)
  BY <1>2, LenProperties
<1>4. ASSUME NEW i \in DOMAIN ready', ready'[i].type = t
      PROVE  i \in 1 .. Len(ready) - 1 /\ ready'[i] = ready[i + 1]
  <2>1. CASE i <= Len(ready) - 1
    BY <1>1, <1>2, <1>3, <2>1
  <2>2. CASE ~(i <= Len(ready) - 1)
    <3> DEFINE k == i - (Len(ready) - 1)
    <3>1. k \in 1 .. Len(p) /\ Len(ready) - 1 + k = i
      BY <1>1, <1>3, <2>2
    <3> HIDE DEF k
    <3>2. ready'[i] = p[k]
      BY <1>2, <3>1
    <3>3. p[k].type \notin Serial
      BY <1>1, <3>1 DEF Plain
    <3> QED  BY <1>4, <3>2, <3>3
  <2> QED  BY <2>1, <2>2
<1>5. One(t)'
  <2> SUFFICES ASSUME NEW i \in DOMAIN ready', NEW j \in DOMAIN ready',
                      ready'[i].type = t, ready'[j].type = t
               PROVE  i = j
    BY DEF One
  <2>1. /\ i + 1 \in DOMAIN ready /\ ready[i + 1].type = t
        /\ j + 1 \in DOMAIN ready /\ ready[j + 1].type = t
        /\ i \in Int /\ j \in Int
    BY <1>1, <1>4
  <2>2. i + 1 = j + 1
    BY <2>1 DEF One
  <2> QED  BY <2>1, <2>2
<1>6. ASSUME Has(t)' PROVE Has(t) /\ h.type # t
  <2>1. PICK i \in DOMAIN ready' : ready'[i].type = t
    BY <1>6 DEF Has
  <2>2. i + 1 \in DOMAIN ready /\ ready[i + 1].type = t /\ i + 1 # 1 /\ 1 \in DOMAIN ready
    BY <1>1, <1>4, <2>1
  <2> QED  BY <1>1, <2>2 DEF Has, One
<1>7. ASSUME Has(t), h.type # t PROVE Has(t)'
  <2>1. PICK i \in DOMAIN ready : ready[i].type = t
    BY <1>7 DEF Has
  <2>2. i - 1 \in 1 .. Len(ready) - 1 /\ (i - 1) + 1 = i
    BY <1>1, <1>7, <2>1
  <2>3. ready'[i - 1] = ready[(i - 1) + 1] /\ i - 1 \in DOMAIN ready'
    BY <1>1, <1>2, <1>3, <2>2
  <2> QED  BY <2>1, <2>2, <2>3 DEF Has
<1> QED  BY <1>5, <1>6, <1>7

LEMMA AppendKeeps ==
  ASSUME ready \in Seq(Handlers), NEW h \in Handlers, ready' = Append(ready, h),
         h.type \in Serial => ~Has(h.type), NEW t \in Serial, One(t)
  PROVE  One(t)' /\ (Has(t)' <=> Has(t) \/ h.type = t)
<1>1. /\ Len(ready) \in Nat /\ DOMAIN ready = 1 .. Len(ready)
      /\ ready' \in Seq(Handlers) /\ Len(ready') = Len(ready) + 1
      /\ \A i \in 1 .. Len(ready) : ready'[i] = ready[i]
      /\ ready'[Len(ready) + 1] = h
  BY QueueFacts
<1>2. DOMAIN ready' = 1 .. Len(ready) + 1
  BY <1>1, LenProperties
<1>3. ASSUME NEW i \in DOMAIN ready'
      PROVE  \/ i \in DOMAIN ready /\ ready'[i] = ready[i]
             \/ i = Len(ready) + 1 /\ ready'[i] = h
  BY <1>1, <1>2
<1>4. One(t)'
  <2> SUFFICES ASSUME NEW i \in DOMAIN ready', NEW j \in DOMAIN ready',
                      ready'[i].type = t, ready'[j].type = t
               PROVE  i = j
    BY DEF One
  <2>1. CASE Has(t)
    BY <1>3, <2>1 DEF One
  <2>2. CASE ~Has(t)
    BY <1>3, <2>2 DEF Has
  <2> QED  BY <2>1, <2>2
<1>5. Has(t)' => Has(t) \/ h.type = t
  BY <1>3 DEF Has
<1>6. ASSUME Has(t) PROVE Has(t)'
  <2>1. PICK i \in DOMAIN ready : ready[i].type = t
    BY <1>6 DEF Has
  <2>2. i \in DOMAIN ready' /\ ready'[i] = ready[i]
    BY <1>1, <1>2, <2>1
  <2> QED  BY <2>1, <2>2 DEF Has
<1>7. ASSUME h.type = t PROVE Has(t)'
  <2>1. Len(ready) + 1 \in DOMAIN ready' /\ ready'[Len(ready) + 1] = h
    BY <1>1, <1>2
  <2> QED  BY <1>7, <2>1 DEF Has
<1> QED  BY <1>4, <1>5, <1>6, <1>7

\* What the handlers are.
DoTypes == { "connect", "connect_error", "read_error", "write", "write_error",
             "tick", "tick_aborted", "close" }

LEMMA HandlerFacts ==
  /\ \A t \in DoTypes : Do(t) \in Handlers /\ Do(t).type = t
  /\ \A f \in Frames : Read(f) \in Handlers
  /\ \A f : Read(f).type = "read" /\ Read(f).frame = f
  /\ \A m \in Numbers : Push(m) \in Handlers
  /\ \A m : Push(m).type = "push" /\ Push(m).message = m
  /\ \A h \in Handlers : /\ h.type = "push" => h.message \in Numbers /\ h = Push(h.message)
                         /\ h.type = "read" => h.frame \in Frames /\ h = Read(h.frame)
<1>1. \A t \in DoTypes : Do(t) \in Handlers /\ Do(t).type = t
  BY DEF DoTypes, Do, Handlers
<1>2. /\ \A f \in Frames : Read(f) \in Handlers
      /\ \A f : Read(f).type = "read" /\ Read(f).frame = f
  BY DEF Read, Handlers
<1>3. /\ \A m \in Numbers : Push(m) \in Handlers
      /\ \A m : Push(m).type = "push" /\ Push(m).message = m
  BY DEF Push, Handlers
<1>4. ASSUME NEW h \in Handlers, h.type = "push" PROVE h.message \in Numbers /\ h = Push(h.message)
  BY <1>4 DEF Handlers, Push
<1>5. ASSUME NEW h \in Handlers, h.type = "read" PROVE h.frame \in Frames /\ h = Read(h.frame)
  BY <1>5 DEF Handlers, Read
<1> QED  BY <1>1, <1>2, <1>3, <1>4, <1>5

\* A handler h ran and posted handlers of no serial type, among them one push of
\* each message of M.
Posts(p, M) == /\ Plain(p)
               /\ \A k \in DOMAIN p : p[k].type = "push" => p[k].message \in M
               /\ \A m \in M : \E k \in DOMAIN p : p[k] = Push(m)
               /\ \A k, l \in DOMAIN p : p[k].type = "push" /\ p[l].type = "push" => k = l
Ran(h, M) == Runs(h) /\ \E p : Posts(p, M) /\ Return(p)

LEMMA RanKeeps ==
  ASSUME ready \in Seq(Handlers), NEW h, NEW M, Ran(h, M), NEW t \in Serial, One(t)
  PROVE  One(t)' /\ (Has(t)' <=> Has(t) /\ h.type # t)
BY RunKeeps DEF Ran, Posts

LEMMA RanTypes ==
  ASSUME ready \in Seq(Handlers), NEW h, NEW M, Ran(h, M)
  PROVE  ready' \in Seq(Handlers)
BY Returned DEF Ran, Posts, Plain, Runs

LEMMA PostsNone == Posts(<< >>, {})
<1> DEFINE p == << >>
<1>1. p \in Seq(Handlers) /\ DOMAIN p = {}
  BY EmptySeq
<1> HIDE DEF p
<1>2. Posts(p, {})
  BY <1>1 DEF Posts, Plain
<1> QED  BY <1>2 DEF p

LEMMA PostsClose == Posts(<< Do("close") >>, {})
<1> DEFINE h == Do("close")
           p == << h >>
<1>1. h \in Handlers /\ h.type = "close"
  BY HandlerFacts DEF DoTypes
<1> HIDE DEF h
<1>2. p \in Seq(Handlers) /\ DOMAIN p = {1} /\ p[1] = h
  BY <1>1
<1> HIDE DEF p
<1>3. Posts(p, {})
  BY <1>1, <1>2 DEF Posts, Plain, Serial
<1> QED  BY <1>3 DEF p, h

LEMMA PostsPush ==
  ASSUME NEW m \in Numbers
  PROVE  Posts(<< Push(m) >>, {m})
<1> DEFINE h == Push(m)
           p == << h >>
<1>1. h \in Handlers /\ h.type = "push" /\ h.message = m
  BY HandlerFacts
<1>2. \A k \in {m} : Push(k) = h
  OBVIOUS
<1> HIDE DEF h
<1>3. p \in Seq(Handlers) /\ DOMAIN p = {1} /\ p[1] = h
  BY <1>1
<1> HIDE DEF p
<1>4. Posts(p, {m})
  BY <1>1, <1>2, <1>3 DEF Posts, Plain, Serial
<1> QED  BY <1>4 DEF p, h

\* The aborted wait is posted behind.
LEMMA BeginUpdateRan ==
  ASSUME waits \in Nat, NEW q, NEW M, Posts(q, M), BeginUpdate(q), NEW h, Runs(h)
  PROVE  Ran(h, M) /\ waits' = 1
<1> DEFINE a == [i \in 1 .. waits |-> Do("tick_aborted")]
           p == q \o a
<1>1. Do("tick_aborted") \in Handlers /\ Do("tick_aborted").type = "tick_aborted"
  BY HandlerFacts DEF DoTypes
<1>2. a \in [1 .. waits -> Handlers]
  BY <1>1
<1>3. a \in Seq(Handlers) /\ DOMAIN a = 1 .. waits /\ \A i \in 1 .. waits : a[i].type = "tick_aborted"
  BY <1>1, <1>2, SeqDef
<1>4. Return(p) /\ waits' = 1
  BY DEF BeginUpdate
<1>5. q \in Seq(Handlers) /\ DOMAIN q = 1 .. Len(q) /\ Len(q) \in Nat
  BY LenProperties DEF Posts, Plain
<1> HIDE DEF a
<1>6. Len(a) \in Nat /\ DOMAIN a = 1 .. Len(a)
  BY <1>3, LenProperties
<1>7. /\ p \in Seq(Handlers) /\ Len(p) = Len(q) + Len(a)
      /\ \A i \in 1 .. Len(q) + Len(a) : p[i] = IF i <= Len(q) THEN q[i] ELSE a[i - Len(q)]
  BY <1>3, <1>5, ConcatProperties
<1> HIDE DEF p
<1>8. DOMAIN p = 1 .. Len(q) + Len(a)
  BY <1>7, LenProperties
<1>9. ASSUME NEW i \in DOMAIN p
      PROVE  (i \in DOMAIN q /\ p[i] = q[i]) \/ p[i].type = "tick_aborted"
  <2>1. CASE i <= Len(q)
    BY <1>5, <1>6, <1>7, <1>8, <2>1
  <2>2. CASE ~(i <= Len(q))
    <3>1. i - Len(q) \in 1 .. Len(a) /\ p[i] = a[i - Len(q)]
      BY <1>5, <1>6, <1>7, <1>8, <2>2
    <3> QED  BY <1>3, <1>6, <3>1
  <2> QED  BY <2>1, <2>2
<1>10. \A i \in DOMAIN q : i \in DOMAIN p /\ p[i] = q[i]
  BY <1>5, <1>6, <1>7, <1>8
<1>11. Plain(p)
  BY <1>7, <1>9 DEF Posts, Plain, Serial
<1>12. \A k \in DOMAIN p : p[k].type = "push" => p[k].message \in M
  BY <1>9 DEF Posts
<1>13. \A m \in M : \E k \in DOMAIN p : p[k] = Push(m)
  BY <1>10 DEF Posts
<1>14. \A k, l \in DOMAIN p : p[k].type = "push" /\ p[l].type = "push" => k = l
  BY <1>9 DEF Posts
<1>15. Posts(p, M)
  BY <1>11, <1>12, <1>13, <1>14 DEF Posts
<1> QED  BY <1>4, <1>15 DEF Ran

-----------------------------------------------------------------------------
(* The messages handed over, and their number.                             *)

LEMMA Counts ==
  ASSUME outbox \in Seq(Messages)
  PROVE  /\ IsFiniteSet(Updates) /\ Cardinality(Updates) \in Nat
         /\ IsFiniteSet(Answers) /\ Cardinality(Answers) \in Nat
         /\ Len(outbox) = Cardinality(Updates) + Cardinality(Answers)
<1>1. Len(outbox) \in Nat /\ DOMAIN outbox = 1 .. Len(outbox)
  BY LenProperties
<1>2. IsFiniteSet(1 .. Len(outbox)) /\ Cardinality(1 .. Len(outbox)) = Len(outbox)
  BY <1>1, FS_Interval
<1>3. Updates \in SUBSET (1 .. Len(outbox)) /\ Answers \in SUBSET (1 .. Len(outbox))
  BY <1>1 DEF Updates, Answers
<1>4. Updates \cup Answers = 1 .. Len(outbox) /\ Updates \cap Answers = {}
  BY <1>1 DEF Updates, Answers
<1>5. IsFiniteSet(Updates) /\ IsFiniteSet(Answers)
  BY <1>2, <1>3, FS_Subset
<1>6. Cardinality(Updates) \in Nat /\ Cardinality(Answers) \in Nat
  BY <1>5, FS_CardinalityType
<1>7. Cardinality(Updates \cup Answers)
         = Cardinality(Updates) + Cardinality(Answers) - Cardinality(Updates \cap Answers)
  BY <1>5, FS_Union
<1>8. Cardinality(Updates \cap Answers) = 0
  BY <1>4, FS_EmptySet
<1>9. Cardinality(Updates \cup Answers) = Len(outbox)
  BY <1>2, <1>4
<1>10. Len(outbox) = Cardinality(Updates) + Cardinality(Answers)
  BY <1>1, <1>6, <1>7, <1>8, <1>9
<1> QED  BY <1>5, <1>6, <1>10

LEMMA OutboxGrows ==
  ASSUME outbox \in Seq(Messages), NEW head, NEW id,
         [head |-> head, id |-> id] \in Messages, WriteByte(head, id)
  PROVE  /\ outbox' \in Seq(Messages) /\ Len(outbox') = Len(outbox) + 1
         /\ \A i \in 1 .. Len(outbox) : outbox'[i] = outbox[i]
         /\ outbox'[Len(outbox) + 1] = [head |-> head, id |-> id]
         /\ DOMAIN outbox' = 1 .. Len(outbox) + 1 /\ Len(outbox) \in Nat
BY QueueFacts, LenProperties DEF WriteByte

LEMMA UpdateCounted ==
  ASSUME outbox \in Seq(Messages), NEW id,
         [head |-> "UPDATE_ACK", id |-> id] \in Messages, WriteByte("UPDATE_ACK", id)
  PROVE  /\ Cardinality(Updates)' = Cardinality(Updates) + 1
         /\ Cardinality(Answers)' = Cardinality(Answers)
<1>1. /\ Len(outbox) \in Nat /\ DOMAIN outbox = 1 .. Len(outbox)
      /\ \A i \in 1 .. Len(outbox) : outbox'[i] = outbox[i]
      /\ outbox'[Len(outbox) + 1] = [head |-> "UPDATE_ACK", id |-> id]
      /\ DOMAIN outbox' = 1 .. Len(outbox) + 1
  BY OutboxGrows, LenProperties
<1>2. outbox'[Len(outbox) + 1].head = "UPDATE_ACK" /\ Len(outbox) + 1 \notin DOMAIN outbox
  BY <1>1
<1>3. DOMAIN outbox' = DOMAIN outbox \cup {Len(outbox) + 1}
  BY <1>1
<1>4. Updates' = Updates \cup {Len(outbox) + 1} /\ Len(outbox) + 1 \notin Updates
  BY <1>1, <1>2, <1>3 DEF Updates, IsUpdate
<1>5. Answers' = Answers
  BY <1>1, <1>2, <1>3 DEF Answers, IsUpdate
<1> QED  BY <1>4, <1>5, Counts, FS_AddElement

LEMMA AnswerCounted ==
  ASSUME outbox \in Seq(Messages), NEW head, NEW id, head # "UPDATE_ACK",
         [head |-> head, id |-> id] \in Messages, WriteByte(head, id)
  PROVE  /\ Cardinality(Updates)' = Cardinality(Updates)
         /\ Cardinality(Answers)' = Cardinality(Answers) + 1
<1>1. /\ Len(outbox) \in Nat /\ DOMAIN outbox = 1 .. Len(outbox)
      /\ \A i \in 1 .. Len(outbox) : outbox'[i] = outbox[i]
      /\ outbox'[Len(outbox) + 1] = [head |-> head, id |-> id]
      /\ DOMAIN outbox' = 1 .. Len(outbox) + 1
  BY OutboxGrows, LenProperties
<1>2. outbox'[Len(outbox) + 1].head # "UPDATE_ACK" /\ Len(outbox) + 1 \notin DOMAIN outbox
  BY <1>1
<1>3. DOMAIN outbox' = DOMAIN outbox \cup {Len(outbox) + 1}
  BY <1>1
<1>4. Answers' = Answers \cup {Len(outbox) + 1} /\ Len(outbox) + 1 \notin Answers
  BY <1>1, <1>2, <1>3 DEF Answers, IsUpdate
<1>5. Updates' = Updates
  BY <1>1, <1>2, <1>3 DEF Updates, IsUpdate
<1> QED  BY <1>4, <1>5, Counts, FS_AddElement

\* There is room for the message that a frame or a tick makes.
LEMMA Room ==
  ASSUME TypeOK, Counting
  PROVE  /\ Len(outbox) \in Nat /\ Len(outbox) <= MaxMessages
         /\ Has("read") \/ Has("tick") => Len(outbox) + 1 \in Numbers
<1>1. /\ Cardinality(Updates) \in Nat /\ Cardinality(Answers) \in Nat
      /\ Len(outbox) = Cardinality(Updates) + Cardinality(Answers)
  BY Counts DEF TypeOK
<1>2. ServerFrames \in Nat /\ MaxUpdates \in Nat /\ received \in Nat /\ received <= ServerFrames
  BY ChatAssumption DEF TypeOK
<1> QED  BY <1>1, <1>2 DEF Counting, Numbers, MaxMessages

-----------------------------------------------------------------------------
(* What each handler takes off the queue and posts.                        *)

LEMMA MessageTypes ==
  /\ [head |-> "HELLO_ACK", id |-> "service_id"] \in Messages
  /\ [head |-> "CREDENTIALS_ACK", id |-> "zero"] \in Messages
  /\ \A n \in Names : [head |-> "UPDATE_ACK", id |-> n] \in Messages
BY DEF Messages, Names

LEMMA RunsIn ==
  ASSUME ready \in Seq(Handlers), NEW h, Runs(h)
  PROVE  h \in Handlers /\ 1 \in DOMAIN ready /\ ready[1] = h /\ Has(h.type)
BY QueueFacts DEF Runs, Has

\* A handler that posts nothing.
LEMMA QuietRan ==
  ASSUME NEW h, Runs(h), Return(<< >>)
  PROVE  Ran(h, {})
BY PostsNone DEF Ran

LEMMA ConnectedRan == Connected => Ran(Do("connect"), {})
  BY QuietRan DEF Connected
LEMMA PrintedRan == Printed => \E f \in { "PARTICIPANT_NEW", "PARTICIPANT_UPDATE_ACK", "PARTICIPANT_LEAVE" } : Ran(Read(f), {})
  BY QuietRan DEF Printed
LEMMA CloseRan == Close => Ran(Do("close"), {})
  BY QuietRan DEF Close
LEMMA TickAbortedRan == TickAborted => Ran(Do("tick_aborted"), {})
  BY QuietRan DEF TickAborted
LEMMA WriteHandlerRan == WriteHandler => Ran(Do("write"), {})
  BY QuietRan DEF WriteHandler
LEMMA FailsRan == Fails => \E t \in { "connect_error", "read_error", "write_error" } : Ran(Do(t), {})
  BY PostsClose DEF Fails, Ran
LEMMA JoinRan ==
  ASSUME TypeOK, Join
  PROVE  Ran(Read("PARTICIPANT_JOIN"), {}) /\ waits' = 1
BY BeginUpdateRan, PostsNone DEF Join, TypeOK

LEMMA HelloRan ==
  ASSUME TypeOK, Counting, Hello
  PROVE  Ran(Read("HANDSHAKE_HELLO"), {Len(outbox) + 1}) /\ Len(outbox) + 1 \in Numbers
<1>1. Runs(Read("HANDSHAKE_HELLO")) /\ Return(<< Written >>)
  BY DEF Hello
<1>2. Has("read")
  BY <1>1, RunsIn, HandlerFacts DEF TypeOK
<1>3. Len(outbox) + 1 \in Numbers
  BY <1>2, Room
<1> QED  BY <1>1, <1>3, PostsPush DEF Ran, Written

LEMMA CredentialsRan ==
  ASSUME TypeOK, Counting, Credentials
  PROVE  Ran(Read("HANDSHAKE_CREDENTIALS"), {Len(outbox) + 1}) /\ Len(outbox) + 1 \in Numbers
<1>1. Runs(Read("HANDSHAKE_CREDENTIALS")) /\ Return(<< Written >>)
  BY DEF Credentials
<1>2. Has("read")
  BY <1>1, RunsIn, HandlerFacts DEF TypeOK
<1>3. Len(outbox) + 1 \in Numbers
  BY <1>2, Room
<1> QED  BY <1>1, <1>3, PostsPush DEF Ran, Written

LEMMA TickRan ==
  ASSUME TypeOK, Counting, Tick
  PROVE  Ran(Do("tick"), {Len(outbox) + 1}) /\ Len(outbox) + 1 \in Numbers /\ waits' = 1
<1>1. Runs(Do("tick")) /\ BeginUpdate(<< Written >>)
  BY DEF Tick
<1>2. Has("tick")
  BY <1>1, RunsIn, HandlerFacts DEF TypeOK, DoTypes
<1>3. Len(outbox) + 1 \in Numbers
  BY <1>2, Room
<1>4. Posts(<< Written >>, {Len(outbox) + 1})
  BY <1>3, PostsPush DEF Written
<1> QED  BY <1>1, <1>3, <1>4, BeginUpdateRan DEF TypeOK

-----------------------------------------------------------------------------
(* Type correctness, the chains and the counts.                            *)

PlainTypes == /\ orderly \in BOOLEAN /\ main \in { "typing", "joining", "done" } /\ running \in BOOLEAN
              /\ connecting \in BOOLEAN /\ sock \in { "unconnected", "open", "closed" }
              /\ broken \in BOOLEAN /\ received \in 0 .. ServerFrames /\ reading \in BOOLEAN
              /\ waits \in Nat /\ participant_id_ \in Names
WriteTypes == /\ deque_write_buffer_ \in Seq(Numbers) /\ writing \in BOOLEAN
              /\ written \in 0 .. Parts - 1 /\ wire \in Seq(Numbers \X (1 .. Parts))
QueueTypes == ready \in Seq(Handlers) /\ outbox \in Seq(Messages)

LEMMA TypeParts == TypeOK <=> PlainTypes /\ WriteTypes /\ QueueTypes
  BY DEF TypeOK, PlainTypes, WriteTypes, QueueTypes
LEMMA NextTypeParts == TypeOK' <=> PlainTypes' /\ WriteTypes' /\ QueueTypes'
  BY DEF TypeOK, PlainTypes, WriteTypes, QueueTypes

\* The serial types one by one.
OneOfEach == \A t \in Serial : One(t)
Drops(type) == /\ OneOfEach'
               /\ Has("connect")' <=> Has("connect") /\ type # "connect"
               /\ Has("read")' <=> Has("read") /\ type # "read"
               /\ Has("write")' <=> Has("write") /\ type # "write"
               /\ Has("tick")' <=> Has("tick") /\ type # "tick"
Adds(type) == /\ OneOfEach'
              /\ Has("connect")' <=> Has("connect") \/ type = "connect"
              /\ Has("read")' <=> Has("read") \/ type = "read"
              /\ Has("write")' <=> Has("write") \/ type = "write"
              /\ Has("tick")' <=> Has("tick") \/ type = "tick"

LEMMA RanDrops ==
  ASSUME ready \in Seq(Handlers), OneOfEach, NEW h, NEW M, Ran(h, M)
  PROVE  Drops(h.type) /\ Has(h.type) /\ ready' \in Seq(Handlers)
<1>1. \A t \in Serial : One(t)' /\ (Has(t)' <=> Has(t) /\ h.type # t)
  BY RanKeeps DEF OneOfEach
<1>2. Drops(h.type)
  BY <1>1 DEF Drops, OneOfEach, Serial
<1>3. Has(h.type)
  BY RunsIn DEF Ran
<1> QED  BY <1>2, <1>3, RanTypes

LEMMA AppendAdds ==
  ASSUME ready \in Seq(Handlers), OneOfEach, NEW h \in Handlers, ready' = Append(ready, h),
         h.type \in Serial => ~Has(h.type)
  PROVE  Adds(h.type) /\ ready' \in Seq(Handlers)
<1>1. \A t \in Serial : One(t)' /\ (Has(t)' <=> Has(t) \/ h.type = t)
  BY AppendKeeps DEF OneOfEach
<1>2. Adds(h.type)
  BY <1>1 DEF Adds, OneOfEach, Serial
<1> QED  BY <1>2, AppendProperties

LEMMA QueueSame ==
  ASSUME ready' = ready, OneOfEach
  PROVE  Drops("none")
BY DEF Drops, OneOfEach, One, Has, Serial

\* Control without the names of the handlers.
LEMMA ControlParts ==
  Control <=> /\ OneOfEach
              /\ connecting => ~reading /\ ~Has("connect") /\ ~Has("read")
              /\ Has("connect") => ~reading /\ ~Has("read")
              /\ reading => ~Has("read")
              /\ writing => ~Has("write")
              /\ writing \/ Has("write") => deque_write_buffer_ # << >>
              /\ Has("write") \/ deque_write_buffer_ = << >> => written = 0
              /\ waits <= 1
BY DEF Control, OneOfEach
LEMMA NextControlParts ==
  Control' <=> /\ OneOfEach'
               /\ connecting' => ~reading' /\ ~Has("connect")' /\ ~Has("read")'
               /\ Has("connect")' => ~reading' /\ ~Has("read")'
               /\ reading' => ~Has("read")'
               /\ writing' => ~Has("write")'
               /\ writing' \/ Has("write")' => deque_write_buffer_' # << >>
               /\ Has("write")' \/ deque_write_buffer_' = << >> => written' = 0
               /\ waits' <= 1
BY DEF Control, OneOfEach

Kept == TypeOK' /\ Control' /\ Counting'

\* A step that hands nothing over keeps the counts, if it queues no tick and no frame.
LEMMA CountingSame ==
  ASSUME Counting, TypeOK, outbox' = outbox, received' = received,
         Has("tick")' => Has("tick"), Has("read")' => Has("read")
  PROVE  Counting'
<1>1. Updates' = Updates /\ Answers' = Answers
  BY DEF Updates, Answers, IsUpdate
<1>2. Cardinality(Updates) \in Nat /\ Cardinality(Answers) \in Nat
  BY Counts DEF TypeOK
<1>3. received \in Nat /\ MaxUpdates \in Nat
  BY ChatAssumption DEF TypeOK
<1> QED  BY <1>1, <1>2, <1>3 DEF Counting

\* The handlers that hand nothing over.
LEMMA KeepsConnected ==
  ASSUME TypeOK, Control, Counting, Connected
  PROVE  Kept
<1> USE TypeParts, NextTypeParts, ControlParts, NextControlParts
<1>1. Drops("connect") /\ Has("connect") /\ ready' \in Seq(Handlers)
  BY ConnectedRan, RanDrops, HandlerFacts DEF QueueTypes, DoTypes
<1>2. /\ reading' = TRUE
      /\ UNCHANGED << orderly, main, running, connecting, sock, broken, received,
                      deque_write_buffer_, writing, written, wire, waits, participant_id_, outbox >>
  BY DEF Connected, writeVars
<1>3. Counting'
  BY <1>1, <1>2, CountingSame DEF Drops
<1>4. Control'
  BY <1>1, <1>2 DEF Drops
<1>5. TypeOK'
  BY <1>1, <1>2 DEF PlainTypes, WriteTypes, QueueTypes
<1> QED  BY <1>3, <1>4, <1>5 DEF Kept

LEMMA KeepsJoin ==
  ASSUME TypeOK, Control, Counting, Join \/ Printed
  PROVE  Kept
<1> USE TypeParts, NextTypeParts, ControlParts, NextControlParts
<1>1. (\E f : Ran(Read(f), {})) /\ waits' \in {waits, 1}
  BY JoinRan, PrintedRan DEF Printed
<1>2. Drops("read") /\ Has("read") /\ ready' \in Seq(Handlers)
  BY <1>1, RanDrops, HandlerFacts DEF QueueTypes
<1>3. /\ reading' = TRUE /\ participant_id_' \in {participant_id_, "participant_id"}
      /\ UNCHANGED << orderly, main, running, connecting, sock, broken, received,
                      deque_write_buffer_, writing, written, wire, outbox >>
  BY DEF Join, Printed, writeVars
<1>4. Counting'
  BY <1>2, <1>3, CountingSame DEF Drops
<1>5. Control'
  BY <1>1, <1>2, <1>3 DEF Drops
<1>6. TypeOK'
  BY <1>1, <1>2, <1>3 DEF PlainTypes, WriteTypes, QueueTypes, Names
<1> QED  BY <1>4, <1>5, <1>6 DEF Kept

LEMMA KeepsClose ==
  ASSUME TypeOK, Control, Counting, Close \/ Fails \/ TickAborted
  PROVE  Kept
<1> USE TypeParts, NextTypeParts, ControlParts, NextControlParts
<1>1. \E t \in DoTypes \ Serial : Ran(Do(t), {})
  BY CloseRan, FailsRan, TickAbortedRan DEF DoTypes, Serial
<1>2. PICK t \in DoTypes \ Serial : Drops(t) /\ ready' \in Seq(Handlers)
  BY <1>1, RanDrops, HandlerFacts DEF QueueTypes
<1>3. Drops("none")
  BY <1>2 DEF Drops, Serial
<1>4. /\ sock' \in {sock, "closed"}
      /\ UNCHANGED << orderly, main, running, connecting, broken, received, reading, waits,
                      deque_write_buffer_, writing, written, wire, participant_id_, outbox >>
  BY DEF Close, Fails, TickAborted, writeVars, netVars
<1>5. Counting'
  BY <1>3, <1>4, CountingSame DEF Drops
<1>6. Control'
  BY <1>3, <1>4 DEF Drops
<1>7. TypeOK'
  BY <1>2, <1>4 DEF PlainTypes, WriteTypes, QueueTypes
<1> QED  BY <1>5, <1>6, <1>7 DEF Kept

LEMMA KeepsWriteHandler ==
  ASSUME TypeOK, Control, Counting, WriteHandler
  PROVE  Kept
<1> USE TypeParts, NextTypeParts, ControlParts, NextControlParts
<1>1. Drops("write") /\ Has("write") /\ ready' \in Seq(Handlers)
  BY WriteHandlerRan, RanDrops, HandlerFacts DEF QueueTypes, DoTypes
<1>2. /\ deque_write_buffer_' = Tail(deque_write_buffer_)
      /\ writing' = (Tail(deque_write_buffer_) # << >>)
      /\ UNCHANGED << orderly, main, running, connecting, sock, broken, received, reading, waits,
                      written, wire, participant_id_, outbox >>
  BY DEF WriteHandler, netVars
<1>3. Counting'
  BY <1>1, <1>2, CountingSame DEF Drops
<1>4. Control'
  BY <1>1, <1>2 DEF Drops
<1>5. deque_write_buffer_' \in Seq(Numbers)
  BY <1>1, <1>2, HeadTailProperties DEF WriteTypes
<1>6. TypeOK'
  BY <1>1, <1>2, <1>5 DEF PlainTypes, WriteTypes, QueueTypes
<1> QED  BY <1>3, <1>4, <1>6 DEF Kept

LEMMA KeepsPushed ==
  ASSUME TypeOK, Control, Counting, Pushed
  PROVE  Kept
<1> USE TypeParts, NextTypeParts, ControlParts, NextControlParts
<1>1. PICK m \in Numbers :
         /\ Runs(Push(m)) /\ Return(<< >>)
         /\ deque_write_buffer_' = Append(deque_write_buffer_, m)
         /\ writing' = (writing \/ deque_write_buffer_ = << >>)
         /\ UNCHANGED << orderly, main, running, connecting, sock, broken, received, reading, waits,
                         written, wire, participant_id_, outbox >>
  BY DEF Pushed, netVars
<1>2. Drops("push") /\ ready' \in Seq(Handlers)
  BY <1>1, QuietRan, RanDrops, HandlerFacts DEF QueueTypes
<1>3. deque_write_buffer_' \in Seq(Numbers) /\ deque_write_buffer_' # << >>
  BY <1>1, AppendProperties DEF WriteTypes
<1>4. Counting'
  BY <1>1, <1>2, CountingSame DEF Drops
<1>5. Control'
  BY <1>1, <1>2, <1>3 DEF Drops
<1>6. TypeOK'
  BY <1>1, <1>2, <1>3 DEF PlainTypes, WriteTypes, QueueTypes
<1> QED  BY <1>4, <1>5, <1>6 DEF Kept

\* The handlers that hand a message over: what they take off the queue counts.
LEMMA KeepsAnswer ==
  ASSUME TypeOK, Control, Counting, Hello \/ Credentials
  PROVE  Kept
<1> USE TypeParts, NextTypeParts, ControlParts, NextControlParts
<1>1. \E f : Ran(Read(f), {Len(outbox) + 1})
  BY HelloRan, CredentialsRan
<1>2. Drops("read") /\ Has("read") /\ ready' \in Seq(Handlers)
  BY <1>1, RanDrops, HandlerFacts DEF QueueTypes
<1>3. /\ reading' = TRUE /\ participant_id_' \in {participant_id_, "service_id"}
      /\ UNCHANGED << orderly, main, running, connecting, sock, broken, received, waits,
                      deque_write_buffer_, writing, written, wire >>
  BY DEF Hello, Credentials, writeVars
<1>4. \/ WriteByte("HELLO_ACK", "service_id")
      \/ WriteByte("CREDENTIALS_ACK", "zero")
  BY DEF Hello, Credentials
<1>5. outbox \in Seq(Messages)
  BY DEF QueueTypes
<1>6. /\ outbox' \in Seq(Messages)
      /\ Cardinality(Updates)' = Cardinality(Updates)
      /\ Cardinality(Answers)' = Cardinality(Answers) + 1
  <2>1. CASE WriteByte("HELLO_ACK", "service_id")
    BY <1>5, <2>1, MessageTypes, OutboxGrows, AnswerCounted
  <2>2. CASE WriteByte("CREDENTIALS_ACK", "zero")
    BY <1>5, <2>2, MessageTypes, OutboxGrows, AnswerCounted
  <2> QED  BY <1>4, <2>1, <2>2
<1>7. Counting'
  <2>1. Cardinality(Updates) \in Nat /\ Cardinality(Answers) \in Nat
    BY <1>5, Counts
  <2>2. received \in Nat /\ MaxUpdates \in Nat
    BY ChatAssumption DEF PlainTypes
  <2> QED  BY <1>2, <1>3, <1>6, <2>1, <2>2 DEF Counting, Drops
<1>8. Control'
  BY <1>2, <1>3 DEF Drops
<1>9. TypeOK'
  BY <1>2, <1>3, <1>6 DEF PlainTypes, WriteTypes, QueueTypes, Names
<1> QED  BY <1>7, <1>8, <1>9 DEF Kept

LEMMA KeepsTick ==
  ASSUME TypeOK, Control, Counting, Tick
  PROVE  Kept
<1> USE TypeParts, NextTypeParts, ControlParts, NextControlParts
<1>1. Ran(Do("tick"), {Len(outbox) + 1}) /\ waits' = 1
  BY TickRan
<1>2. Drops("tick") /\ Has("tick") /\ ready' \in Seq(Handlers)
  BY <1>1, RanDrops, HandlerFacts DEF QueueTypes, DoTypes
<1>3. /\ UNCHANGED << orderly, main, running, connecting, sock, broken, received, reading,
                      deque_write_buffer_, writing, written, wire, participant_id_ >>
      /\ WriteByte("UPDATE_ACK", participant_id_)
  BY DEF Tick, writeVars, netVars
<1>4. outbox \in Seq(Messages) /\ participant_id_ \in Names
  BY DEF QueueTypes, PlainTypes
<1>5. /\ outbox' \in Seq(Messages)
      /\ Cardinality(Updates)' = Cardinality(Updates) + 1
      /\ Cardinality(Answers)' = Cardinality(Answers)
  BY <1>3, <1>4, MessageTypes, OutboxGrows, UpdateCounted
<1>6. Counting'
  <2>1. Cardinality(Updates) \in Nat /\ Cardinality(Answers) \in Nat
    BY <1>4, Counts
  <2>2. received \in Nat /\ MaxUpdates \in Nat
    BY ChatAssumption DEF PlainTypes
  <2> QED  BY <1>2, <1>3, <1>5, <2>1, <2>2 DEF Counting, Drops
<1>7. Control'
  BY <1>1, <1>2, <1>3 DEF Drops
<1>8. TypeOK'
  BY <1>1, <1>2, <1>3, <1>5 DEF PlainTypes, WriteTypes, QueueTypes
<1> QED  BY <1>6, <1>7, <1>8 DEF Kept

\* The network and the main thread.
LEMMA NotQueued == \A t : Queued(t) = {} <=> ~Has(t)
  BY DEF Queued, Has

\* The completion of something outstanding is queued.
LEMMA DoAdds ==
  ASSUME QueueTypes, OneOfEach, NEW t \in DoTypes, ready' = Append(ready, Do(t)),
         t \in Serial => ~Has(t)
  PROVE  Adds(t) /\ ready' \in Seq(Handlers)
BY AppendAdds, HandlerFacts DEF QueueTypes

LEMMA KeepsConnects ==
  ASSUME TypeOK, Control, Counting, Connects \/ ConnectFails
  PROVE  Kept
<1> USE TypeParts, NextTypeParts, ControlParts, NextControlParts
<1>1. /\ connecting /\ connecting' = FALSE /\ sock' \in {sock, "open"}
      /\ \E t \in {"connect", "connect_error"} : ready' = Append(ready, Do(t))
      /\ UNCHANGED << orderly, main, running, broken, received, reading, waits,
                      deque_write_buffer_, writing, written, wire, participant_id_, outbox >>
  BY DEF Connects, ConnectFails, writeVars
<1>2. PICK t \in {"connect", "connect_error"} : Adds(t) /\ ready' \in Seq(Handlers)
  BY <1>1, DoAdds DEF DoTypes, Serial
<1>3. Counting'
  BY <1>1, <1>2, CountingSame DEF Adds
<1>4. Control'
  BY <1>1, <1>2 DEF Adds
<1>5. TypeOK'
  BY <1>1, <1>2 DEF PlainTypes, WriteTypes, QueueTypes
<1> QED  BY <1>3, <1>4, <1>5 DEF Kept

\* Answers are fewer than frames, and the frames end with the bound.
LEMMA KeepsFrameArrives ==
  ASSUME TypeOK, Control, Counting, FrameArrives
  PROVE  Kept
<1> USE TypeParts, NextTypeParts, ControlParts, NextControlParts
<1>1. PICK f \in Offered : ready' = Append(ready, Read(f))
  BY DEF FrameArrives
<1>2. /\ reading /\ received' = received + 1 /\ reading' = FALSE
      /\ UNCHANGED << orderly, main, running, connecting, sock, broken, waits,
                      deque_write_buffer_, writing, written, wire, participant_id_, outbox >>
  BY DEF FrameArrives, writeVars
<1>3. f \in Frames /\ received' \in 0 .. ServerFrames
  <2>1. received \in Nat /\ ServerFrames \in Nat /\ ServerFrames >= 3
        /\ AnyFrames \in Nat /\ AnyFrames <= ServerFrames
    BY ChatAssumption DEF PlainTypes
  <2>2. CASE orderly /\ received < 3
    <3>1. f = Opening[received + 1] /\ received + 1 \in {1, 2, 3}
      BY <2>1, <2>2 DEF Offered
    <3> QED  BY <1>2, <2>1, <2>2, <3>1 DEF Opening, Frames
  <2>3. CASE orderly /\ ~(received < 3)
    BY <1>2, <2>1, <2>3 DEF Offered
  <2>4. CASE ~orderly
    BY <1>2, <2>1, <2>4 DEF Offered
  <2> QED  BY <2>2, <2>3, <2>4
<1>4. Adds("read") /\ ready' \in Seq(Handlers)
  BY <1>1, <1>2, <1>3, AppendAdds, HandlerFacts DEF QueueTypes
<1>5. Counting'
  <2>1. Cardinality(Updates) \in Nat /\ Cardinality(Answers) \in Nat
    BY Counts DEF QueueTypes
  <2>2. received \in Nat /\ MaxUpdates \in Nat
    BY ChatAssumption DEF PlainTypes
  <2>3. Updates' = Updates /\ Answers' = Answers
    BY <1>2 DEF Updates, Answers, IsUpdate
  <2> QED  BY <1>2, <1>4, <2>1, <2>2, <2>3 DEF Counting, Adds
<1>6. Control'
  BY <1>2, <1>4 DEF Adds
<1>7. TypeOK'
  BY <1>2, <1>3, <1>4 DEF PlainTypes, WriteTypes, QueueTypes
<1> QED  BY <1>5, <1>6, <1>7 DEF Kept

LEMMA KeepsFailures ==
  ASSUME TypeOK, Control, Counting, ReadFails \/ WriteFails \/ InputEnds
  PROVE  Kept
<1> USE TypeParts, NextTypeParts, ControlParts, NextControlParts
<1>1. /\ \E t \in {"read_error", "write_error", "close"} : ready' = Append(ready, Do(t))
      /\ reading' \in {reading, FALSE} /\ writing' \in {writing, FALSE}
      /\ main' \in {main, "joining"}
      /\ UNCHANGED << orderly, running, connecting, sock, broken, received, waits,
                      deque_write_buffer_, written, wire, participant_id_, outbox >>
  BY DEF ReadFails, WriteFails, InputEnds, writeVars, netVars
<1>2. PICK t \in {"read_error", "write_error", "close"} : Adds(t) /\ ready' \in Seq(Handlers)
  BY <1>1, DoAdds DEF DoTypes, Serial
<1>3. Counting'
  BY <1>1, <1>2, CountingSame DEF Adds
<1>4. Control'
  BY <1>1, <1>2 DEF Adds
<1>5. TypeOK'
  BY <1>1, <1>2 DEF PlainTypes, WriteTypes, QueueTypes
<1> QED  BY <1>3, <1>4, <1>5 DEF Kept

\* What the kernel takes of the front.
LEMMA Taken ==
  ASSUME TypeOK, Control, KernelTakes
  PROVE  \E n \in 1 .. Parts - written :
            /\ wire' \in Seq(Numbers \X (1 .. Parts))
            /\ Len(wire) \in Nat /\ Len(wire') = Len(wire) + n
            /\ \A i \in 1 .. Len(wire) : wire'[i] = wire[i]
            /\ \A i \in 1 .. n : wire'[Len(wire) + i] = << Head(deque_write_buffer_), written + i >>
            /\ IF written + n < Parts
               THEN written' = written + n /\ writing' = writing /\ ready' = ready
               ELSE written' = 0 /\ writing' = FALSE /\ ready' = Append(ready, Do("write"))
<1>1. PICK n \in 1 .. Parts - written :
         /\ wire' = wire \o [i \in 1 .. n |-> << Head(deque_write_buffer_), written + i >>]
         /\ IF written + n < Parts
            THEN written' = written + n /\ UNCHANGED << writing, ready >>
            ELSE written' = 0 /\ writing' = FALSE /\ ready' = Append(ready, Do("write"))
  BY DEF KernelTakes
<1>2. writing = TRUE /\ deque_write_buffer_ # << >>
  BY DEF KernelTakes, Control, TypeOK
<1> DEFINE P == Numbers \X (1 .. Parts)
           m == Head(deque_write_buffer_)
           piece == [i \in 1 .. n |-> << m, written + i >>]
<1>3. m \in Numbers
  BY <1>2, HeadTailProperties DEF TypeOK
<1>4. Parts \in Nat \ {0} /\ written \in 0 .. Parts - 1 /\ n \in Nat
  BY ChatAssumption DEF TypeOK
<1>5. piece \in [1 .. n -> P]
  <2>1. \A i \in 1 .. n : written + i \in 1 .. Parts
    BY <1>4
  <2> HIDE DEF m
  <2> QED  BY <1>3, <2>1
<1>6. piece \in Seq(P)
  BY <1>4, <1>5, SeqDef
<1>7. DOMAIN piece = 1 .. n /\ \A i \in 1 .. n : piece[i] = << m, written + i >>
  OBVIOUS
<1>8. wire' = wire \o piece /\ wire \in Seq(P)
  BY <1>1 DEF TypeOK
<1> HIDE DEF P, piece, m
<1>9. Len(piece) = n /\ Len(wire) \in Nat
  BY <1>4, <1>6, <1>7, <1>8, LenProperties
<1>10. /\ wire' \in Seq(P) /\ Len(wire') = Len(wire) + n
       /\ \A i \in 1 .. Len(wire) + n :
             wire'[i] = IF i <= Len(wire) THEN wire[i] ELSE piece[i - Len(wire)]
  BY <1>6, <1>8, <1>9, ConcatProperties
<1>11. \A i \in 1 .. Len(wire) : wire'[i] = wire[i]
  BY <1>4, <1>9, <1>10
<1>12. ASSUME NEW i \in 1 .. n PROVE wire'[Len(wire) + i] = << m, written + i >>
  <2>1. /\ Len(wire) + i \in 1 .. Len(wire) + n /\ ~(Len(wire) + i <= Len(wire))
        /\ (Len(wire) + i) - Len(wire) = i
    BY <1>4, <1>9
  <2> QED  BY <1>7, <1>10, <2>1
<1>13. IF written + n < Parts
       THEN written' = written + n /\ writing' = writing /\ ready' = ready
       ELSE written' = 0 /\ writing' = FALSE /\ ready' = Append(ready, Do("write"))
  BY <1>1
<1> QED  BY <1>9, <1>10, <1>11, <1>12, <1>13 DEF P, m

LEMMA KeepsKernelTakes ==
  ASSUME TypeOK, Control, Counting, KernelTakes
  PROVE  Kept
<1> USE TypeParts, NextTypeParts, ControlParts, NextControlParts
<1>1. PICK n \in 1 .. Parts - written :
         /\ wire' \in Seq(Numbers \X (1 .. Parts))
         /\ IF written + n < Parts
            THEN written' = written + n /\ writing' = writing /\ ready' = ready
            ELSE written' = 0 /\ writing' = FALSE /\ ready' = Append(ready, Do("write"))
  BY Taken
<1>2. /\ writing
      /\ UNCHANGED << orderly, main, running, connecting, sock, broken, received, reading, waits,
                      deque_write_buffer_, participant_id_, outbox >>
  BY DEF KernelTakes, netVars
<1>3. Parts \in Nat \ {0} /\ written \in 0 .. Parts - 1
  BY ChatAssumption DEF WriteTypes
<1>4. written' \in 0 .. Parts - 1 /\ writing' \in BOOLEAN
  <2>1. n \in Nat /\ written + n \in Nat /\ 0 \in 0 .. Parts - 1
    BY <1>3
  <2>2. CASE written + n < Parts
    BY <1>1, <1>3, <2>1, <2>2 DEF WriteTypes
  <2>3. CASE ~(written + n < Parts)
    BY <1>1, <2>1, <2>3
  <2> QED  BY <2>2, <2>3
<1>5. CASE written + n < Parts
  <2>1. ready' = ready /\ writing' = writing /\ written' = written + n
    BY <1>1, <1>5
  <2>2. Drops("none")
    BY <2>1, QueueSame
  <2>3. Counting'
    BY <1>2, <2>2, CountingSame DEF Drops
  <2>4. Control'
    BY <1>2, <2>1, <2>2 DEF Drops
  <2>5. TypeOK'
    BY <1>1, <1>2, <1>4, <2>1 DEF PlainTypes, WriteTypes, QueueTypes
  <2> QED  BY <2>3, <2>4, <2>5 DEF Kept
<1>6. CASE ~(written + n < Parts)
  <2>1. ready' = Append(ready, Do("write")) /\ writing' = FALSE /\ written' = 0
    BY <1>1, <1>6
  <2>2. Adds("write") /\ ready' \in Seq(Handlers)
    BY <1>2, <2>1, DoAdds DEF DoTypes
  <2>3. Counting'
    BY <1>2, <2>2, CountingSame DEF Adds
  <2>4. Control'
    BY <1>2, <2>1, <2>2 DEF Adds
  <2>5. TypeOK'
    BY <1>1, <1>2, <1>4, <2>2 DEF PlainTypes, WriteTypes, QueueTypes
  <2> QED  BY <2>3, <2>4, <2>5 DEF Kept
<1> QED  BY <1>5, <1>6

LEMMA KeepsTimerExpires ==
  ASSUME TypeOK, Control, Counting, TimerExpires
  PROVE  Kept
<1> USE TypeParts, NextTypeParts, ControlParts, NextControlParts
<1>1. /\ waits > 0 /\ ~Has("tick") /\ waits' = waits - 1 /\ ready' = Append(ready, Do("tick"))
      /\ Cardinality(Updates) < MaxUpdates
      /\ UNCHANGED << orderly, main, running, connecting, sock, broken, received, reading,
                      deque_write_buffer_, writing, written, wire, participant_id_, outbox >>
  BY NotQueued DEF TimerExpires, writeVars, netVars, Updates, IsUpdate
<1>2. Adds("tick") /\ ready' \in Seq(Handlers)
  BY <1>1, DoAdds DEF DoTypes
<1>3. waits' \in Nat /\ waits' <= 1
  BY <1>1 DEF PlainTypes
<1>4. Counting'
  <2>1. Cardinality(Updates) \in Nat /\ Cardinality(Answers) \in Nat
    BY Counts DEF QueueTypes
  <2>2. received \in Nat /\ MaxUpdates \in Nat
    BY ChatAssumption DEF PlainTypes
  <2>3. Updates' = Updates /\ Answers' = Answers
    BY <1>1 DEF Updates, Answers, IsUpdate
  <2> QED  BY <1>1, <1>2, <2>1, <2>2, <2>3 DEF Counting, Adds
<1>5. Control'
  BY <1>1, <1>2, <1>3 DEF Adds
<1>6. TypeOK'
  BY <1>1, <1>2, <1>3 DEF PlainTypes, WriteTypes, QueueTypes
<1> QED  BY <1>4, <1>5, <1>6 DEF Kept

LEMMA KeepsOthers ==
  ASSUME TypeOK, Control, Counting, Breaks \/ RunReturns \/ Joins \/ UNCHANGED vars
  PROVE  Kept
<1> USE TypeParts, NextTypeParts, ControlParts, NextControlParts
<1>1. /\ main' \in {main, "done"} /\ running' \in {running, FALSE} /\ broken' \in {broken, TRUE}
      /\ UNCHANGED << orderly, ready, connecting, sock, received, reading, waits,
                      deque_write_buffer_, writing, written, wire, participant_id_, outbox >>
  BY DEF Breaks, RunReturns, Joins, vars, writeVars, netVars
<1>2. Drops("none")
  BY <1>1, QueueSame
<1>3. Counting'
  BY <1>1, <1>2, CountingSame DEF Drops
<1>4. Control'
  BY <1>1, <1>2 DEF Drops
<1>5. TypeOK'
  BY <1>1 DEF PlainTypes, WriteTypes, QueueTypes
<1> QED  BY <1>3, <1>4, <1>5 DEF Kept

LEMMA InitKept == Init => TypeOK /\ Control /\ Counting
<1> SUFFICES ASSUME Init PROVE TypeOK /\ Control /\ Counting
  OBVIOUS
<1> USE TypeParts
<1>1. /\ ready = << >> /\ outbox = << >> /\ deque_write_buffer_ = << >> /\ wire = << >>
      /\ DOMAIN ready = {} /\ DOMAIN outbox = {}
  BY DEF Init
<1>2. /\ ready \in Seq(Handlers) /\ outbox \in Seq(Messages)
      /\ deque_write_buffer_ \in Seq(Numbers) /\ wire \in Seq(Numbers \X (1 .. Parts))
  BY <1>1, EmptySeq
<1>3. ServerFrames \in Nat /\ MaxUpdates \in Nat /\ Parts \in Nat \ {0}
  BY ChatAssumption
<1>4. TypeOK
  <2>1. /\ orderly \in BOOLEAN /\ main = "typing" /\ running = TRUE /\ connecting = TRUE
        /\ sock = "unconnected" /\ broken = FALSE /\ received = 0 /\ reading = FALSE
        /\ waits = 0 /\ participant_id_ = "unset" /\ writing = FALSE /\ written = 0
    BY DEF Init
  <2>2. 0 \in 0 .. ServerFrames /\ 0 \in 0 .. Parts - 1 /\ "unset" \in Names
    BY <1>3 DEF Names
  <2>3. PlainTypes
    BY <2>1, <2>2 DEF PlainTypes
  <2>4. WriteTypes
    BY <1>2, <2>1, <2>2 DEF WriteTypes
  <2>5. QueueTypes
    BY <1>2 DEF QueueTypes
  <2> QED  BY <2>3, <2>4, <2>5
<1>5. \A t : ~Has(t) /\ One(t)
  BY <1>1 DEF Has, One
<1>6. Control
  BY <1>1, <1>5 DEF Control, Init
<1>7. Updates = {} /\ Answers = {}
  BY <1>1 DEF Updates, Answers
<1>8. Cardinality(Updates) = 0 /\ Cardinality(Answers) = 0
  BY <1>7, FS_EmptySet
<1>9. received = 0
  BY DEF Init
<1>10. Counting
  BY <1>3, <1>5, <1>8, <1>9 DEF Counting
<1> QED  BY <1>4, <1>6, <1>10

LEMMA StepKept ==
  ASSUME TypeOK, Control, Counting, [Next]_vars
  PROVE  Kept
BY KeepsConnected, KeepsJoin, KeepsClose, KeepsWriteHandler, KeepsPushed, KeepsAnswer, KeepsTick,
   KeepsConnects, KeepsFrameArrives, KeepsFailures, KeepsKernelTakes, KeepsTimerExpires, KeepsOthers
   DEF Next, IoThread, Network

\* Type correctness: no message is written past its end, nothing is handed over
\* that the bounds do not allow.
THEOREM TypeCorrect == Spec => []TypeOK
<1>1. Init => TypeOK /\ Control /\ Counting
  BY InitKept
<1>2. TypeOK /\ Control /\ Counting /\ [Next]_vars => TypeOK' /\ Control' /\ Counting'
  BY StepKept DEF Kept
<1> QED  BY <1>1, <1>2, PTL DEF Spec

\* One timer, whatever comes in: at most one wait armed and one tick queued.
THEOREM OneTimerHolds == Spec => []OneTimer
<1>1. Init => TypeOK /\ Control /\ Counting
  BY InitKept
<1>2. TypeOK /\ Control /\ Counting /\ [Next]_vars => TypeOK' /\ Control' /\ Counting'
  BY StepKept DEF Kept
<1>3. TypeOK /\ Control => OneTimer
  <2> SUFFICES ASSUME TypeOK, Control PROVE OneTimer
    OBVIOUS
  <2>1. One("tick") /\ waits \in Nat /\ waits <= 1
    BY DEF Control, Serial, TypeOK
  <2>2. Cardinality(Queued("tick")) \in {0, 1}
    <3>1. CASE Queued("tick") = {}
      BY <3>1, FS_EmptySet
    <3>2. CASE Queued("tick") # {}
      <4>1. PICK i : Queued("tick") = {i}
        BY <2>1, <3>2 DEF Queued, One
      <4> QED  BY <4>1, FS_Singleton
    <3> QED  BY <3>1, <3>2
  <2> QED  BY <2>1, <2>2 DEF OneTimer
<1> QED  BY <1>1, <1>2, <1>3, PTL DEF Spec

LEMMA OpeningFacts ==
  /\ Opening[1] = "HANDSHAKE_HELLO" /\ Opening[2] = "HANDSHAKE_CREDENTIALS"
  /\ Opening[3] = "PARTICIPANT_JOIN" /\ Len(Opening) = 3
BY DEF Opening

LEMMA OfferedFrames ==
  ASSUME TypeOK, NEW f \in Offered
  PROVE  f \in Frames
<1>1. received \in Nat
  BY DEF TypeOK
<1>2. CASE orderly /\ received < 3
  <2>1. f = Opening[received + 1] /\ received + 1 \in {1, 2, 3}
    BY <1>1, <1>2 DEF Offered
  <2> QED  BY <2>1, OpeningFacts DEF Frames
<1>3. CASE ~(orderly /\ received < 3)
  BY <1>3 DEF Offered
<1> QED  BY <1>2, <1>3

\* What is in the queue when a handler is put behind it.
LEMMA AppendHas ==
  ASSUME ready \in Seq(Handlers), NEW h \in Handlers, ready' = Append(ready, h)
  PROVE  \A t : Has(t)' <=> Has(t) \/ h.type = t
<1>1. /\ Len(ready) \in Nat /\ DOMAIN ready = 1 .. Len(ready)
      /\ ready' \in Seq(Handlers) /\ Len(ready') = Len(ready) + 1
      /\ \A i \in 1 .. Len(ready) : ready'[i] = ready[i]
      /\ ready'[Len(ready) + 1] = h
  BY QueueFacts
<1>2. DOMAIN ready' = 1 .. Len(ready) + 1
  BY <1>1, LenProperties
<1>3. \A i \in DOMAIN ready : i \in DOMAIN ready' /\ ready'[i] = ready[i]
  BY <1>1, <1>2
<1>4. \A i \in DOMAIN ready' : i \in DOMAIN ready \/ ready'[i] = h
  BY <1>1, <1>2
<1>5. Len(ready) + 1 \in DOMAIN ready'
  BY <1>1, <1>2
<1> QED  BY <1>1, <1>3, <1>4, <1>5 DEF Has

\* While a wait is armed or a tick queued, every step leaves one of the two.
LEMMA KeepsUpdating ==
  ASSUME TypeOK, Control, Counting, [Next]_vars, waits > 0 \/ Has("tick")
  PROVE  waits' > 0 \/ Has("tick")'
<1> USE TypeParts, ControlParts
<1>1. CASE Join \/ Tick
  BY <1>1, JoinRan, TickRan
<1>2. CASE TimerExpires
  <2>1. /\ QueueTypes /\ OneOfEach /\ ready' = Append(ready, Do("tick")) /\ ~Has("tick")
    BY <1>2, NotQueued DEF TimerExpires
  <2>2. Adds("tick")
    BY <2>1, DoAdds DEF DoTypes
  <2> QED  BY <2>2 DEF Adds
<1>3. CASE Connected \/ Hello \/ Credentials \/ Printed \/ Fails \/ Close \/ TickAborted
           \/ Pushed \/ WriteHandler
  <2>1. waits' = waits
    BY <1>3 DEF Connected, Hello, Credentials, Printed, Fails, Close, TickAborted, Pushed, WriteHandler
  <2>2. \E h, M : Ran(h, M) /\ h.type # "tick"
    <3>1. CASE Connected \/ Close \/ TickAborted \/ WriteHandler
      BY <3>1, ConnectedRan, CloseRan, TickAbortedRan, WriteHandlerRan, HandlerFacts DEF DoTypes
    <3>2. CASE Printed \/ Hello \/ Credentials
      <4>1. \E f, M : Ran(Read(f), M)
        BY <3>2, PrintedRan, HelloRan, CredentialsRan
      <4> QED  BY <4>1, HandlerFacts
    <3>3. CASE Fails
      BY <3>3, FailsRan, HandlerFacts DEF DoTypes
    <3>4. CASE Pushed
      <4>1. PICK m \in Numbers : Runs(Push(m)) /\ Return(<< >>)
        BY <3>4 DEF Pushed
      <4> QED  BY <4>1, QuietRan, HandlerFacts
    <3> QED  BY <1>3, <3>1, <3>2, <3>3, <3>4
  <2>3. PICK h, M : Ran(h, M) /\ h.type # "tick"
    BY <2>2
  <2>4. Drops(h.type)
    BY <2>3, RanDrops DEF QueueTypes
  <2> QED  BY <2>1, <2>3, <2>4 DEF Drops
<1>4. CASE Connects \/ ConnectFails \/ FrameArrives \/ ReadFails \/ WriteFails \/ InputEnds
  <2>1. waits' = waits
    BY <1>4 DEF Connects, ConnectFails, FrameArrives, ReadFails, WriteFails, InputEnds
  <2>2. \E h \in Handlers : ready' = Append(ready, h)
    <3>1. CASE FrameArrives
      <4>1. PICK f \in Offered : ready' = Append(ready, Read(f))
        BY <3>1 DEF FrameArrives
      <4> QED  BY <4>1, OfferedFrames, HandlerFacts
    <3>2. CASE Connects \/ ConnectFails \/ ReadFails \/ WriteFails \/ InputEnds
      <4>1. PICK t \in DoTypes : ready' = Append(ready, Do(t))
        BY <3>2 DEF Connects, ConnectFails, ReadFails, WriteFails, InputEnds, DoTypes
      <4> QED  BY <4>1, HandlerFacts
    <3> QED  BY <1>4, <3>1, <3>2
  <2>3. Has("tick") => Has("tick")'
    BY <2>2, AppendHas DEF QueueTypes
  <2> QED  BY <2>1, <2>3
<1>5. CASE KernelTakes
  <2>1. waits' = waits /\ (ready' = ready \/ ready' = Append(ready, Do("write")))
    BY <1>5, Taken DEF KernelTakes
  <2>2. Do("write") \in Handlers
    BY HandlerFacts DEF DoTypes
  <2>3. Has("tick") => Has("tick")'
    BY <2>1, <2>2, AppendHas DEF Has, QueueTypes
  <2> QED  BY <2>1, <2>3
<1>6. CASE Breaks \/ RunReturns \/ Joins \/ UNCHANGED vars
  BY <1>6 DEF Breaks, RunReturns, Joins, vars, Has
<1> QED  BY <1>1, <1>2, <1>3, <1>4, <1>5, <1>6 DEF Next, IoThread, Network

\* The chain of updates is broken by no frame, no error and no close().
THEOREM UpdatesGoOnHolds == Spec => UpdatesGoOn
<1>1. Init => TypeOK /\ Control /\ Counting
  BY InitKept
<1>2. TypeOK /\ Control /\ Counting /\ [Next]_vars => TypeOK' /\ Control' /\ Counting'
  BY StepKept DEF Kept
<1>3. TypeOK /\ Control /\ Counting /\ [Next]_vars => [Updating => Updating']_vars
  <2>1. Updating <=> waits > 0 \/ Has("tick")
    BY DEF Updating, Queued, Has
  <2>2. Updating' <=> waits' > 0 \/ Has("tick")'
    BY DEF Updating, Queued, Has
  <2> QED  BY <2>1, <2>2, KeepsUpdating
<1> QED  BY <1>1, <1>2, <1>3, PTL DEF Spec, UpdatesGoOn

-----------------------------------------------------------------------------
(* The answers, when the frames come in the server's order.                *)

\* Frames wait while handlers run, and are joined by the next one only.
LEMMA RanFrames ==
  ASSUME TypeOK, Control, NEW h, NEW M, Ran(h, M), received' = received, FramesInTurn
  PROVE  FramesInTurn'
<1>1. ready \in Seq(Handlers) /\ ready # << >> /\ ready[1] = h
  BY QueueFacts DEF TypeOK, Ran, Runs
<1>2. PICK p : Posts(p, M) /\ Return(p)
  BY DEF Ran
<1>3. p \in Seq(Handlers) /\ DOMAIN p = 1 .. Len(p) /\ Len(p) \in Nat /\ Len(ready) \in Nat
      /\ Len(ready) >= 1 /\ DOMAIN ready = 1 .. Len(ready)
  BY <1>1, <1>2, QueueFacts DEF Posts, Plain
<1>4. /\ ready' \in Seq(Handlers) /\ Len(ready') = Len(ready) - 1 + Len(p)
      /\ \A i \in 1 .. Len(ready) - 1 : ready'[i] = ready[i + 1]
      /\ \A i \in 1 .. Len(p) : ready'[Len(ready) - 1 + i] = p[i]
  BY <1>1, <1>2, <1>3, Returned
<1>5. DOMAIN ready' = 1 .. Len(ready) - 1 + Len(p)
  BY <1>4, LenProperties
<1>6. ASSUME NEW i \in DOMAIN ready', ready'[i].type = "read"
      PROVE  \E j \in DOMAIN ready : ready'[i] = ready[j]
  <2>1. CASE i <= Len(ready) - 1
    <3>1. i \in 1 .. Len(ready) - 1 /\ i + 1 \in DOMAIN ready
      BY <1>3, <1>5, <2>1
    <3> QED  BY <1>4, <3>1
  <2>2. CASE ~(i <= Len(ready) - 1)
    <3> DEFINE k == i - (Len(ready) - 1)
    <3>1. k \in 1 .. Len(p) /\ Len(ready) - 1 + k = i
      BY <1>3, <1>5, <2>2
    <3> HIDE DEF k
    <3>2. ready'[i] = p[k] /\ p[k].type \notin Serial
      BY <1>2, <1>3, <1>4, <3>1 DEF Posts, Plain
    <3> QED  BY <1>6, <3>2 DEF Serial
  <2> QED  BY <2>1, <2>2
<1> QED  BY <1>6 DEF FramesInTurn

LEMMA AppendFrames ==
  ASSUME TypeOK, NEW h \in Handlers, ready' = Append(ready, h), received' = received,
         h.type # "read", FramesInTurn
  PROVE  FramesInTurn'
<1>1. /\ Len(ready) \in Nat /\ DOMAIN ready = 1 .. Len(ready)
      /\ ready' \in Seq(Handlers) /\ Len(ready') = Len(ready) + 1
      /\ \A i \in 1 .. Len(ready) : ready'[i] = ready[i]
      /\ ready'[Len(ready) + 1] = h
  BY QueueFacts DEF TypeOK
<1>2. DOMAIN ready' = 1 .. Len(ready) + 1
  BY <1>1, LenProperties
<1>3. ASSUME NEW i \in DOMAIN ready', ready'[i].type = "read"
      PROVE  i \in DOMAIN ready /\ ready'[i] = ready[i]
  BY <1>1, <1>2, <1>3
<1> QED  BY <1>3 DEF FramesInTurn

\* The frame that is handled is the one whose turn it is.
LEMMA FrameHandled ==
  ASSUME TypeOK, Control, FramesInTurn, NEW f, Runs(Read(f))
  PROVE  /\ received \in Nat /\ received >= 1 /\ Handled = received - 1
         /\ f = "HANDSHAKE_HELLO" => received = 1
         /\ f = "HANDSHAKE_CREDENTIALS" => received = 2
         /\ f = "PARTICIPANT_JOIN" => received = 3
         /\ f \notin {"HANDSHAKE_HELLO", "HANDSHAKE_CREDENTIALS", "PARTICIPANT_JOIN"} => received > 3
<1>1. 1 \in DOMAIN ready /\ ready[1] = Read(f) /\ Has("read")
  BY RunsIn, HandlerFacts DEF TypeOK
<1>2. ready[1].type = "read" /\ ready[1].frame = f
  BY <1>1, HandlerFacts
<1>3. received \in Nat
  BY DEF TypeOK
<1>4. IF received <= 3 THEN received >= 1 /\ f = Opening[received]
      ELSE \A n \in 1 .. 3 : f # Opening[n]
  BY <1>1, <1>2 DEF FramesInTurn
<1>5. CASE received <= 3
  <2>1. received \in {1, 2, 3}
    BY <1>3, <1>4, <1>5
  <2> QED  BY <1>1, <1>4, <1>5, <2>1, OpeningFacts DEF Handled
<1>6. CASE ~(received <= 3)
  <2>1. f # Opening[1] /\ f # Opening[2] /\ f # Opening[3]
    BY <1>4, <1>6
  <2> QED  BY <1>1, <1>3, <1>6, <2>1, OpeningFacts DEF Handled
<1> QED  BY <1>5, <1>6

\* What a handler of a frame leaves: one frame more is handled.
LEMMA NowHandled ==
  ASSUME TypeOK, Control, NEW f, NEW M, Ran(Read(f), M), received' = received
  PROVE  /\ Handled' = received
         /\ Has("tick")' <=> Has("tick")
<1>1. ready \in Seq(Handlers) /\ OneOfEach /\ Read(f).type = "read"
  BY HandlerFacts, ControlParts DEF TypeOK
<1>2. Drops("read")
  BY <1>1, RanDrops
<1> QED  BY <1>2 DEF Drops, Handled

\* The place of the next message.
LEMMA NextInTurn ==
  ASSUME TypeOK, InTurn, NEW head, NEW id, WriteByte(head, id),
         [head |-> head, id |-> id] \in Messages,
         [head |-> head, id |-> id] = IF Len(outbox) = 0 THEN [head |-> "HELLO_ACK", id |-> "service_id"]
                                      ELSE IF Len(outbox) = 1 THEN [head |-> "CREDENTIALS_ACK", id |-> "zero"]
                                      ELSE [head |-> "UPDATE_ACK", id |-> "participant_id"]
  PROVE  InTurn' /\ Len(outbox') = Len(outbox) + 1 /\ Len(outbox) \in Nat
<1>1. /\ Len(outbox') = Len(outbox) + 1 /\ Len(outbox) \in Nat
      /\ DOMAIN outbox = 1 .. Len(outbox)
      /\ \A i \in 1 .. Len(outbox) : outbox'[i] = outbox[i]
      /\ outbox'[Len(outbox) + 1] = [head |-> head, id |-> id]
      /\ DOMAIN outbox' = 1 .. Len(outbox) + 1
  BY OutboxGrows, LenProperties DEF TypeOK
<1>2. ASSUME NEW i \in DOMAIN outbox'
      PROVE  outbox'[i] = IF i = 1 THEN [head |-> "HELLO_ACK", id |-> "service_id"]
                          ELSE IF i = 2 THEN [head |-> "CREDENTIALS_ACK", id |-> "zero"]
                          ELSE [head |-> "UPDATE_ACK", id |-> "participant_id"]
  <2>1. CASE i \in DOMAIN outbox
    BY <1>1, <2>1 DEF InTurn
  <2>2. CASE i \notin DOMAIN outbox
    <3>1. i = Len(outbox) + 1
      BY <1>1, <2>2
    <3> QED  BY <1>1, <3>1
  <2> QED  BY <2>1, <2>2
<1> QED  BY <1>1, <1>2 DEF InTurn

LEMMA StageHello ==
  ASSUME TypeOK, Control, Counting, Stage, Hello
  PROVE  Stage'
<1> SUFFICES ASSUME orderly' PROVE FramesInTurn' /\ Progress' /\ InTurn'
  BY DEF Stage
<1>1. /\ Ran(Read("HANDSHAKE_HELLO"), {Len(outbox) + 1}) /\ Runs(Read("HANDSHAKE_HELLO"))
      /\ received' = received /\ waits' = waits /\ orderly
      /\ WriteByte("HELLO_ACK", "service_id")
  BY HelloRan DEF Hello
<1>2. FramesInTurn /\ Progress /\ InTurn
  BY <1>1 DEF Stage
<1>3. received = 1 /\ Handled = 0
  BY <1>1, <1>2, FrameHandled
<1>4. Len(outbox) = 0 /\ waits = 0 /\ ~Has("tick")
  BY <1>2, <1>3 DEF Progress
<1>5. Handled' = 1 /\ ~Has("tick")'
  BY <1>1, <1>3, <1>4, NowHandled
<1>6. InTurn' /\ Len(outbox') = 1
  BY <1>1, <1>2, <1>4, NextInTurn, MessageTypes
<1>7. FramesInTurn'
  BY <1>1, <1>2, RanFrames
<1> QED  BY <1>1, <1>4, <1>5, <1>6, <1>7 DEF Progress

LEMMA StageCredentials ==
  ASSUME TypeOK, Control, Counting, Stage, Credentials
  PROVE  Stage'
<1> SUFFICES ASSUME orderly' PROVE FramesInTurn' /\ Progress' /\ InTurn'
  BY DEF Stage
<1>1. /\ Ran(Read("HANDSHAKE_CREDENTIALS"), {Len(outbox) + 1}) /\ Runs(Read("HANDSHAKE_CREDENTIALS"))
      /\ received' = received /\ waits' = waits /\ orderly
      /\ WriteByte("CREDENTIALS_ACK", "zero")
  BY CredentialsRan DEF Credentials
<1>2. FramesInTurn /\ Progress /\ InTurn
  BY <1>1 DEF Stage
<1>3. received = 2 /\ Handled = 1
  BY <1>1, <1>2, FrameHandled
<1>4. Len(outbox) = 1 /\ waits = 0 /\ ~Has("tick")
  BY <1>2, <1>3 DEF Progress
<1>5. Handled' = 2 /\ ~Has("tick")'
  BY <1>1, <1>3, <1>4, NowHandled
<1>6. InTurn' /\ Len(outbox') = 2
  BY <1>1, <1>2, <1>4, NextInTurn, MessageTypes
<1>7. FramesInTurn'
  BY <1>1, <1>2, RanFrames
<1> QED  BY <1>1, <1>4, <1>5, <1>6, <1>7 DEF Progress

LEMMA StageJoin ==
  ASSUME TypeOK, Control, Counting, Stage, Join
  PROVE  Stage'
<1> SUFFICES ASSUME orderly' PROVE FramesInTurn' /\ Progress' /\ InTurn'
  BY DEF Stage
<1>1. /\ Ran(Read("PARTICIPANT_JOIN"), {}) /\ Runs(Read("PARTICIPANT_JOIN"))
      /\ received' = received /\ orderly /\ outbox' = outbox
      /\ participant_id_' = "participant_id"
  BY JoinRan DEF Join
<1>2. FramesInTurn /\ Progress /\ InTurn
  BY <1>1 DEF Stage
<1>3. received = 3 /\ Handled = 2
  BY <1>1, <1>2, FrameHandled
<1>4. Len(outbox) = 2
  BY <1>2, <1>3 DEF Progress
<1>5. Handled' = 3
  BY <1>1, <1>3, NowHandled
<1>6. InTurn'
  BY <1>1, <1>2 DEF InTurn
<1>7. FramesInTurn'
  BY <1>1, <1>2, RanFrames
<1> QED  BY <1>1, <1>4, <1>5, <1>6, <1>7 DEF Progress

LEMMA StagePrinted ==
  ASSUME TypeOK, Control, Counting, Stage, Printed
  PROVE  Stage'
<1> SUFFICES ASSUME orderly' PROVE FramesInTurn' /\ Progress' /\ InTurn'
  BY DEF Stage
<1>1. PICK f \in { "PARTICIPANT_NEW", "PARTICIPANT_UPDATE_ACK", "PARTICIPANT_LEAVE" } :
         Ran(Read(f), {}) /\ Runs(Read(f))
  BY PrintedRan DEF Ran
<1>2. received' = received /\ orderly /\ UNCHANGED << outbox, waits, participant_id_ >>
  BY DEF Printed
<1>3. FramesInTurn /\ Progress /\ InTurn
  BY <1>2 DEF Stage
<1>4. received \in Nat /\ received > 3 /\ Handled = received - 1
  BY <1>1, <1>3, FrameHandled
<1>5. Handled' = received
  BY <1>1, <1>2, NowHandled
<1>6. InTurn'
  BY <1>2, <1>3 DEF InTurn
<1>7. FramesInTurn'
  BY <1>1, <1>2, <1>3, RanFrames
<1> QED  BY <1>2, <1>3, <1>4, <1>5, <1>6, <1>7 DEF Progress

LEMMA StageTick ==
  ASSUME TypeOK, Control, Counting, Stage, Tick
  PROVE  Stage'
<1> SUFFICES ASSUME orderly' PROVE FramesInTurn' /\ Progress' /\ InTurn'
  BY DEF Stage
<1>1. /\ Ran(Do("tick"), {Len(outbox) + 1})
      /\ received' = received /\ orderly /\ participant_id_' = participant_id_
      /\ WriteByte("UPDATE_ACK", participant_id_)
  BY TickRan DEF Tick, netVars
<1>2. FramesInTurn /\ Progress /\ InTurn
  BY <1>1 DEF Stage
<1>3. Drops("tick") /\ Has("tick")
  BY <1>1, RanDrops, HandlerFacts, ControlParts DEF TypeOK, DoTypes
<1>4. received \in Nat /\ Handled \in Int
  BY DEF TypeOK, Handled
<1>5. Handled >= 3 /\ Len(outbox) >= 2 /\ participant_id_ = "participant_id"
  BY <1>2, <1>3, <1>4 DEF Progress
<1>6. Handled' = Handled
  BY <1>1, <1>3 DEF Drops, Handled
<1>7. Len(outbox) \in Nat
  BY LenProperties DEF TypeOK
<1>8. InTurn' /\ Len(outbox') = Len(outbox) + 1
  <2>1. [head |-> "UPDATE_ACK", id |-> "participant_id"] \in Messages
    BY MessageTypes DEF Names
  <2>2. Len(outbox) # 0 /\ Len(outbox) # 1 /\ WriteByte("UPDATE_ACK", "participant_id")
    BY <1>1, <1>5, <1>7 DEF WriteByte
  <2> QED  BY <1>2, <2>1, <2>2, NextInTurn
<1>9. FramesInTurn'
  BY <1>1, <1>2, RanFrames
<1> QED  BY <1>1, <1>4, <1>5, <1>6, <1>7, <1>8, <1>9 DEF Progress

\* A frame arrives in its turn, and is not handled yet.
LEMMA StageFrameArrives ==
  ASSUME TypeOK, Control, Counting, Stage, FrameArrives
  PROVE  Stage'
<1> SUFFICES ASSUME orderly' PROVE FramesInTurn' /\ Progress' /\ InTurn'
  BY DEF Stage
<1>1. PICK f \in Offered : ready' = Append(ready, Read(f))
  BY DEF FrameArrives
<1>2. /\ reading /\ received' = received + 1 /\ orderly
      /\ UNCHANGED << outbox, waits, participant_id_ >>
  BY DEF FrameArrives
<1>3. FramesInTurn /\ Progress /\ InTurn /\ ~Has("read") /\ received \in Nat
  BY <1>2 DEF Stage, Control, TypeOK
<1>4. /\ received < 3 => f = Opening[received + 1]
      /\ ~(received < 3) => f \in Frames /\ \A n \in 1 .. 3 : f # Opening[n]
  BY <1>2, OpeningFacts DEF Offered, Contains
<1>5. f \in Frames
  <2>1. CASE received < 3
    <3>1. received + 1 \in {1, 2, 3}
      BY <1>3, <2>1
    <3> QED  BY <1>4, <2>1, <3>1, OpeningFacts DEF Frames
  <2> QED  BY <1>4, <2>1
<1>6. Adds("read")
  BY <1>1, <1>3, <1>5, AppendAdds, HandlerFacts, ControlParts DEF TypeOK
<1>7. Handled' = Handled
  BY <1>2, <1>3, <1>6 DEF Adds, Handled
<1>8. Progress'
  BY <1>2, <1>3, <1>6, <1>7 DEF Progress, Adds
<1>9. InTurn'
  BY <1>2, <1>3 DEF InTurn
<1>10. /\ Len(ready) \in Nat /\ DOMAIN ready = 1 .. Len(ready)
       /\ ready' \in Seq(Handlers) /\ Len(ready') = Len(ready) + 1
       /\ \A i \in 1 .. Len(ready) : ready'[i] = ready[i]
       /\ ready'[Len(ready) + 1] = Read(f)
  BY <1>1, <1>5, QueueFacts, HandlerFacts DEF TypeOK
<1>11. DOMAIN ready' = 1 .. Len(ready) + 1
  BY <1>10, LenProperties
<1>12. ASSUME NEW i \in DOMAIN ready', ready'[i].type = "read"
       PROVE  IF received' <= 3 THEN received' >= 1 /\ ready'[i].frame = Opening[received']
              ELSE \A n \in 1 .. 3 : ready'[i].frame # Opening[n]
  <2>1. i \notin DOMAIN ready
    BY <1>3, <1>10, <1>12 DEF Has
  <2>2. i = Len(ready) + 1
    BY <1>10, <1>11, <2>1
  <2>3. ready'[i].frame = f
    BY <1>10, <2>2, HandlerFacts
  <2>4. /\ received' <= 3 <=> received < 3
        /\ received' >= 1
    BY <1>2, <1>3
  <2> QED  BY <1>2, <1>4, <2>3, <2>4
<1>13. FramesInTurn'
  BY <1>12 DEF FramesInTurn
<1> QED  BY <1>8, <1>9, <1>13

LEMMA StageTimerExpires ==
  ASSUME TypeOK, Control, Counting, Stage, TimerExpires
  PROVE  Stage'
<1> SUFFICES ASSUME orderly' PROVE FramesInTurn' /\ Progress' /\ InTurn'
  BY DEF Stage
<1>1. /\ waits > 0 /\ ~Has("tick") /\ ready' = Append(ready, Do("tick")) /\ orderly
      /\ UNCHANGED << received, outbox, participant_id_ >>
  BY NotQueued DEF TimerExpires, netVars
<1>2. FramesInTurn /\ Progress /\ InTurn
  BY <1>1 DEF Stage
<1>3. Do("tick") \in Handlers /\ Do("tick").type = "tick"
  BY HandlerFacts DEF DoTypes
<1>4. Adds("tick")
  BY <1>1, <1>3, AppendAdds, ControlParts DEF TypeOK
<1>5. Handled' = Handled
  BY <1>1, <1>4 DEF Adds, Handled
<1>6. ~(Handled < 3)
  BY <1>1, <1>2 DEF Progress
<1>7. Progress'
  BY <1>1, <1>2, <1>5, <1>6 DEF Progress
<1>8. FramesInTurn'
  BY <1>1, <1>2, <1>3, AppendFrames
<1>9. InTurn'
  BY <1>1, <1>2 DEF InTurn
<1> QED  BY <1>7, <1>8, <1>9

\* Steps that touch neither frames nor messages nor ticks.
LEMMA StageSame ==
  ASSUME TypeOK, Control, Stage, FramesInTurn => FramesInTurn',
         UNCHANGED << orderly, received, outbox, waits, participant_id_ >>,
         Has("read")' <=> Has("read"), Has("tick")' <=> Has("tick")
  PROVE  Stage'
<1>1. Handled' = Handled
  BY DEF Handled
<1> QED  BY <1>1 DEF Stage, Progress, InTurn

LEMMA StageOthers ==
  ASSUME TypeOK, Control, Counting, Stage,
         \/ Connected \/ Close \/ Fails \/ TickAborted \/ Pushed \/ WriteHandler \/ RunReturns
         \/ Connects \/ ConnectFails \/ ReadFails \/ KernelTakes \/ WriteFails
         \/ Breaks \/ InputEnds \/ Joins \/ UNCHANGED vars
  PROVE  Stage'
<1>1. CASE Connected \/ Close \/ Fails \/ TickAborted \/ Pushed \/ WriteHandler
  <2>1. UNCHANGED << orderly, received, outbox, waits, participant_id_ >>
    BY <1>1 DEF Connected, Close, Fails, TickAborted, Pushed, WriteHandler, netVars
  <2>2. \E h : Ran(h, {}) /\ h.type \notin {"read", "tick"}
    <3>1. CASE Connected \/ Close \/ TickAborted \/ WriteHandler
      BY <3>1, ConnectedRan, CloseRan, TickAbortedRan, WriteHandlerRan, HandlerFacts DEF DoTypes
    <3>2. CASE Fails
      BY <3>2, FailsRan, HandlerFacts DEF DoTypes
    <3>3. CASE Pushed
      <4>1. PICK m \in Numbers : Runs(Push(m)) /\ Return(<< >>)
        BY <3>3 DEF Pushed
      <4> QED  BY <4>1, QuietRan, HandlerFacts
    <3> QED  BY <1>1, <3>1, <3>2, <3>3
  <2>3. PICK h : Ran(h, {}) /\ h.type \notin {"read", "tick"}
    BY <2>2
  <2>4. Drops(h.type)
    BY <2>3, RanDrops, ControlParts DEF TypeOK
  <2>5. FramesInTurn => FramesInTurn'
    BY <2>1, <2>3, RanFrames
  <2> QED  BY <2>1, <2>3, <2>4, <2>5, StageSame DEF Drops
<1>2. CASE /\ UNCHANGED << orderly, received, outbox, waits, participant_id_ >>
           /\ \E t \in {"connect", "connect_error", "read_error", "write", "write_error", "close"} :
                 ready' = Append(ready, Do(t)) /\ (t \in Serial => ~Has(t))
  <2>1. PICK t \in {"connect", "connect_error", "read_error", "write", "write_error", "close"} :
           ready' = Append(ready, Do(t)) /\ (t \in Serial => ~Has(t))
    BY <1>2
  <2>2. Do(t) \in Handlers /\ Do(t).type = t
    BY HandlerFacts DEF DoTypes
  <2>3. Adds(t)
    BY <2>1, <2>2, AppendAdds, ControlParts DEF TypeOK
  <2>4. FramesInTurn => FramesInTurn'
    BY <1>2, <2>1, <2>2, AppendFrames
  <2> QED  BY <1>2, <2>3, <2>4, StageSame DEF Adds
<1>3. CASE UNCHANGED << orderly, received, outbox, waits, participant_id_, ready >>
  BY <1>3, StageSame DEF FramesInTurn, Has
<1>4. CASE Connects \/ ConnectFails \/ ReadFails \/ WriteFails \/ InputEnds
  <2>1. UNCHANGED << orderly, received, outbox, waits, participant_id_ >>
    BY <1>4 DEF Connects, ConnectFails, ReadFails, WriteFails, InputEnds, netVars
  <2>2. \E t \in {"connect", "connect_error", "read_error", "write", "write_error", "close"} :
           ready' = Append(ready, Do(t)) /\ (t \in Serial => ~Has(t))
    BY <1>4 DEF Connects, ConnectFails, ReadFails, WriteFails, InputEnds, Serial, Control
  <2> QED  BY <1>2, <2>1, <2>2
<1>5. CASE KernelTakes
  <2>1. UNCHANGED << orderly, received, outbox, waits, participant_id_ >> /\ ~Has("write")
    BY <1>5 DEF KernelTakes, netVars, Control
  <2>2. ready' = ready \/ ready' = Append(ready, Do("write"))
    BY <1>5, Taken
  <2> QED  BY <1>2, <1>3, <2>1, <2>2
<1>6. CASE RunReturns \/ Breaks \/ Joins \/ UNCHANGED vars
  <2>1. UNCHANGED << orderly, received, outbox, waits, participant_id_, ready >>
    BY <1>6 DEF RunReturns, Breaks, Joins, vars, netVars
  <2> QED  BY <1>3, <2>1
<1> QED  BY <1>1, <1>4, <1>5, <1>6

LEMMA InitStage == Init => Stage
<1> SUFFICES ASSUME Init PROVE Stage
  OBVIOUS
<1>1. /\ DOMAIN ready = {} /\ outbox = << >> /\ DOMAIN outbox = {}
      /\ received = 0 /\ waits = 0
  BY DEF Init
<1>2. ~Has("tick") /\ ~Has("read")
  BY <1>1 DEF Has
<1>3. Handled = 0 /\ Len(outbox) = 0
  BY <1>1, <1>2, EmptySeq DEF Handled
<1> QED  BY <1>1, <1>2, <1>3 DEF Stage, FramesInTurn, Progress, InTurn

LEMMA StepStage == TypeOK /\ Control /\ Counting /\ Stage /\ [Next]_vars => Stage'
<1> SUFFICES ASSUME TypeOK, Control, Counting, Stage, [Next]_vars PROVE Stage'
  OBVIOUS
<1> QED  BY StageHello, StageCredentials, StageJoin, StagePrinted, StageTick,
            StageFrameArrives, StageTimerExpires, StageOthers DEF Next, IoThread, Network

\* With the frames in the server's order the client greets, sends its credentials
\* and then only updates, however the timer and the frames interleave.
THEOREM AnswersInTurnHolds == Spec => []AnswersInTurn
<1>1. Init => TypeOK /\ Control /\ Counting /\ Stage
  BY InitKept, InitStage
<1>2. TypeOK /\ Control /\ Counting /\ Stage /\ [Next]_vars => (TypeOK /\ Control /\ Counting /\ Stage)'
  BY StepKept, StepStage DEF Kept
<1>3. Stage => AnswersInTurn
  BY DEF Stage, InTurn, AnswersInTurn
<1> QED  BY <1>1, <1>2, <1>3, PTL DEF Spec

\* Every update then carries the id of PARTICIPANT_JOIN: no tick is armed before.
THEOREM UpdatesNameParticipantHolds == Spec => []UpdatesNameParticipant
<1>1. Init => TypeOK /\ Control /\ Counting /\ Stage
  BY InitKept, InitStage
<1>2. TypeOK /\ Control /\ Counting /\ Stage /\ [Next]_vars => (TypeOK /\ Control /\ Counting /\ Stage)'
  BY StepKept, StepStage DEF Kept
<1>3. Stage => UpdatesNameParticipant
  BY DEF Stage, InTurn, UpdatesNameParticipant
<1> QED  BY <1>1, <1>2, <1>3, PTL DEF Spec

-----------------------------------------------------------------------------
(* The stream: the messages posted, pushed and written.                    *)

\* A message posted now comes behind those that were.
LEMMA PushesRan ==
  ASSUME ready \in Seq(Handlers), NEW h, NEW M \in SUBSET Numbers, Ran(h, M), PushedInOrder,
         \A m \in M, k \in Numbers : Posted(k) => k < m
  PROVE  /\ PushedInOrder'
         /\ \A m \in Numbers : Posted(m)' <=> m \in M \/ (Posted(m) /\ h # Push(m))
<1>1. PICK p : Posts(p, M) /\ Return(p)
  BY DEF Ran
<1>2. /\ ready # << >> /\ ready[1] = h /\ Len(ready) \in Nat /\ Len(ready) >= 1
      /\ DOMAIN ready = 1 .. Len(ready) /\ \A i \in DOMAIN ready : ready[i] \in Handlers
      /\ p \in Seq(Handlers) /\ DOMAIN p = 1 .. Len(p) /\ Len(p) \in Nat
  BY <1>1, QueueFacts DEF Posts, Plain, Ran, Runs
<1>3. /\ ready' \in Seq(Handlers) /\ Len(ready') = Len(ready) - 1 + Len(p)
      /\ \A i \in 1 .. Len(ready) - 1 : ready'[i] = ready[i + 1]
      /\ \A i \in 1 .. Len(p) : ready'[Len(ready) - 1 + i] = p[i]
  BY <1>1, <1>2, Returned
<1>4. DOMAIN ready' = 1 .. Len(ready) - 1 + Len(p)
  BY <1>3, LenProperties
<1> DEFINE L == Len(ready) - 1
<1>5. ASSUME NEW i \in DOMAIN ready'
      PROVE  \/ i <= L /\ i + 1 \in DOMAIN ready /\ ready'[i] = ready[i + 1]
             \/ i > L /\ i - L \in DOMAIN p /\ ready'[i] = p[i - L]
  <2>1. CASE i <= L
    <3>1. i \in 1 .. L /\ i + 1 \in DOMAIN ready
      BY <1>2, <1>4, <2>1
    <3> QED  BY <1>3, <2>1, <3>1
  <2>2. CASE ~(i <= L)
    <3>1. i - L \in 1 .. Len(p) /\ L + (i - L) = i /\ i > L
      BY <1>2, <1>4, <2>2
    <3> QED  BY <1>2, <1>3, <3>1
  <2> QED  BY <2>1, <2>2
<1>6. ASSUME NEW i \in DOMAIN ready, ready[i].type = "push"
      PROVE  ready[i].message \in Numbers /\ Posted(ready[i].message)
  BY <1>2, <1>6, HandlerFacts DEF Posted
<1>7. PushedInOrder'
  <2> SUFFICES ASSUME NEW i \in DOMAIN ready', NEW j \in DOMAIN ready', i < j,
                      ready'[i].type = "push", ready'[j].type = "push"
               PROVE  ready'[i].message < ready'[j].message
    BY DEF PushedInOrder
  <2>1. i \in Int /\ j \in Int /\ L \in Int
    BY <1>2, <1>4
  <2> HIDE DEF L
  <2>2. CASE j <= L
    <3>1. /\ i + 1 \in DOMAIN ready /\ ready'[i] = ready[i + 1]
          /\ j + 1 \in DOMAIN ready /\ ready'[j] = ready[j + 1]
          /\ i + 1 < j + 1
      BY <1>5, <2>1, <2>2
    <3> QED  BY <3>1 DEF PushedInOrder
  <2>3. CASE j > L /\ i <= L
    <3>1. /\ i + 1 \in DOMAIN ready /\ ready'[i] = ready[i + 1]
          /\ j - L \in DOMAIN p /\ ready'[j] = p[j - L]
      BY <1>5, <2>1, <2>3
    <3>2. ready'[j].message \in M
      BY <1>1, <3>1 DEF Posts
    <3>3. ready'[i].message \in Numbers /\ Posted(ready'[i].message)
      BY <1>6, <3>1
    <3> QED  BY <3>2, <3>3
  <2>4. CASE i > L /\ j > L
    <3>1. /\ i - L \in DOMAIN p /\ ready'[i] = p[i - L]
          /\ j - L \in DOMAIN p /\ ready'[j] = p[j - L]
      BY <1>5, <2>1, <2>4
    <3>2. i - L = j - L
      BY <1>1, <3>1 DEF Posts
    <3> QED  BY <2>1, <3>2
  <2> QED  BY <2>1, <2>2, <2>3, <2>4
<1>8. ASSUME NEW m \in Numbers, Posted(m)' PROVE m \in M \/ (Posted(m) /\ h # Push(m))
  <2>1. PICK i \in DOMAIN ready' : ready'[i] = Push(m)
    BY <1>8 DEF Posted
  <2>2. Push(m).type = "push" /\ Push(m).message = m
    BY HandlerFacts
  <2> HIDE DEF L
  <2>3. CASE i > L
    <3>1. i - L \in DOMAIN p /\ p[i - L] = Push(m)
      BY <1>5, <2>1, <2>3, <1>2, <1>4 DEF L
    <3> QED  BY <1>1, <2>2, <3>1 DEF Posts
  <2>4. CASE ~(i > L)
    <3>1. i + 1 \in DOMAIN ready /\ ready[i + 1] = Push(m)
      BY <1>5, <2>1, <2>4
    <3>2. 1 \in DOMAIN ready /\ 1 < i + 1 /\ i + 1 \in Int
      BY <1>2, <1>4, <3>1
    <3>3. h # Push(m)
      <4> SUFFICES ASSUME h = Push(m) PROVE FALSE
        OBVIOUS
      <4>1. m < m
        BY <1>2, <2>2, <3>1, <3>2 DEF PushedInOrder
      <4> QED  BY <4>1 DEF Numbers
    <3> QED  BY <3>1, <3>3 DEF Posted
  <2> QED  BY <2>3, <2>4
<1>9. ASSUME NEW m \in M PROVE Posted(m)'
  <2>1. PICK k \in DOMAIN p : p[k] = Push(m)
    BY <1>1 DEF Posts
  <2>2. L + k \in DOMAIN ready' /\ ready'[L + k] = p[k]
    BY <1>2, <1>3, <1>4
  <2> QED  BY <2>1, <2>2 DEF Posted
<1>10. ASSUME NEW m \in Numbers, Posted(m), h # Push(m) PROVE Posted(m)'
  <2>1. PICK i \in DOMAIN ready : ready[i] = Push(m)
    BY <1>10 DEF Posted
  <2>2. i - 1 \in 1 .. Len(ready) - 1 /\ (i - 1) + 1 = i
    BY <1>2, <1>10, <2>1
  <2>3. ready'[i - 1] = ready[(i - 1) + 1] /\ i - 1 \in DOMAIN ready'
    BY <1>2, <1>3, <1>4, <2>2
  <2> QED  BY <2>1, <2>2, <2>3 DEF Posted
<1> QED  BY <1>7, <1>8, <1>9, <1>10

LEMMA PushesAppend ==
  ASSUME ready \in Seq(Handlers), NEW h \in Handlers, ready' = Append(ready, h), h.type # "push",
         PushedInOrder
  PROVE  PushedInOrder' /\ \A m \in Numbers : Posted(m)' <=> Posted(m)
<1>1. /\ Len(ready) \in Nat /\ DOMAIN ready = 1 .. Len(ready)
      /\ ready' \in Seq(Handlers) /\ Len(ready') = Len(ready) + 1
      /\ \A i \in 1 .. Len(ready) : ready'[i] = ready[i]
      /\ ready'[Len(ready) + 1] = h
  BY QueueFacts
<1>2. DOMAIN ready' = 1 .. Len(ready) + 1
  BY <1>1, LenProperties
<1>3. \A i \in DOMAIN ready : i \in DOMAIN ready' /\ ready'[i] = ready[i]
  BY <1>1, <1>2
<1>4. \A i \in DOMAIN ready' : ready'[i].type = "push" => i \in DOMAIN ready
  BY <1>1, <1>2
<1>5. PushedInOrder'
  BY <1>3, <1>4 DEF PushedInOrder
<1>6. \A m : Push(m).type = "push"
  BY HandlerFacts
<1>7. \A m \in Numbers : Posted(m)' <=> Posted(m)
  BY <1>3, <1>4, <1>6 DEF Posted
<1> QED  BY <1>5, <1>7

\* What is neither posted, pushed nor written is where it was.
LEMMA StreamSame ==
  ASSUME Stream, PushedInOrder', Has("write")' <=> Has("write"),
         \A m \in Numbers : Posted(m)' <=> Posted(m),
         UNCHANGED << outbox, deque_write_buffer_, written, wire >>
  PROVE  Stream'
<1>1. PICK f \in Nat : Flow(f)
  BY DEF Stream
<1>2. Flow(f)'
  BY <1>1 DEF Flow
<1>3. WireIsStream'
  BY DEF Stream, WireIsStream
<1> QED  BY <1>2, <1>3 DEF Stream

\* A handler that hands nothing over and is no part of the writing.
LEMMA StreamQuiet ==
  ASSUME TypeOK, Control, Stream, Connected \/ Join \/ Printed \/ Fails \/ Close \/ TickAborted
  PROVE  Stream'
<1>1. \E h : Ran(h, {}) /\ h.type \notin {"write", "push"}
  <2>1. CASE Connected \/ Close \/ TickAborted
    BY <2>1, ConnectedRan, CloseRan, TickAbortedRan, HandlerFacts DEF DoTypes
  <2>2. CASE Join \/ Printed
    <3>1. \E f : Ran(Read(f), {})
      BY <2>2, JoinRan, PrintedRan
    <3> QED  BY <3>1, HandlerFacts
  <2>3. CASE Fails
    BY <2>3, FailsRan, HandlerFacts DEF DoTypes
  <2> QED  BY <2>1, <2>2, <2>3
<1>2. PICK h : Ran(h, {}) /\ h.type \notin {"write", "push"}
  BY <1>1
<1>3. UNCHANGED << outbox, deque_write_buffer_, written, wire >>
  BY DEF Connected, Join, Printed, Fails, Close, TickAborted, writeVars
<1>4. Has("write")' <=> Has("write")
  BY <1>2, RanDrops, ControlParts DEF Drops, TypeOK
<1>5. \A m : h # Push(m)
  BY <1>2, HandlerFacts
<1>6. ready \in Seq(Handlers) /\ PushedInOrder /\ {} \in SUBSET Numbers
  BY DEF TypeOK, Stream
<1>7. PushedInOrder' /\ \A m \in Numbers : Posted(m)' <=> Posted(m)
  BY <1>2, <1>5, <1>6, PushesRan
<1> QED  BY <1>3, <1>4, <1>7, StreamSame

\* A message handed over is posted behind the others.
LEMMA StreamHands ==
  ASSUME TypeOK, Control, Counting, Stream, Hello \/ Credentials \/ Tick
  PROVE  Stream'
<1> DEFINE n == Len(outbox) + 1
<1>1. \E h : Ran(h, {n}) /\ h.type \notin {"write", "push"}
  <2>1. CASE Hello \/ Credentials
    <3>1. \E f : Ran(Read(f), {n})
      BY <2>1, HelloRan, CredentialsRan
    <3> QED  BY <3>1, HandlerFacts
  <2>2. CASE Tick
    BY <2>2, TickRan, HandlerFacts DEF DoTypes
  <2> QED  BY <2>1, <2>2
<1>2. n \in Numbers
  BY HelloRan, CredentialsRan, TickRan
<1>3. UNCHANGED << deque_write_buffer_, written, wire >>
  BY DEF Hello, Credentials, Tick, writeVars
<1>4. Len(outbox') = n /\ Len(outbox) \in Nat
  <2>1. outbox \in Seq(Messages) /\ participant_id_ \in Names
    BY DEF TypeOK
  <2>2. CASE Hello \/ Credentials
    BY <2>1, <2>2, MessageTypes, OutboxGrows DEF Hello, Credentials
  <2>3. CASE Tick
    BY <2>1, <2>3, MessageTypes, OutboxGrows DEF Tick
  <2> QED  BY <2>2, <2>3
<1> HIDE DEF n
<1>5. PICK h : Ran(h, {n}) /\ h.type \notin {"write", "push"}
  BY <1>1
<1>6. Has("write")' <=> Has("write")
  BY <1>5, RanDrops, ControlParts DEF Drops, TypeOK
<1>7. \A m : h # Push(m)
  BY <1>5, HandlerFacts
<1>8. PICK f \in Nat : Flow(f)
  BY DEF Stream
<1>9. deque_write_buffer_ \in Seq(Numbers) /\ Len(deque_write_buffer_) \in Nat
  BY LenProperties DEF TypeOK
<1>10. \A k \in Numbers : Posted(k) => k < n
  BY <1>4, <1>8 DEF Flow, n, Numbers
<1>11. ready \in Seq(Handlers) /\ PushedInOrder /\ {n} \in SUBSET Numbers
  BY <1>2 DEF TypeOK, Stream
<1>12. \A m \in {n}, k \in Numbers : Posted(k) => k < m
  BY <1>10
<1>13. PushedInOrder' /\ \A m \in Numbers : Posted(m)' <=> m \in {n} \/ (Posted(m) /\ h # Push(m))
  BY <1>5, <1>11, <1>12, PushesRan
<1>14. Flow(f)'
  <2> DEFINE pushed == f + Len(deque_write_buffer_)
  <2>1. /\ \A i \in DOMAIN deque_write_buffer_ : deque_write_buffer_[i] = f + i
        /\ pushed <= Len(outbox) /\ pushed \in Nat
        /\ \A m \in Numbers : Posted(m) <=> pushed < m /\ m <= Len(outbox)
        /\ Len(wire) = IF Has("write") THEN f * Parts + Parts ELSE f * Parts + written
    BY <1>8, <1>9 DEF Flow
  <2>2. pushed' = pushed
    BY <1>3
  <2> HIDE DEF pushed
  <2>3. \A m \in Numbers : Posted(m)' <=> pushed < m /\ m <= n
    BY <1>4, <1>7, <1>13, <2>1 DEF n, Numbers
  <2>4. pushed <= n
    BY <1>4, <2>1 DEF n
  <2>5. /\ (\A i \in DOMAIN deque_write_buffer_ : deque_write_buffer_[i] = f + i)'
        /\ (Len(wire) = IF Has("write") THEN f * Parts + Parts ELSE f * Parts + written)'
    BY <1>3, <1>6, <2>1
  <2> QED  BY <1>3, <1>4, <2>3, <2>4, <2>5 DEF Flow, pushed
<1>15. WireIsStream'
  BY <1>3 DEF Stream, WireIsStream
<1> QED  BY <1>13, <1>14, <1>15 DEF Stream

\* The message pushed is the next one.
LEMMA StreamPushed ==
  ASSUME TypeOK, Control, Stream, Pushed
  PROVE  Stream'
<1>1. PICK m \in Numbers :
         /\ Runs(Push(m)) /\ Return(<< >>)
         /\ deque_write_buffer_' = Append(deque_write_buffer_, m)
         /\ UNCHANGED << written, wire, outbox >>
  BY DEF Pushed
<1>2. PICK f \in Nat : Flow(f)
  BY DEF Stream
<1> DEFINE D == Len(deque_write_buffer_)
           pushed == f + D
<1>3. /\ D \in Nat /\ DOMAIN deque_write_buffer_ = 1 .. D
      /\ deque_write_buffer_' \in Seq(Numbers) /\ Len(deque_write_buffer_') = D + 1
      /\ \A i \in 1 .. D : deque_write_buffer_'[i] = deque_write_buffer_[i]
      /\ deque_write_buffer_'[D + 1] = m
  BY <1>1, QueueFacts DEF TypeOK
<1>4. DOMAIN deque_write_buffer_' = 1 .. D + 1
  BY <1>3, LenProperties
<1>5. /\ \A i \in 1 .. D : deque_write_buffer_[i] = f + i
      /\ pushed <= Len(outbox) /\ pushed \in Nat
      /\ \A k \in Numbers : Posted(k) <=> pushed < k /\ k <= Len(outbox)
      /\ Len(wire) = IF Has("write") THEN f * Parts + Parts ELSE f * Parts + written
  BY <1>2, <1>3 DEF Flow
<1>6. Ran(Push(m), {}) /\ Push(m).type = "push" /\ Push(m).message = m
  BY <1>1, QuietRan, HandlerFacts
<1>7. Has("write")' <=> Has("write")
  BY <1>6, RanDrops, ControlParts DEF Drops, TypeOK
<1>8. ready \in Seq(Handlers) /\ PushedInOrder /\ {} \in SUBSET Numbers
  BY DEF TypeOK, Stream
<1>9. PushedInOrder' /\ \A k \in Numbers : Posted(k)' <=> Posted(k) /\ Push(m) # Push(k)
  BY <1>6, <1>8, PushesRan
<1>10. 1 \in DOMAIN ready /\ ready[1] = Push(m) /\ DOMAIN ready \in SUBSET (Nat \ {0})
  BY <1>1, <1>8, RunsIn, LenProperties
<1> HIDE DEF pushed, D
<1>11. Len(outbox) \in Nat
  BY LenProperties DEF TypeOK
<1>12. m = pushed + 1
  <2>1. Posted(m)
    BY <1>10 DEF Posted
  <2>2. m \in Nat /\ pushed < m /\ m <= Len(outbox)
    BY <1>5, <2>1 DEF Numbers
  <2>3. pushed + 1 \in Numbers /\ pushed < pushed + 1 /\ pushed + 1 <= Len(outbox)
    <3>1. MaxMessages \in Nat
      BY ChatAssumption DEF MaxMessages
    <3>2. m <= MaxMessages
      BY DEF Numbers
    <3> QED  BY <1>5, <1>11, <2>2, <3>1, <3>2 DEF Numbers
  <2>4. Posted(pushed + 1)
    BY <1>5, <2>3
  <2>5. PICK i \in DOMAIN ready : ready[i] = Push(pushed + 1)
    BY <2>4 DEF Posted
  <2>6. ready[i].type = "push" /\ ready[i].message = pushed + 1
    BY <2>5, HandlerFacts
  <2>7. CASE i = 1
    BY <1>6, <1>10, <2>6, <2>7
  <2>8. CASE i # 1
    <3>1. 1 < i
      BY <1>10, <2>8
    <3>2. m < pushed + 1
      BY <1>6, <1>8, <1>10, <2>6, <3>1 DEF PushedInOrder
    <3> QED  BY <1>5, <2>2, <3>2
  <2> QED  BY <2>7, <2>8
<1>13. \A k \in Numbers : Push(m) # Push(k) <=> k # m
  BY HandlerFacts
<1>14. Flow(f)'
  <2>1. \A i \in 1 .. D + 1 : deque_write_buffer_'[i] = f + i
    <3>1. ASSUME NEW i \in 1 .. D + 1 PROVE deque_write_buffer_'[i] = f + i
      <4>1. CASE i <= D
        <5>1. i \in 1 .. D
          BY <1>3, <4>1
        <5> QED  BY <1>3, <1>5, <5>1
      <4>2. CASE ~(i <= D)
        <5>1. i = D + 1
          BY <1>3, <4>2
        <5> QED  BY <1>3, <1>12, <5>1 DEF pushed
      <4> QED  BY <4>1, <4>2
    <3> QED  BY <3>1
  <2>2. f + Len(deque_write_buffer_') = pushed + 1
    BY <1>3 DEF pushed
  <2>3. m <= Len(outbox)
    BY <1>5, <1>10 DEF Posted
  <2>4. \A k \in Numbers : Posted(k)' <=> pushed + 1 < k /\ k <= Len(outbox)
    <3>1. \A k \in Numbers : Posted(k)' <=> (pushed < k /\ k <= Len(outbox)) /\ k # pushed + 1
      BY <1>5, <1>9, <1>12, <1>13
    <3>2. \A k \in Numbers : pushed < k /\ k # pushed + 1 <=> pushed + 1 < k
      BY <1>5 DEF Numbers
    <3> QED  BY <3>1, <3>2
  <2>5. outbox' = outbox /\ Len(wire') = IF Has("write")' THEN f * Parts + Parts ELSE f * Parts + written'
    BY <1>1, <1>5, <1>7
  <2>6. pushed + 1 <= Len(outbox)
    BY <1>12, <2>3
  <2> QED  BY <1>4, <2>1, <2>2, <2>4, <2>5, <2>6 DEF Flow
<1>15. WireIsStream'
  BY <1>1 DEF Stream, WireIsStream
<1> QED  BY <1>9, <1>14, <1>15 DEF Stream

LEMMA ProductGrows ==
  ASSUME NEW P \in Nat \ {0}, NEW a \in Nat, NEW b \in Nat, a <= b
  PROVE  /\ a * P \in Nat /\ b * P \in Nat /\ a * P <= b * P
         /\ (a + 1) * P = a * P + P
OBVIOUS

\* The front has been written whole and is popped.
LEMMA StreamWriteHandler ==
  ASSUME TypeOK, Control, Stream, WriteHandler
  PROVE  Stream'
<1>1. /\ deque_write_buffer_' = Tail(deque_write_buffer_)
      /\ UNCHANGED << written, wire, outbox >>
  BY DEF WriteHandler
<1>2. PICK f \in Nat : Flow(f)
  BY DEF Stream
<1>3. Ran(Do("write"), {}) /\ Do("write").type = "write"
  BY WriteHandlerRan, HandlerFacts DEF DoTypes
<1>4. Has("write") /\ ~Has("write")'
  BY <1>3, RanDrops, ControlParts DEF Drops, TypeOK
<1>5. deque_write_buffer_ # << >> /\ written = 0
  BY <1>4 DEF Control
<1> DEFINE D == Len(deque_write_buffer_)
<1>6. /\ D \in Nat /\ D >= 1 /\ DOMAIN deque_write_buffer_ = 1 .. D
      /\ deque_write_buffer_' \in Seq(Numbers) /\ Len(deque_write_buffer_') = D - 1
      /\ \A i \in 1 .. D - 1 : deque_write_buffer_'[i] = deque_write_buffer_[i + 1]
  BY <1>1, <1>5, QueueFacts DEF TypeOK
<1>7. DOMAIN deque_write_buffer_' = 1 .. D - 1
  BY <1>6, LenProperties
<1>8. ready \in Seq(Handlers) /\ PushedInOrder /\ {} \in SUBSET Numbers
  BY DEF TypeOK, Stream
<1>9. \A m : Do("write") # Push(m)
  BY <1>3, HandlerFacts
<1>10. PushedInOrder' /\ \A m \in Numbers : Posted(m)' <=> Posted(m)
  BY <1>3, <1>8, <1>9, PushesRan
<1>11. /\ \A i \in 1 .. D : deque_write_buffer_[i] = f + i
       /\ f + D <= Len(outbox)
       /\ \A m \in Numbers : Posted(m) <=> f + D < m /\ m <= Len(outbox)
       /\ Len(wire) = f * Parts + Parts
  BY <1>2, <1>4, <1>6 DEF Flow
<1> HIDE DEF D
<1>12. Flow(f + 1)'
  <2>1. ASSUME NEW i \in 1 .. D - 1 PROVE deque_write_buffer_'[i] = (f + 1) + i
    <3>1. i + 1 \in 1 .. D
      BY <1>6
    <3>2. deque_write_buffer_'[i] = f + (i + 1)
      BY <1>6, <1>11, <3>1
    <3> QED  BY <3>2
  <2>2. (f + 1) + Len(deque_write_buffer_') = f + D
    BY <1>6
  <2>3. Len(wire') = (f + 1) * Parts + written'
    <3>1. (f + 1) * Parts = f * Parts + Parts /\ f * Parts \in Nat
      BY ChatAssumption, ProductGrows
    <3> HIDE DEF D
    <3> QED  BY <1>1, <1>5, <1>11, <3>1, ChatAssumption
  <2>4. /\ \A m \in Numbers : Posted(m)' <=> f + D < m /\ m <= Len(outbox')
        /\ f + D <= Len(outbox')
    BY <1>1, <1>10, <1>11
  <2> QED  BY <1>4, <1>7, <2>1, <2>2, <2>3, <2>4 DEF Flow
<1>13. WireIsStream'
  BY <1>1 DEF Stream, WireIsStream
<1>14. f + 1 \in Nat
  OBVIOUS
<1> QED  BY <1>10, <1>12, <1>13, <1>14 DEF Stream

\* The place of part q of message n, counted from 0, divides back to n and q.
LEMMA Places ==
  ASSUME NEW P \in Nat \ {0}, NEW n \in Nat, NEW q \in 0 .. P - 1
  PROVE  (n * P + q) \div P = n /\ (n * P + q) % P = q
<1> DEFINE a == n * P + q
           d == a \div P
           r == a % P
<1>1. a \in Nat
  OBVIOUS
<1>2. d \in Int /\ r \in 0 .. P - 1 /\ a = d * P + r
  <2> HIDE DEF a
  <2> QED  BY <1>1
<1>3. ~(d < n)
  <2> SUFFICES ASSUME d < n PROVE FALSE
    OBVIOUS
  <2> HIDE DEF d, r
  <2>1. (n - d) * P >= P
    BY <1>2
  <2>2. (n - d) * P = r - q
    BY <1>2
  <2> QED  BY <1>2, <2>1, <2>2
<1>4. ~(d > n)
  <2> SUFFICES ASSUME d > n PROVE FALSE
    OBVIOUS
  <2> HIDE DEF d, r
  <2>1. (d - n) * P >= P
    BY <1>2
  <2>2. (d - n) * P = q - r
    BY <1>2
  <2> QED  BY <1>2, <2>1, <2>2
<1>5. d = n
  BY <1>2, <1>3, <1>4
<1>6. r = q
  <2> HIDE DEF d, r
  <2>1. n * P + q = n * P + r /\ n * P \in Int
    BY <1>2, <1>5
  <2> QED  BY <1>2, <2>1
<1> QED  BY <1>5, <1>6

\* The streams of n messages and of one more.
LEMMA StreamFacts ==
  ASSUME NEW n \in Nat
  PROVE  /\ n * Parts \in Nat
         /\ Promise!Stream(n) \in Seq(Nat \X Nat)
         /\ Len(Promise!Stream(n)) = n * Parts
         /\ \A i \in 1 .. n * Parts :
              Promise!Stream(n)[i] = << ((i - 1) \div Parts) + 1, ((i - 1) % Parts) + 1 >>
<1> DEFINE L == n * Parts
           s == [i \in 1 .. L |-> << ((i - 1) \div Parts) + 1, ((i - 1) % Parts) + 1 >>]
<1>1. L \in Nat /\ Parts \in Nat \ {0}
  BY ChatAssumption
<1>2. Promise!Stream(n) = s
  BY DEF Promise!Stream
<1> HIDE DEF L
<1>3. ASSUME NEW i \in 1 .. L PROVE ((i - 1) \div Parts) + 1 \in Nat /\ ((i - 1) % Parts) + 1 \in Nat
  BY <1>1
<1>4. s \in [1 .. L -> Nat \X Nat]
  BY <1>3
<1>5. s \in Seq(Nat \X Nat)
  BY <1>1, <1>4, SeqDef
<1>6. DOMAIN s = 1 .. L
  OBVIOUS
<1>7. \A i \in 1 .. L : s[i] = << ((i - 1) \div Parts) + 1, ((i - 1) % Parts) + 1 >>
  OBVIOUS
<1> HIDE DEF s
<1>8. Len(s) \in Nat /\ DOMAIN s = 1 .. Len(s)
  BY <1>5, LenProperties
<1>9. Len(s) = L
  BY <1>1, <1>6, <1>8
<1> QED  BY <1>1, <1>2, <1>5, <1>7, <1>9 DEF L

\* A wire that goes on as the stream does is the beginning of it.
LEMMA StreamPrefix ==
  ASSUME NEW a \in Nat, NEW w \in Seq(Nat \X Nat), Len(w) <= a * Parts,
         \A i \in 1 .. Len(w) : w[i] = << ((i - 1) \div Parts) + 1, ((i - 1) % Parts) + 1 >>
  PROVE  w = SubSeq(Promise!Stream(a), 1, Len(w))
<1> DEFINE L == Len(w)
           t == Promise!Stream(a)
           u == SubSeq(t, 1, L)
<1>1. L \in Nat /\ L <= a * Parts /\ a * Parts \in Nat
  BY StreamFacts, LenProperties
<1>2. /\ t \in Seq(Nat \X Nat) /\ Len(t) = a * Parts
      /\ \A i \in 1 .. a * Parts : t[i] = << ((i - 1) \div Parts) + 1, ((i - 1) % Parts) + 1 >>
  BY StreamFacts
<1>3. \A i \in 1 .. L : w[i] = << ((i - 1) \div Parts) + 1, ((i - 1) % Parts) + 1 >>
  OBVIOUS
<1> HIDE DEF L, t
<1>4. \A i \in 1 .. L : t[i] \in Nat \X Nat
  BY <1>1, <1>2, ElementOfSeq
<1>5. /\ u \in Seq(Nat \X Nat) /\ Len(u) = IF 1 <= L THEN L - 1 + 1 ELSE 0
      /\ \A i \in 1 .. L - 1 + 1 : u[i] = t[1 + i - 1]
  BY <1>1, <1>4, SubSeqProperties
<1> HIDE DEF u
<1>6. Len(u) = L
  BY <1>1, <1>5
<1>7. ASSUME NEW i \in 1 .. L PROVE w[i] = u[i]
  <2>1. i \in 1 .. L - 1 + 1 /\ 1 + i - 1 = i /\ i \in 1 .. a * Parts
    BY <1>1
  <2>2. u[i] = t[i]
    BY <1>5, <2>1
  <2> QED  BY <1>2, <1>3, <2>1, <2>2
<1> QED  BY <1>5, <1>6, <1>7, SeqEqual DEF L, t, u

\* What the kernel takes of the front: the next pieces of the stream, and none
\* of a message that was not handed over.
LEMMA StreamKernelTakes ==
  ASSUME TypeOK, Control, Stream, KernelTakes
  PROVE  Stream' /\ Len(wire) \in Nat /\ Len(wire') \in Nat /\ Len(wire) < Len(wire')
         /\ Len(wire') <= Len(outbox) * Parts
<1>1. PICK n \in 1 .. Parts - written :
         /\ wire' \in Seq(Numbers \X (1 .. Parts))
         /\ Len(wire) \in Nat /\ Len(wire') = Len(wire) + n
         /\ \A i \in 1 .. Len(wire) : wire'[i] = wire[i]
         /\ \A i \in 1 .. n : wire'[Len(wire) + i] = << Head(deque_write_buffer_), written + i >>
         /\ IF written + n < Parts
            THEN written' = written + n /\ writing' = writing /\ ready' = ready
            ELSE written' = 0 /\ writing' = FALSE /\ ready' = Append(ready, Do("write"))
  BY Taken
<1>2. writing = TRUE /\ deque_write_buffer_ # << >> /\ ~Has("write")
      /\ UNCHANGED << outbox, deque_write_buffer_ >>
  BY DEF KernelTakes, Control, TypeOK
<1>3. PICK f \in Nat : Flow(f)
  BY DEF Stream
<1> DEFINE D == Len(deque_write_buffer_)
           L == f * Parts
           a == Len(outbox)
<1>4. /\ D \in Nat /\ D >= 1 /\ DOMAIN deque_write_buffer_ = 1 .. D
      /\ Head(deque_write_buffer_) = deque_write_buffer_[1]
  BY <1>2, QueueFacts DEF TypeOK
<1>5. /\ Head(deque_write_buffer_) = f + 1 /\ f + D <= a /\ Len(wire) = L + written
      /\ \A m \in Numbers : Posted(m) <=> f + D < m /\ m <= a
      /\ \A i \in DOMAIN deque_write_buffer_ : deque_write_buffer_[i] = f + i
  BY <1>2, <1>3, <1>4 DEF Flow
<1>6. Parts \in Nat \ {0} /\ written \in 0 .. Parts - 1 /\ n \in Nat /\ n >= 1 /\ written + n <= Parts
  BY ChatAssumption DEF TypeOK
<1>7. a \in Nat
  BY LenProperties DEF TypeOK
<1>8. L \in Nat /\ L + Parts <= a * Parts /\ a * Parts \in Nat
  <2>1. f + 1 <= a /\ f + 1 \in Nat
    BY <1>4, <1>5, <1>7
  <2> HIDE DEF a
  <2>2. (f + 1) * Parts <= a * Parts /\ (f + 1) * Parts = L + Parts /\ L \in Nat /\ a * Parts \in Nat
    BY <1>6, <1>7, <2>1, ProductGrows
  <2> QED  BY <2>2
<1>9. DOMAIN wire' = 1 .. Len(wire) + n /\ DOMAIN wire = 1 .. Len(wire)
  BY <1>1, LenProperties DEF TypeOK
<1>10. WireIsStream'
  <2> SUFFICES ASSUME NEW i \in 1 .. Len(wire) + n
               PROVE  wire'[i] = << ((i - 1) \div Parts) + 1, ((i - 1) % Parts) + 1 >>
    BY <1>9 DEF WireIsStream
  <2>1. CASE i <= Len(wire)
    <3>1. i \in 1 .. Len(wire)
      BY <1>1, <1>6, <2>1
    <3> QED  BY <1>1, <1>9, <3>1 DEF Stream, WireIsStream
  <2>2. CASE ~(i <= Len(wire))
    <3> DEFINE k == i - Len(wire)
               q == written + k - 1
    <3>1. k \in 1 .. n /\ Len(wire) + k = i
      BY <1>1, <1>6, <2>2
    <3>2. wire'[i] = << f + 1, written + k >>
      BY <1>1, <1>5, <3>1
    <3> HIDE DEF k, L
    <3>3. q \in 0 .. Parts - 1 /\ written + k = q + 1
      BY <1>6, <3>1
    <3>4. i - 1 = L + q
      BY <1>5, <1>6, <1>8, <3>1
    <3> HIDE DEF q
    <3>5. (L + q) \div Parts = f /\ (L + q) % Parts = q
      BY <1>6, <3>3, Places DEF L
    <3> QED  BY <3>2, <3>3, <3>4, <3>5
  <2> QED  BY <2>1, <2>2
<1> HIDE DEF D, L, a
<1>11. Len(wire') = L + (written + n) /\ Len(wire) < Len(wire') /\ Len(wire') <= a * Parts
  BY <1>1, <1>5, <1>6, <1>8
<1>12. ready \in Seq(Handlers) /\ PushedInOrder
  BY DEF TypeOK, Stream
<1>13. CASE written + n < Parts
  <2>1. written' = written + n /\ ready' = ready
    BY <1>1, <1>13
  <2>2. PushedInOrder' /\ ~Has("write")' /\ \A m \in Numbers : Posted(m)' <=> Posted(m)
    BY <1>2, <1>12, <2>1 DEF PushedInOrder, Has, Posted
  <2>3. Flow(f)'
    BY <1>2, <1>5, <1>11, <2>1, <2>2 DEF Flow, D, L, a
  <2>4. Stream'
    BY <1>10, <2>2, <2>3 DEF Stream
  <2> QED  BY <1>1, <1>8, <1>11, <2>4 DEF a
<1>14. CASE ~(written + n < Parts)
  <2>1. written' = 0 /\ ready' = Append(ready, Do("write")) /\ written + n = Parts
    <3>1. written' = 0 /\ ready' = Append(ready, Do("write"))
      BY <1>1, <1>14
    <3>2. written + n = Parts
      BY <1>6, <1>14
    <3> QED  BY <3>1, <3>2
  <2>2. Do("write") \in Handlers /\ Do("write").type = "write"
    BY HandlerFacts DEF DoTypes
  <2>3. PushedInOrder' /\ \A m \in Numbers : Posted(m)' <=> Posted(m)
    BY <1>12, <2>1, <2>2, PushesAppend
  <2>4. Has("write")'
    BY <1>2, <1>12, <2>1, <2>2, AppendAdds, ControlParts DEF Adds
  <2>5. Flow(f)'
    BY <1>2, <1>5, <1>11, <2>1, <2>3, <2>4 DEF Flow, D, L, a
  <2>6. Stream'
    BY <1>10, <2>3, <2>5 DEF Stream
  <2> QED  BY <1>1, <1>8, <1>11, <2>6 DEF a
<1> QED  BY <1>13, <1>14

LEMMA StreamOthers ==
  ASSUME TypeOK, Control, Stream,
         \/ Connects \/ ConnectFails \/ FrameArrives \/ ReadFails \/ WriteFails \/ TimerExpires
         \/ InputEnds \/ RunReturns \/ Breaks \/ Joins \/ UNCHANGED vars
  PROVE  Stream'
<1>1. UNCHANGED << outbox, deque_write_buffer_, written, wire >>
  BY DEF Connects, ConnectFails, FrameArrives, ReadFails, WriteFails, TimerExpires,
         InputEnds, RunReturns, Breaks, Joins, vars, writeVars
<1>2. ready \in Seq(Handlers) /\ PushedInOrder /\ OneOfEach
  BY ControlParts DEF TypeOK, Stream
<1>3. CASE ready' = ready
  <2>1. PushedInOrder' /\ (Has("write")' <=> Has("write")) /\ \A m \in Numbers : Posted(m)' <=> Posted(m)
    BY <1>2, <1>3 DEF PushedInOrder, Has, Posted
  <2> QED  BY <1>1, <2>1, StreamSame
<1>4. ASSUME NEW h \in Handlers, ready' = Append(ready, h), h.type \notin {"push", "write"}
      PROVE  Stream'
  <2>1. PushedInOrder' /\ \A m \in Numbers : Posted(m)' <=> Posted(m)
    BY <1>2, <1>4, PushesAppend
  <2>2. Has("write")' <=> Has("write")
    BY <1>2, <1>4, AppendHas
  <2> QED  BY <1>1, <2>1, <2>2, StreamSame
<1>5. CASE Connects \/ ConnectFails \/ ReadFails \/ WriteFails \/ TimerExpires \/ InputEnds
  <2>1. PICK t \in DoTypes \ {"write"} : ready' = Append(ready, Do(t))
    BY <1>5 DEF Connects, ConnectFails, ReadFails, WriteFails, TimerExpires, InputEnds, DoTypes
  <2>2. Do(t) \in Handlers /\ Do(t).type = t /\ t # "push"
    BY HandlerFacts DEF DoTypes
  <2> QED  BY <1>4, <2>1, <2>2
<1>6. CASE FrameArrives
  <2>1. PICK f \in Offered : ready' = Append(ready, Read(f))
    BY <1>6 DEF FrameArrives
  <2>2. f \in Frames
    BY <1>6, OfferedFrames
  <2>3. Read(f) \in Handlers /\ Read(f).type = "read"
    BY <2>2, HandlerFacts
  <2> QED  BY <1>4, <2>1, <2>3
<1>7. CASE RunReturns \/ Breaks \/ Joins \/ UNCHANGED vars
  BY <1>3, <1>7 DEF RunReturns, Breaks, Joins, vars
<1> QED  BY <1>5, <1>6, <1>7

LEMMA InitStream == Init => Stream
<1> SUFFICES ASSUME Init PROVE Stream
  OBVIOUS
<1>1. /\ DOMAIN ready = {} /\ outbox = << >> /\ wire = << >> /\ deque_write_buffer_ = << >>
      /\ DOMAIN deque_write_buffer_ = {} /\ DOMAIN wire = {} /\ written = 0
  BY DEF Init
<1>2. Len(outbox) = 0 /\ Len(wire) = 0 /\ Len(deque_write_buffer_) = 0
  BY <1>1, EmptySeq
<1>3. ~Has("write") /\ \A m : ~Posted(m)
  BY <1>1 DEF Has, Posted
<1>4. 0 * Parts + written = 0
  BY <1>1, ChatAssumption
<1>5. Flow(0)
  BY <1>1, <1>2, <1>3, <1>4 DEF Flow, Numbers
<1>6. PushedInOrder /\ WireIsStream
  BY <1>1 DEF PushedInOrder, WireIsStream
<1> QED  BY <1>5, <1>6 DEF Stream

LEMMA StepStream == TypeOK /\ Control /\ Counting /\ Stream /\ [Next]_vars => Stream'
<1> SUFFICES ASSUME TypeOK, Control, Counting, Stream, [Next]_vars PROVE Stream'
  OBVIOUS
<1> QED  BY StreamQuiet, StreamHands, StreamPushed, StreamWriteHandler, StreamKernelTakes,
            StreamOthers DEF Next, IoThread, Network

\* Handing a message over is an Accept of the promise.
LEMMA HandsAccept ==
  ASSUME TypeOK, Counting, Hello \/ Credentials \/ Tick
  PROVE  Promise!Accept
<1>1. Len(outbox) + 1 \in Numbers
  BY HelloRan, CredentialsRan, TickRan
<1>2. Len(outbox) < MaxMessages
  <2>1. Len(outbox) \in Nat /\ MaxMessages \in Nat
    BY LenProperties, ChatAssumption DEF TypeOK, MaxMessages
  <2> QED  BY <1>1, <2>1 DEF Numbers
<1>3. Len(outbox') = Len(outbox) + 1
  <2>1. outbox \in Seq(Messages) /\ participant_id_ \in Names
    BY DEF TypeOK
  <2>2. CASE Hello \/ Credentials
    BY <2>1, <2>2, MessageTypes, OutboxGrows DEF Hello, Credentials
  <2>3. CASE Tick
    BY <2>1, <2>3, MessageTypes, OutboxGrows DEF Tick
  <2> QED  BY <2>2, <2>3
<1>4. wire' = wire
  BY DEF Hello, Credentials, Tick, writeVars
<1> QED  BY <1>2, <1>3, <1>4 DEF Promise!Accept

\* What the kernel takes is a Send of the promise.
LEMMA TakesSend ==
  ASSUME TypeOK, TypeOK', Control, Stream, KernelTakes
  PROVE  Promise!Send
<1>1. /\ Stream' /\ Len(wire) \in Nat /\ Len(wire') \in Nat /\ Len(wire) < Len(wire')
      /\ Len(wire') <= Len(outbox) * Parts /\ outbox' = outbox
  BY StreamKernelTakes DEF KernelTakes
<1>2. wire' \in Seq(Nat \X Nat) /\ DOMAIN wire' = 1 .. Len(wire') /\ Len(outbox) \in Nat
  <2>1. wire' \in Seq(Numbers \X (1 .. Parts)) /\ outbox \in Seq(Messages)
    BY DEF TypeOK
  <2>2. Numbers \X (1 .. Parts) \in SUBSET (Nat \X Nat)
    BY DEF Numbers
  <2>3. wire' \in Seq(Nat \X Nat)
    BY <2>1, <2>2, SeqMonotonic
  <2> QED  BY <2>1, <2>3, LenProperties
<1>3. \A i \in 1 .. Len(wire') : wire'[i] = << ((i - 1) \div Parts) + 1, ((i - 1) % Parts) + 1 >>
  BY <1>1, <1>2 DEF Stream, WireIsStream
<1>4. wire' = SubSeq(Promise!Stream(Len(outbox)), 1, Len(wire'))
  BY <1>1, <1>2, <1>3, StreamPrefix
<1>5. Len(wire') \in Len(wire) + 1 .. Len(outbox) * Parts
  <2>1. Len(outbox) * Parts \in Nat
    BY <1>2, StreamFacts
  <2> QED  BY <1>1, <2>1
<1> QED  BY <1>1, <1>4, <1>5 DEF Promise!Send

LEMMA OthersStutter ==
  ASSUME \/ Connected \/ Join \/ Printed \/ Fails \/ Close \/ TickAborted \/ Pushed \/ WriteHandler
         \/ RunReturns \/ Connects \/ ConnectFails \/ FrameArrives \/ ReadFails \/ WriteFails
         \/ TimerExpires \/ Breaks \/ InputEnds \/ Joins \/ UNCHANGED vars
  PROVE  UNCHANGED << outbox, wire >>
BY DEF Connected, Join, Printed, Fails, Close, TickAborted, Pushed, WriteHandler, RunReturns,
       Connects, ConnectFails, FrameArrives, ReadFails, WriteFails, TimerExpires, Breaks,
       InputEnds, Joins, vars, writeVars

\* The client writes what a writer of messages promises, however the kernel cuts
\* the writes and whatever fails: what write_byte was given, in that order, whole
\* and once.
THEOREM WritesTheStreamHolds == Spec => WritesTheStream
<1>1. Init => Promise!Init
  BY EmptySeq DEF Init, Promise!Init
<1>2. TypeOK /\ TypeOK' /\ Control /\ Counting /\ Stream /\ [Next]_vars => [Promise!Next]_(Promise!vars)
  <2> SUFFICES ASSUME TypeOK, TypeOK', Control, Counting, Stream, [Next]_vars
               PROVE  [Promise!Next]_(Promise!vars)
    OBVIOUS
  <2>1. CASE Hello \/ Credentials \/ Tick
    BY <2>1, HandsAccept DEF Promise!Next
  <2>2. CASE KernelTakes
    BY <2>2, TakesSend DEF Promise!Next
  <2>3. CASE UNCHANGED << outbox, wire >>
    BY <2>3 DEF Promise!vars
  <2> QED  BY <2>1, <2>2, <2>3, OthersStutter DEF Next, IoThread, Network
<1>3. Init => TypeOK /\ Control /\ Counting /\ Stream
  BY InitKept, InitStream
<1>4. TypeOK /\ Control /\ Counting /\ Stream /\ [Next]_vars => (TypeOK /\ Control /\ Counting /\ Stream)'
  BY StepKept, StepStream DEF Kept
<1> QED  BY <1>1, <1>2, <1>3, <1>4, PTL DEF Spec, WritesTheStream, Promise!Spec
=============================================================================
