------------------------- MODULE UnityClientProofs -------------------------
(***************************************************************************)
(* Theorems about UnityClient, for any number of frames, updates and       *)
(* pieces, however TCP cuts the frames: frames are handled in their order, *)
(* the answers of the handshake leave untorn.                              *)
(***************************************************************************)
EXTENDS UnityClient, SequenceTheorems, TLAPS

-----------------------------------------------------------------------------
(* The inductive invariants.                                               *)

\* A send in progress is of a message in the transmit buffer.
Filled == sending # << >> => tx_buffer >= 1

\* q holds the last cells of the first e.
Window(q, e) == Len(q) <= e /\ \A i \in 1 .. Len(q) : q[i] = Cell(e - Len(q) + i)

\* The cells that are accumulated: the last that were received.  The first cell
\* of a frame that was handled is not among them.
Have == IF receive = "completed" THEN Held ELSE m_tcp_buffer \o m_rxBuffer
Behind(m, e) == 4 * (m - 1) < e
Receiving == receive # "ended" =>
    /\ Window(Have, taken)
    /\ \A k \in DOMAIN handled : Behind(handled[k], taken - Len(Have))
HandledWereSent == \A k \in DOMAIN handled : handled[k] <= sent
Order == Receiving /\ HandledWereSent /\ HandledInOrder

\* The server waits for each answer of the handshake to be whole before it sends
\* the next frame, and updates come with the frame after the last.
ServerWaits == /\ sent >= 2 => Len(out) >= Parts
               /\ sent >= 3 => Len(out) >= 2 * Parts
JoinWasSent == can_update => sent >= 3

\* Until both answers are out, the transmit buffer holds the one in progress.
Answering ==
    /\ Len(answers) <= 2 /\ tx_buffer = Len(answers)
    /\ Len(answers) >= 1 => handled # << >>
    /\ Len(answers) >= 2 => \E k \in DOMAIN handled : handled[k] >= 2
    /\ \/ sending = << >> /\ Len(answers) = 0 /\ Len(out) = 0
       \/ sending = << >> /\ Len(answers) = 1 /\ Len(out) = Parts
       \/ Len(sending) = 1 /\ Len(answers) = 1 /\ Len(out) = Head(sending)
       \/ Len(sending) = 1 /\ Len(answers) = 2 /\ Len(out) = Parts + Head(sending)
Handshake == /\ ServerWaits /\ JoinWasSent /\ HandshakeUntorn
             /\ Len(out) < 2 * Parts => Answering

-----------------------------------------------------------------------------
(* Cells.                                                                  *)

\* A receive takes up to four cells of those that have arrived.
LEMMA AmountFacts ==
  ASSUME taken \in Nat, arrived \in Nat, taken <= arrived
  PROVE  /\ Amount \in 0 .. 4 /\ taken + Amount <= arrived
         /\ arrived > taken => Amount > 0
<1> DEFINE S == { 4, arrived - taken }
<1>1. \E x \in S : \A y \in S : x <= y
  BY SMT
<1>2. Amount \in S /\ \A y \in S : Amount <= y
  BY <1>1 DEF Amount, Min
<1> QED  BY <1>2

\* A cell by its place in the stream of frames.
LEMMA CellFacts ==
  ASSUME NEW p \in Nat, p >= 1
  PROVE  /\ Cell(p)[1] \in Nat /\ Cell(p)[1] >= 1 /\ Cell(p)[2] \in 1 .. 4
         /\ p = 4 * (Cell(p)[1] - 1) + Cell(p)[2]
<1>1. Cell(p)[1] = ((p - 1) \div 4) + 1 /\ Cell(p)[2] = ((p - 1) % 4) + 1
  BY DEF Cell
<1>2. /\ (p - 1) \div 4 \in Nat /\ (p - 1) % 4 \in 0 .. 3
      /\ p - 1 = 4 * ((p - 1) \div 4) + ((p - 1) % 4)
  BY Z3
<1> QED  BY <1>1, <1>2

LEMMA CellType ==
  ASSUME NEW p \in Nat, NEW n \in 0 .. MaxFrames, p >= 1, p <= 4 * n
  PROVE  Cell(p) \in Cells
<1>1. /\ Cell(p)[1] \in Nat /\ Cell(p)[1] >= 1 /\ Cell(p)[2] \in 1 .. 4
      /\ p = 4 * (Cell(p)[1] - 1) + Cell(p)[2]
  BY CellFacts
<1>2. n \in Nat /\ n <= MaxFrames /\ MaxFrames \in Nat
  BY UnityAssumption DEF MaxFrames
<1>3. Cell(p)[1] \in 1 .. MaxFrames
  BY <1>1, <1>2
<1>4. Cell(p) = << Cell(p)[1], Cell(p)[2] >>
  BY DEF Cell
<1> QED  BY <1>1, <1>3, <1>4 DEF Cells

\* What a receive takes continues a window.
LEMMA WindowGrows ==
  ASSUME NEW q \in Seq(Cells), NEW b \in Seq(Cells), NEW e \in Nat, Window(q, e),
         \A i \in 1 .. Len(b) : b[i] = Cell(e + i)
  PROVE  Window(q \o b, e + Len(b)) /\ (e + Len(b)) - Len(q \o b) = e - Len(q)
<1> DEFINE r == q \o b
<1>1. /\ Len(q) \in Nat /\ Len(b) \in Nat /\ Len(r) = Len(q) + Len(b)
      /\ \A i \in 1 .. Len(q) + Len(b) : r[i] = IF i <= Len(q) THEN q[i] ELSE b[i - Len(q)]
  BY LenProperties, ConcatProperties
<1>2. Len(q) <= e /\ \A i \in 1 .. Len(q) : q[i] = Cell(e - Len(q) + i)
  BY DEF Window
<1> HIDE DEF r
<1>3. (e + Len(b)) - Len(r) = e - Len(q) /\ Len(r) <= e + Len(b)
  BY <1>1, <1>2
<1>4. ASSUME NEW i \in 1 .. Len(r) PROVE r[i] = Cell((e + Len(b)) - Len(r) + i)
  <2>1. CASE i <= Len(q)
    <3>1. i \in 1 .. Len(q) /\ r[i] = q[i]
      BY <1>1, <2>1
    <3> QED  BY <1>2, <1>3, <3>1
  <2>2. CASE ~(i <= Len(q))
    <3>1. i - Len(q) \in 1 .. Len(b) /\ r[i] = b[i - Len(q)]
      BY <1>1, <2>2
    <3>2. e + (i - Len(q)) = e - Len(q) + i
      BY <1>1
    <3> QED  BY <1>3, <3>1, <3>2
  <2> QED  BY <2>1, <2>2
<1> QED  BY <1>3, <1>4 DEF Window, r

LEMMA WindowEmpty ==
  ASSUME NEW e \in Nat
  PROVE  Window(<< >>, e) /\ Len(<< >>) = 0
BY EmptySeq DEF Window

-----------------------------------------------------------------------------
(* Sequences.                                                              *)

LEMMA QueueFacts ==
  ASSUME NEW S, NEW q \in Seq(S)
  PROVE  /\ Len(q) \in Nat /\ DOMAIN q = 1 .. Len(q)
         /\ \A i \in 1 .. Len(q) : q[i] \in S
         /\ q = << >> <=> Len(q) = 0
         /\ q # << >> => /\ Head(q) = q[1] /\ q[1] \in S /\ Len(q) >= 1
                         /\ Tail(q) \in Seq(S) /\ Len(Tail(q)) = Len(q) - 1
<1>1. Len(q) \in Nat /\ DOMAIN q = 1 .. Len(q) /\ \A i \in 1 .. Len(q) : q[i] \in S
  BY LenProperties, ElementOfSeq
<1>2. q = << >> <=> Len(q) = 0
  BY EmptySeq
<1>3. q # << >> => /\ Head(q) = q[1] /\ Tail(q) \in Seq(S) /\ Len(Tail(q)) = Len(q) - 1
  BY HeadTailProperties
<1>4. q # << >> => q[1] \in S /\ Len(q) >= 1
  BY <1>1, <1>2
<1> QED  BY <1>1, <1>2, <1>3, <1>4

-----------------------------------------------------------------------------
(* Types.                                                                  *)

Kinds == { "HELLO_ACK", "CREDENTIALS_ACK", "UPDATE_ACK" }
NetTypes == /\ whole \in BOOLEAN /\ sent \in 0 .. MaxFrames /\ arrived \in 0 .. 4 * sent
            /\ taken \in 0 .. arrived /\ closed \in BOOLEAN
RxTypes == /\ receive \in { "pending", "completed", "ended" }
           /\ buffer \in Seq(Cells) /\ m_rxBuffer \in Seq(Cells) /\ m_tcp_buffer \in Seq(Cells)
           /\ handled \in Seq(1 .. MaxFrames)
PoseTypes == m_dt_ms \in 0 .. 1000 /\ can_update \in BOOLEAN /\ elapsed \in { 0, 16, 1000 }
TxTypes == /\ answers \in Seq(Kinds)
           /\ tx_buffer \in 0 .. Len(answers) /\ sending \in Seq(0 .. Parts - 1)
           /\ out \in Seq((1 .. Len(answers)) \X (1 .. Parts))

LEMMA TypeParts == TypeOK <=> NetTypes /\ RxTypes /\ PoseTypes /\ TxTypes
  BY DEF TypeOK, NetTypes, RxTypes, PoseTypes, TxTypes, Kinds
LEMMA NextTypeParts == TypeOK' <=> NetTypes' /\ RxTypes' /\ PoseTypes' /\ TxTypes'
  BY DEF TypeOK, NetTypes, RxTypes, PoseTypes, TxTypes, Kinds

\* What is left alone.
LEMMA SameTypes ==
  /\ UNCHANGED netVars => (NetTypes' <=> NetTypes)
  /\ UNCHANGED rxVars => (RxTypes' <=> RxTypes)
  /\ UNCHANGED poseVars => (PoseTypes' <=> PoseTypes)
  /\ UNCHANGED txVars => (TxTypes' <=> TxTypes)
<1>1. UNCHANGED netVars => (NetTypes' <=> NetTypes)
  BY DEF netVars, NetTypes
<1>2. UNCHANGED rxVars => (RxTypes' <=> RxTypes)
  BY DEF rxVars, RxTypes
<1>3. UNCHANGED poseVars => (PoseTypes' <=> PoseTypes)
  BY DEF poseVars, PoseTypes
<1>4. UNCHANGED txVars => (TxTypes' <=> TxTypes)
  BY DEF txVars, TxTypes
<1> QED  BY <1>1, <1>2, <1>3, <1>4

LEMMA NetFacts ==
  ASSUME NetTypes
  PROVE  /\ sent \in Nat /\ arrived \in Nat /\ taken \in Nat /\ taken <= arrived
         /\ arrived <= 4 * sent /\ sent <= MaxFrames /\ MaxFrames \in Nat
BY UnityAssumption DEF NetTypes, MaxFrames

\* A message is refilled into the transmit buffer.
LEMMA AsyncSendFacts ==
  ASSUME TxTypes, NEW message \in Kinds, AsyncSend(message)
  PROVE  /\ TxTypes' /\ (Filled => Filled')
         /\ \/ UNCHANGED txVars
            \/ /\ answers' = Append(answers, message) /\ Len(answers') = Len(answers) + 1
               /\ tx_buffer' = Len(answers) + 1 /\ out' = out
               /\ sending' = Append(sending, 0) /\ Len(sending') = Len(sending) + 1
               /\ sending = << >> => Head(sending') = 0
<1>1. CASE UNCHANGED txVars
  BY <1>1, SameTypes DEF txVars, Filled
<1>2. CASE /\ answers' = Append(answers, message) /\ tx_buffer' = Len(answers) + 1
           /\ sending' = Append(sending, 0) /\ out' = out
  <2>1. /\ Len(answers) \in Nat /\ answers' \in Seq(Kinds) /\ Len(answers') = Len(answers) + 1
    BY <1>2, AppendProperties, LenProperties DEF TxTypes
  <2>2. 0 \in 0 .. Parts - 1
    BY UnityAssumption
  <2>3. /\ sending' \in Seq(0 .. Parts - 1) /\ Len(sending') = Len(sending) + 1
        /\ sending'[Len(sending) + 1] = 0 /\ Len(sending) \in Nat
    BY <1>2, <2>2, AppendProperties, LenProperties DEF TxTypes
  <2>4. sending = << >> => Head(sending') = 0
    <3> SUFFICES ASSUME sending = << >> PROVE Head(sending') = 0
      OBVIOUS
    <3>1. Len(sending) = 0
      BY EmptySeq
    <3>2. sending' # << >> /\ Head(sending') = sending'[1]
      BY <2>3, <3>1, QueueFacts
    <3> QED  BY <2>3, <3>1, <3>2
  <2>5. out' \in Seq((1 .. Len(answers')) \X (1 .. Parts))
    <3>1. (1 .. Len(answers)) \X (1 .. Parts) \in SUBSET ((1 .. Len(answers')) \X (1 .. Parts))
      BY <2>1
    <3> QED  BY <1>2, <3>1, SeqMonotonic DEF TxTypes
  <2>6. tx_buffer' \in 0 .. Len(answers') /\ tx_buffer' >= 1
    BY <1>2, <2>1
  <2> QED  BY <1>2, <2>1, <2>3, <2>4, <2>5, <2>6 DEF TxTypes, Filled
<1> QED  BY <1>1, <1>2 DEF AsyncSend

\* The kernel takes parts of what the transmit buffer holds.
LEMMA KernelFacts ==
  ASSUME TxTypes, Filled, KernelTakes
  PROVE  /\ sending # << >> /\ Head(sending) \in 0 .. Parts - 1
         /\ \E n \in 1 .. Parts - Head(sending) :
            /\ Len(out) \in Nat /\ Len(out') = Len(out) + n
            /\ \A i \in 1 .. Len(out) : out'[i] = out[i]
            /\ \A i \in 1 .. n : out'[Len(out) + i] = << tx_buffer, Head(sending) + i >>
            /\ out' \in Seq((1 .. Len(answers)) \X (1 .. Parts))
            /\ sending' \in Seq(0 .. Parts - 1)
            /\ Head(sending) + n = Parts => Len(sending') = Len(sending) - 1
            /\ Head(sending) + n < Parts => Len(sending') = Len(sending) /\ Head(sending') = Head(sending) + n
<1> DEFINE h == Head(sending)
           P == (1 .. Len(answers)) \X (1 .. Parts)
<1>1. PICK n \in 1 .. Parts - h :
         /\ out' = out \o [i \in 1 .. n |-> << tx_buffer, h + i >>]
         /\ sending' = IF h + n = Parts THEN Tail(sending) ELSE [sending EXCEPT ![1] = @ + n]
  BY DEF KernelTakes
<1>2. sending # << >> /\ sending \in Seq(0 .. Parts - 1)
  BY DEF KernelTakes, TxTypes
<1>3. /\ h \in 0 .. Parts - 1 /\ h = sending[1] /\ Len(sending) \in Nat /\ Len(sending) >= 1
      /\ Tail(sending) \in Seq(0 .. Parts - 1) /\ Len(Tail(sending)) = Len(sending) - 1
  BY <1>2, QueueFacts
<1> DEFINE piece == [i \in 1 .. n |-> << tx_buffer, h + i >>]
<1>4. Parts \in Nat \ {0} /\ n \in Nat /\ h + n <= Parts
  BY <1>3, UnityAssumption
<1>5. tx_buffer \in 1 .. Len(answers)
  BY <1>2 DEF TxTypes, Filled
<1> HIDE DEF h
<1>6. piece \in [1 .. n -> P]
  <2>1. \A i \in 1 .. n : h + i \in 1 .. Parts
    BY <1>3, <1>4
  <2> QED  BY <1>5, <2>1
<1>7. piece \in Seq(P)
  BY <1>4, <1>6, SeqDef
<1>8. DOMAIN piece = 1 .. n /\ \A i \in 1 .. n : piece[i] = << tx_buffer, h + i >>
  OBVIOUS
<1>9. out' = out \o piece /\ out \in Seq(P)
  BY <1>1 DEF TxTypes
<1> HIDE DEF P, piece
<1>10. Len(piece) = n /\ Len(out) \in Nat
  BY <1>4, <1>7, <1>8, <1>9, LenProperties
<1>11. /\ out' \in Seq(P) /\ Len(out') = Len(out) + n
       /\ \A i \in 1 .. Len(out) + n :
             out'[i] = IF i <= Len(out) THEN out[i] ELSE piece[i - Len(out)]
  BY <1>7, <1>9, <1>10, ConcatProperties
<1>12. \A i \in 1 .. Len(out) : out'[i] = out[i]
  BY <1>4, <1>10, <1>11
<1>13. ASSUME NEW i \in 1 .. n PROVE out'[Len(out) + i] = << tx_buffer, h + i >>
  <2>1. /\ Len(out) + i \in 1 .. Len(out) + n /\ ~(Len(out) + i <= Len(out))
        /\ (Len(out) + i) - Len(out) = i
    BY <1>4, <1>10
  <2> QED  BY <1>8, <1>11, <2>1
<1>14. /\ sending' \in Seq(0 .. Parts - 1)
       /\ h + n = Parts => Len(sending') = Len(sending) - 1
       /\ h + n < Parts => Len(sending') = Len(sending) /\ Head(sending') = h + n
  <2>1. CASE h + n = Parts
    <3>1. sending' = Tail(sending)
      BY <1>1, <2>1
    <3>2. sending' \in Seq(0 .. Parts - 1) /\ Len(sending') = Len(sending) - 1
      BY <1>3, <3>1
    <3>3. ~(h + n < Parts)
      BY <1>4, <2>1
    <3> QED  BY <3>2, <3>3
  <2>2. CASE h + n # Parts
    <3>1. h + n \in 0 .. Parts - 1 /\ h + n < Parts
      BY <1>3, <1>4, <2>2
    <3>2. sending' = [sending EXCEPT ![1] = h + n] /\ 1 \in 1 .. Len(sending)
      BY <1>1, <1>3, <2>2
    <3>3. /\ sending' \in Seq(0 .. Parts - 1) /\ Len(sending') = Len(sending)
          /\ sending'[1] = h + n
      BY <1>2, <3>1, <3>2, ExceptSeq
    <3>4. Head(sending') = h + n
      BY <1>3, <3>3, QueueFacts
    <3> QED  BY <2>2, <3>3, <3>4
  <2> QED  BY <2>1, <2>2
<1>15. n \in 1 .. Parts - h
  OBVIOUS
<1> QED  BY <1>2, <1>3, <1>10, <1>11, <1>12, <1>13, <1>14, <1>15 DEF P, h

LEMMA PeriodType == Period(max_data_rate) \in 0 .. 1
<1> DEFINE d == 1 \div max_data_rate
<1>1. max_data_rate \in Nat /\ max_data_rate >= 1
  BY UnityAssumption
<1>2. CASE max_data_rate = 1
  BY <1>2 DEF Period
<1>3. CASE max_data_rate > 1
  <2>1. d = 0
    BY <1>1, <1>3, Z3
  <2> QED  BY <2>1 DEF Period
<1> QED  BY <1>1, <1>2, <1>3

\* What was accumulated is made of cells.
LEMMA HeldType ==
  ASSUME RxTypes
  PROVE  /\ Held \in Seq(Cells) /\ m_tcp_buffer \o m_rxBuffer \in Seq(Cells)
         /\ m_rxBuffer \o buffer \in Seq(Cells) /\ Have \in Seq(Cells)
BY ConcatProperties DEF Held, Have, RxTypes

LEMMA CompleteFacts ==
  ASSUME RxTypes, Complete(Held)
  PROVE  /\ Len(Held) \in Nat /\ Len(Held) >= 1 /\ Held[1] \in Cells /\ Held[1][2] = 1
         /\ Held[1][1] \in 1 .. MaxFrames
<1>1. Held \in Seq(Cells)
  BY HeldType
<1>2. Held # << >> /\ Held[1][2] = 1
  BY DEF Complete, Header, Short
<1>3. Len(Held) \in Nat /\ Len(Held) >= 1 /\ Held[1] \in Cells
  BY <1>1, <1>2, QueueFacts
<1> QED  BY <1>2, <1>3 DEF Cells

LEMMA ProcessTypes ==
  ASSUME RxTypes, PoseTypes, TxTypes, NEW m \in 1 .. MaxFrames, ProcessMessage(m)
  PROVE  /\ PoseTypes' /\ TxTypes' /\ (Filled => Filled')
         /\ handled' = Append(handled, m) /\ handled' \in Seq(1 .. MaxFrames)
<1>1. handled' = Append(handled, m) /\ handled' \in Seq(1 .. MaxFrames)
  BY AppendProperties DEF ProcessMessage, RxTypes
<1>2. TxTypes' /\ (Filled => Filled')
  <2>1. CASE Frame(m) \in { "HELLO", "CREDENTIALS" }
    <3>1. \E k \in Kinds : AsyncSend(k)
      BY <2>1 DEF ProcessMessage, Kinds
    <3> QED  BY <3>1, AsyncSendFacts
  <2>2. CASE Frame(m) \notin { "HELLO", "CREDENTIALS" }
    <3>1. UNCHANGED txVars
      BY <2>2 DEF ProcessMessage
    <3> QED  BY <3>1, SameTypes DEF txVars, Filled
  <2> QED  BY <2>1, <2>2
<1>3. PoseTypes'
  <2>1. elapsed' = elapsed /\ elapsed \in { 0, 16, 1000 }
    BY DEF ProcessMessage, PoseTypes
  <2>2. CASE Joined(Frame(m))
    <3>1. m_dt_ms' = Period(max_data_rate) /\ can_update' = TRUE
      BY <2>2 DEF ProcessMessage
    <3>2. m_dt_ms' \in 0 .. 1000
      BY <3>1, PeriodType
    <3> QED  BY <2>1, <3>1, <3>2 DEF PoseTypes
  <2>3. CASE ~Joined(Frame(m))
    <3>1. m_dt_ms' = m_dt_ms /\ can_update' = can_update
      BY <2>3 DEF ProcessMessage
    <3> QED  BY <2>1, <3>1 DEF PoseTypes
  <2> QED  BY <2>2, <2>3
<1> QED  BY <1>1, <1>2, <1>3

LEMMA TypeStep == TypeOK /\ Filled /\ [Next]_vars => TypeOK' /\ Filled'
<1> SUFFICES ASSUME NetTypes, RxTypes, PoseTypes, TxTypes, Filled, [Next]_vars
             PROVE  NetTypes' /\ RxTypes' /\ PoseTypes' /\ TxTypes' /\ Filled'
  BY TypeParts, NextTypeParts
<1>f. UNCHANGED txVars => Filled'
  BY DEF txVars, Filled
<1>1. CASE ServerSends \/ ServerCloses \/ Arrives
  <2>1. UNCHANGED rxVars /\ UNCHANGED poseVars /\ UNCHANGED txVars
    BY <1>1 DEF ServerSends, ServerCloses, Arrives
  <2>2. NetTypes'
    <3>1. CASE ServerSends
      BY <3>1, NetFacts DEF ServerSends, NetTypes
    <3>2. CASE ServerCloses
      BY <3>2 DEF ServerCloses, NetTypes
    <3>3. CASE Arrives
      BY <3>3, NetFacts DEF Arrives, NetTypes
    <3> QED  BY <1>1, <3>1, <3>2, <3>3
  <2> QED  BY <1>f, <2>1, <2>2, SameTypes
<1>2. CASE Completes
  <2>1. /\ UNCHANGED poseVars /\ UNCHANGED txVars
        /\ UNCHANGED << whole, sent, arrived, closed, m_rxBuffer, m_tcp_buffer, handled >>
        /\ receive' = "completed" /\ taken' = taken + Amount
        /\ buffer' = [i \in 1 .. Amount |-> Cell(taken + i)]
    BY <1>2 DEF Completes
  <2>2. Amount \in 0 .. 4 /\ taken + Amount <= arrived
    BY NetFacts, AmountFacts
  <2> DEFINE a == Amount
  <2> HIDE DEF a
  <2>3. NetTypes'
    BY <2>1, <2>2, NetFacts DEF NetTypes
  <2>4. \A i \in 1 .. Amount : Cell(taken + i) \in Cells
    <3>1. ASSUME NEW i \in 1 .. Amount PROVE Cell(taken + i) \in Cells
      <4>1. taken + i \in Nat /\ taken + i >= 1 /\ taken + i <= 4 * sent /\ sent \in 0 .. MaxFrames
        BY <2>2, NetFacts
      <4> QED  BY <4>1, CellType
    <3> QED  BY <3>1
  <2>5. buffer' \in [1 .. Amount -> Cells]
    BY <2>1, <2>4
  <2>6. buffer' \in Seq(Cells)
    BY <2>2, <2>5, SeqDef
  <2>7. RxTypes'
    BY <2>1, <2>6 DEF RxTypes
  <2> QED  BY <1>f, <2>1, <2>3, <2>7, SameTypes
<1>3. CASE KernelTakes
  <2>1. UNCHANGED netVars /\ UNCHANGED rxVars /\ UNCHANGED poseVars /\ UNCHANGED << answers, tx_buffer >>
    BY <1>3 DEF KernelTakes
  <2>2. /\ sending # << >> /\ sending' \in Seq(0 .. Parts - 1)
        /\ out' \in Seq((1 .. Len(answers)) \X (1 .. Parts))
    BY <1>3, KernelFacts
  <2>3. TxTypes' /\ Filled'
    BY <2>1, <2>2 DEF TxTypes, Filled
  <2> QED  BY <2>1, <2>3, SameTypes
<1>4. CASE Update
  <2>1. UNCHANGED netVars /\ UNCHANGED rxVars /\ UNCHANGED << m_dt_ms, can_update >> /\ elapsed' = 0
        /\ AsyncSend("UPDATE_ACK") /\ "UPDATE_ACK" \in Kinds
    BY <1>4 DEF Update, Kinds
  <2>2. TxTypes' /\ Filled'
    BY <2>1, AsyncSendFacts
  <2>3. PoseTypes'
    BY <2>1 DEF PoseTypes
  <2> QED  BY <2>1, <2>2, <2>3, SameTypes
<1>5. CASE TimePasses
  <2>1. UNCHANGED netVars /\ UNCHANGED rxVars /\ UNCHANGED txVars
        /\ UNCHANGED << m_dt_ms, can_update >> /\ elapsed' \in { 16, 1000 }
    BY <1>5 DEF TimePasses
  <2>2. PoseTypes'
    BY <2>1 DEF PoseTypes
  <2> QED  BY <1>f, <2>1, <2>2, SameTypes
<1>6. CASE Accumulate
  <2>1. UNCHANGED netVars /\ UNCHANGED poseVars /\ UNCHANGED txVars
    BY <1>6 DEF Accumulate
  <2>2. RxTypes'
    BY <1>6, HeldType DEF Accumulate, RxTypes
  <2> QED  BY <1>f, <2>1, <2>2, SameTypes
<1>7. CASE OnReceiveThrows \/ OnReceiveKeeps \/ OnReceiveUnknown
  <2>1. UNCHANGED netVars /\ UNCHANGED poseVars /\ UNCHANGED txVars
    BY <1>7 DEF OnReceiveThrows, OnReceiveKeeps, OnReceiveUnknown, ReceiveAgain
  <2>2. << >> \in Seq(Cells)
    BY EmptySeq
  <2>3. /\ m_tcp_buffer' \in { << >>, Held } /\ m_rxBuffer' \in { << >>, m_rxBuffer }
        /\ receive' \in { "pending", "ended" } /\ UNCHANGED << buffer, handled >>
    BY <1>7 DEF OnReceiveThrows, OnReceiveKeeps, OnReceiveUnknown, ReceiveAgain, Rest
  <2>4. RxTypes'
    BY <2>2, <2>3, HeldType DEF RxTypes
  <2> QED  BY <1>f, <2>1, <2>4, SameTypes
<1>8. CASE OnReceiveMessage
  <2>1. /\ Complete(Held) /\ ProcessMessage(Held[1][1]) /\ m_tcp_buffer' = << >>
        /\ receive' = "pending" /\ m_rxBuffer' = << >> /\ UNCHANGED netVars /\ buffer' = buffer
    BY <1>8 DEF OnReceiveMessage, ReceiveAgain, Rest
  <2>2. PoseTypes' /\ TxTypes' /\ Filled' /\ handled' \in Seq(1 .. MaxFrames)
    BY <2>1, CompleteFacts, ProcessTypes
  <2>3. << >> \in Seq(Cells)
    BY EmptySeq
  <2>4. RxTypes'
    BY <2>1, <2>2, <2>3 DEF RxTypes
  <2> QED  BY <2>1, <2>2, <2>4, SameTypes
<1>9. CASE OnReceiveRefuses
  <2>1. /\ Complete(Held) /\ handled' = Append(handled, Held[1][1]) /\ m_tcp_buffer' = Held
        /\ receive' = "ended" /\ UNCHANGED << buffer, m_rxBuffer >>
        /\ UNCHANGED netVars /\ UNCHANGED poseVars /\ UNCHANGED txVars
    BY <1>9 DEF OnReceiveRefuses
  <2>2. handled' \in Seq(1 .. MaxFrames)
    BY <2>1, CompleteFacts, AppendProperties DEF RxTypes
  <2>3. RxTypes'
    BY <2>1, <2>2, HeldType DEF RxTypes
  <2> QED  BY <1>f, <2>1, <2>3, SameTypes
<1>10. CASE UNCHANGED vars
  <2>1. UNCHANGED netVars /\ UNCHANGED rxVars /\ UNCHANGED poseVars /\ UNCHANGED txVars
    BY <1>10 DEF vars
  <2> QED  BY <1>f, <2>1, SameTypes
<1> QED  BY <1>1, <1>2, <1>3, <1>4, <1>5, <1>6, <1>7, <1>8, <1>9, <1>10 DEF Next, ReceiveCallback

LEMMA InitTypes == Init => TypeOK /\ Filled
<1> SUFFICES ASSUME Init PROVE TypeOK /\ Filled
  OBVIOUS
<1>1. \A S : << >> \in Seq(S) /\ Len(<< >>) = 0
  BY EmptySeq
<1>2. /\ whole \in BOOLEAN /\ sent = 0 /\ arrived = 0 /\ taken = 0 /\ closed = FALSE
      /\ receive = "pending" /\ buffer = << >> /\ m_rxBuffer = << >> /\ m_tcp_buffer = << >>
      /\ handled = << >> /\ m_dt_ms = 0 /\ can_update = FALSE /\ elapsed = 1000
      /\ answers = << >> /\ tx_buffer = 0 /\ sending = << >> /\ out = << >>
  BY DEF Init
<1>3. NetTypes
  <2>1. sent \in 0 .. MaxFrames
    BY <1>2, UnityAssumption DEF MaxFrames
  <2>2. arrived \in 0 .. 4 * sent
    BY <1>2
  <2>3. taken \in 0 .. arrived
    BY <1>2
  <2>4. closed \in BOOLEAN
    BY <1>2
  <2> QED  BY <1>2, <2>1, <2>2, <2>3, <2>4 DEF NetTypes
<1>4. RxTypes
  BY <1>1, <1>2 DEF RxTypes
<1>5. PoseTypes
  <2>1. m_dt_ms \in 0 .. 1000
    BY <1>2
  <2>2. can_update \in BOOLEAN
    BY <1>2
  <2>3. elapsed \in { 0, 16, 1000 }
    BY <1>2
  <2> QED  BY <2>1, <2>2, <2>3 DEF PoseTypes
<1>6. TxTypes
  BY <1>1, <1>2 DEF TxTypes
<1> QED  BY <1>2, <1>3, <1>4, <1>5, <1>6, TypeParts DEF Filled

\* Type correctness: nothing is taken before it arrived, nothing is sent of an
\* empty transmit buffer, no frame is handled that the server does not have.
THEOREM TypeCorrect == Spec => []TypeOK
<1>1. Init => TypeOK /\ Filled
  BY InitTypes
<1>2. TypeOK /\ Filled /\ [Next]_vars => (TypeOK /\ Filled)'
  BY TypeStep
<1> QED  BY <1>1, <1>2, PTL DEF Spec

-----------------------------------------------------------------------------
(* Frames are handled in their order.                                      *)

\* What is accumulated is counted by cells that were received.
LEMMA HaveFacts ==
  ASSUME TypeOK, Window(Have, taken)
  PROVE  /\ Have \in Seq(Cells) /\ Len(Have) \in Nat /\ taken \in Nat /\ Len(Have) <= taken
         /\ taken - Len(Have) \in Nat
<1>1. Have \in Seq(Cells) /\ taken \in Nat
  BY HeldType, TypeParts, NetFacts
<1>2. Len(Have) \in Nat /\ Len(Have) <= taken
  BY <1>1, LenProperties DEF Window
<1> QED  BY <1>1, <1>2

LEMMA HandledFacts ==
  ASSUME TypeOK
  PROVE  /\ handled \in Seq(1 .. MaxFrames) /\ Len(handled) \in Nat
         /\ DOMAIN handled = 1 .. Len(handled)
         /\ \A k \in DOMAIN handled : handled[k] \in Nat /\ handled[k] >= 1
<1>1. handled \in Seq(1 .. MaxFrames)
  BY TypeParts DEF RxTypes
<1>2. /\ Len(handled) \in Nat /\ DOMAIN handled = 1 .. Len(handled)
      /\ \A k \in 1 .. Len(handled) : handled[k] \in 1 .. MaxFrames
  BY <1>1, QueueFacts
<1> QED  BY <1>1, <1>2

\* A receive continues what was accumulated.
LEMMA CompletesFacts ==
  ASSUME TypeOK, TypeOK', Completes, Window(Have, taken)
  PROVE  Window(Have', taken') /\ taken' - Len(Have') = taken - Len(Have)
<1> DEFINE q == m_tcp_buffer \o m_rxBuffer
           b == buffer'
<1>1. /\ receive = "pending" /\ receive' = "completed" /\ taken' = taken + Amount
      /\ b = [i \in 1 .. Amount |-> Cell(taken + i)]
      /\ m_rxBuffer' = m_rxBuffer /\ m_tcp_buffer' = m_tcp_buffer
  BY DEF Completes
<1>2. Amount \in Nat /\ taken \in Nat
  BY TypeParts, NetFacts, AmountFacts
<1>3. q \in Seq(Cells)
  BY TypeParts, HeldType
<1>4. b \in Seq(Cells)
  BY NextTypeParts DEF RxTypes
<1>5. Have = q
  BY <1>1 DEF Have
<1>6. Have' = q \o b
  BY <1>1 DEF Have, Held
<1>7. DOMAIN b = 1 .. Amount /\ \A i \in 1 .. Amount : b[i] = Cell(taken + i)
  BY <1>1
<1> HIDE DEF q, b
<1>8. Len(b) = Amount
  BY <1>2, <1>4, <1>7, LenProperties
<1>9. Window(q, taken) /\ \A i \in 1 .. Len(b) : b[i] = Cell(taken + i)
  BY <1>5, <1>7, <1>8
<1>10. Window(q \o b, taken + Len(b)) /\ (taken + Len(b)) - Len(q \o b) = taken - Len(q)
  BY <1>2, <1>3, <1>4, <1>9, WindowGrows
<1> QED  BY <1>1, <1>5, <1>6, <1>8, <1>10

\* What the callback accumulates or hands over and keeps stays what it was.
LEMMA KeptFacts ==
  ASSUME TypeOK, receive = "completed", receive' = "pending",
         \/ m_tcp_buffer' = m_tcp_buffer /\ m_rxBuffer' = m_rxBuffer \o buffer
         \/ m_tcp_buffer' = Held /\ m_rxBuffer' = << >>
  PROVE  Have' = Have
<1>1. /\ m_tcp_buffer \in Seq(Cells) /\ m_rxBuffer \in Seq(Cells) /\ buffer \in Seq(Cells)
      /\ Held \in Seq(Cells)
  BY TypeParts, HeldType DEF RxTypes
<1>2. Have = Held /\ Have' = m_tcp_buffer' \o m_rxBuffer'
  BY DEF Have
<1>3. m_tcp_buffer \o (m_rxBuffer \o buffer) = Held
  <2>1. ASSUME NEW p \in Seq(Cells), NEW q \in Seq(Cells), NEW r \in Seq(Cells)
        PROVE  p \o (q \o r) = (p \o q) \o r
    BY ConcatAssociative
  <2>2. m_tcp_buffer \o (m_rxBuffer \o buffer) = (m_tcp_buffer \o m_rxBuffer) \o buffer
    BY <1>1, <2>1
  <2> QED  BY <2>2 DEF Held
<1>4. Held \o << >> = Held
  BY <1>1, ConcatEmptySeq
<1> QED  BY <1>2, <1>3, <1>4

\* What is left when the first message was processed is empty.
LEMMA RestFacts ==
  ASSUME TypeOK, receive' = "pending", m_tcp_buffer' = << >>, m_rxBuffer' = << >>, taken' = taken
  PROVE  Window(Have', taken') /\ taken' - Len(Have') = taken
<1>1. taken \in Nat
  BY TypeParts, NetFacts
<1>2. << >> \o << >> = << >>
  BY EmptySeq, ConcatEmptySeq
<1>3. Have' = << >>
  BY <1>2 DEF Have
<1>4. Window(<< >>, taken) /\ Len(<< >>) = 0
  BY <1>1, WindowEmpty
<1> QED  BY <1>1, <1>3, <1>4

\* The first cell of a frame that is handed over comes after those of the frames
\* that were handled, and was sent.
LEMMA FirstFrame ==
  ASSUME TypeOK, Order, receive = "completed", Complete(Held)
  PROVE  /\ Held[1][1] \in 1 .. MaxFrames /\ Held[1][1] <= sent /\ Behind(Held[1][1], taken)
         /\ \A k \in DOMAIN handled : handled[k] < Held[1][1]
<1> DEFINE m == Held[1][1]
           p == taken - Len(Held) + 1
<1>1. RxTypes /\ Have = Held /\ Window(Held, taken)
  BY TypeParts DEF Order, Receiving, Have
<1>2. /\ Len(Held) \in Nat /\ Len(Held) >= 1 /\ Held[1][2] = 1 /\ m \in 1 .. MaxFrames
  BY <1>1, CompleteFacts
<1>3. /\ taken \in Nat /\ sent \in Nat /\ taken <= 4 * sent
      /\ MaxFrames \in Nat
  BY TypeParts, NetFacts
<1>4. Len(Held) <= taken /\ Held[1] = Cell(p) /\ p \in Nat /\ p >= 1 /\ p <= taken
  <2>1. Len(Held) <= taken /\ \A i \in 1 .. Len(Held) : Held[i] = Cell(taken - Len(Held) + i)
    BY <1>1 DEF Window
  <2>2. 1 \in 1 .. Len(Held)
    BY <1>2
  <2>3. p \in Nat /\ p >= 1 /\ p <= taken
    BY <1>2, <1>3, <2>1
  <2> QED  BY <2>1, <2>2, <2>3
<1>5. m = Cell(p)[1] /\ Cell(p)[2] = 1
  BY <1>2, <1>4
<1>6. ASSUME NEW k \in DOMAIN handled PROVE Behind(handled[k], taken - Len(Held)) /\ handled[k] \in Nat
  BY <1>1, HandledFacts DEF Order, Receiving
<1> HIDE DEF p, m
<1>7. p = 4 * (m - 1) + 1
  BY <1>4, <1>5, CellFacts
<1>8. m \in Nat /\ m >= 1
  BY <1>2, <1>3
<1>9. m <= sent
  BY <1>3, <1>4, <1>7, <1>8
<1>10. Behind(m, taken)
  BY <1>3, <1>4, <1>7, <1>8 DEF Behind
<1>11. ASSUME NEW k \in DOMAIN handled PROVE handled[k] < m
  <2>1. 4 * (handled[k] - 1) < taken - Len(Held) /\ handled[k] \in Nat
    BY <1>6 DEF Behind
  <2>2. taken - Len(Held) = p - 1
    BY <1>2, <1>3 DEF p
  <2> QED  BY <1>7, <1>8, <2>1, <2>2
<1> QED  BY <1>2, <1>9, <1>10, <1>11 DEF m

LEMMA OrderStep == TypeOK /\ TypeOK' /\ Order /\ [Next]_vars => Order'
<1> SUFFICES ASSUME TypeOK, TypeOK', Order, [Next]_vars PROVE Order'
  OBVIOUS
<1>s. sent \in Nat /\ sent' \in Nat /\ taken \in Nat
  <2>1. sent' \in 0 .. MaxFrames' /\ sent \in Nat /\ taken \in Nat
    BY TypeParts, NextTypeParts, NetFacts DEF NetTypes
  <2>2. MaxFrames' = MaxFrames /\ MaxFrames \in Nat
    BY UnityAssumption DEF MaxFrames
  <2> QED  BY <2>1, <2>2
<1>h. \A k \in DOMAIN handled : handled[k] \in Nat /\ handled[k] <= sent
  BY HandledFacts DEF Order, HandledWereSent
\* Nothing is handled.
<1>n. ASSUME handled' = handled, sent' >= sent, Receiving' PROVE Order'
  <2>1. HandledInOrder'
    BY <1>n DEF Order, HandledInOrder
  <2>2. \A k \in DOMAIN handled : handled[k] <= sent'
    BY <1>h, <1>n, <1>s
  <2>3. HandledWereSent'
    BY <1>n, <2>2 DEF HandledWereSent
  <2> QED  BY <1>n, <2>1, <2>3 DEF Order
\* Nothing more is received and nothing is dropped.
<1>k. ASSUME handled' = handled, taken' = taken, receive # "ended", Have' = Have PROVE Receiving'
  BY <1>k DEF Order, Receiving
<1>1. CASE ServerSends \/ ServerCloses \/ Arrives \/ KernelTakes \/ Update \/ TimePasses
            \/ UNCHANGED vars
  <2>1. UNCHANGED rxVars /\ taken' = taken
    BY <1>1 DEF ServerSends, ServerCloses, Arrives, KernelTakes, Update, TimePasses, vars, netVars
  <2>2. sent' = sent \/ sent' = sent + 1
    BY <1>1 DEF ServerSends, ServerCloses, Arrives, KernelTakes, Update, TimePasses, vars, netVars
  <2>3. handled' = handled /\ receive' = receive /\ Have' = Have
    BY <2>1 DEF rxVars, Have, Held
  <2>4. Receiving'
    <3>1. CASE receive = "ended"
      BY <2>3, <3>1 DEF Receiving
    <3>2. CASE receive # "ended"
      BY <1>k, <2>1, <2>3, <3>2
    <3> QED  BY <3>1, <3>2
  <2>5. sent' >= sent
    BY <1>s, <2>2
  <2> QED  BY <1>n, <2>3, <2>4, <2>5
<1>2. CASE Completes
  <2>1. handled' = handled /\ sent' = sent /\ receive = "pending"
    BY <1>2 DEF Completes
  <2>2. /\ Window(Have, taken)
        /\ \A k \in DOMAIN handled : Behind(handled[k], taken - Len(Have))
    BY <2>1 DEF Order, Receiving
  <2>3. Window(Have', taken') /\ taken' - Len(Have') = taken - Len(Have)
    BY <1>2, <2>2, CompletesFacts
  <2>4. Receiving'
    BY <2>1, <2>2, <2>3 DEF Receiving
  <2>5. sent' >= sent
    BY <1>s, <2>1
  <2> QED  BY <1>n, <2>1, <2>4, <2>5
<1>3. CASE Accumulate \/ OnReceiveKeeps
  <2>1. /\ receive = "completed" /\ receive' = "pending" /\ handled' = handled
        /\ taken' = taken /\ sent' = sent
        /\ \/ m_tcp_buffer' = m_tcp_buffer /\ m_rxBuffer' = m_rxBuffer \o buffer
           \/ m_tcp_buffer' = Held /\ m_rxBuffer' = << >>
    BY <1>3 DEF Accumulate, OnReceiveKeeps, HandsOver, ReceiveAgain, netVars
  <2>2. Have' = Have
    BY <2>1, KeptFacts
  <2>3. Receiving'
    BY <1>k, <2>1, <2>2
  <2>4. sent' >= sent
    BY <1>s, <2>1
  <2> QED  BY <1>n, <2>1, <2>3, <2>4
<1>4. CASE OnReceiveThrows
  <2>1. receive' = "ended" /\ handled' = handled /\ sent' = sent
    BY <1>4 DEF OnReceiveThrows, netVars
  <2>2. Receiving'
    BY <2>1 DEF Receiving
  <2>3. sent' >= sent
    BY <1>s, <2>1
  <2> QED  BY <1>n, <2>1, <2>2, <2>3
<1>l. ASSUME receive = "completed" PROVE \A k \in DOMAIN handled : Behind(handled[k], taken)
  <2>1. /\ Window(Have, taken)
        /\ \A k \in DOMAIN handled : Behind(handled[k], taken - Len(Have))
    BY <1>l DEF Order, Receiving
  <2>2. taken - Len(Have) \in Nat /\ taken - Len(Have) <= taken
    BY <2>1, HaveFacts
  <2> DEFINE d == taken - Len(Have)
  <2> HIDE DEF d
  <2>3. d \in Nat /\ d <= taken /\ \A k \in DOMAIN handled : Behind(handled[k], d)
    BY <2>1, <2>2 DEF d
  <2> QED  BY <1>h, <1>s, <2>3 DEF Behind
<1>5. CASE OnReceiveUnknown
  <2>1. /\ receive = "completed" /\ receive' = "pending" /\ m_tcp_buffer' = << >>
        /\ m_rxBuffer' = << >> /\ handled' = handled /\ taken' = taken /\ sent' = sent
    BY <1>5 DEF OnReceiveUnknown, HandsOver, ReceiveAgain, Rest, netVars
  <2>2. Window(Have', taken') /\ taken' - Len(Have') = taken
    BY <2>1, RestFacts
  <2>3. Receiving'
    BY <1>l, <2>1, <2>2 DEF Receiving
  <2>4. sent' >= sent
    BY <1>s, <2>1
  <2> QED  BY <1>n, <2>1, <2>3, <2>4
<1>6. CASE OnReceiveMessage \/ OnReceiveRefuses
  <2> DEFINE m == Held[1][1]
  <2>1. /\ receive = "completed" /\ Complete(Held)
        /\ handled' = Append(handled, m) /\ taken' = taken /\ sent' = sent
        /\ receive' = "ended" \/ (receive' = "pending" /\ m_tcp_buffer' = << >> /\ m_rxBuffer' = << >>)
    BY <1>6 DEF OnReceiveMessage, OnReceiveRefuses, ProcessMessage, HandsOver, ReceiveAgain, Rest, netVars
  <2>2. /\ m \in 1 .. MaxFrames /\ m <= sent /\ Behind(m, taken)
        /\ \A k \in DOMAIN handled : handled[k] < m
    BY <2>1, FirstFrame
  <2>3. receive' = "ended" \/ (Window(Have', taken') /\ taken' - Len(Have') = taken)
    BY <2>1, RestFacts
  <2> DEFINE n == Len(handled)
             g == handled'
  <2>4. n \in Nat /\ DOMAIN handled = 1 .. n
    BY HandledFacts
  <2>5. DOMAIN g = 1 .. n + 1 /\ g[n + 1] = m /\ \A i \in 1 .. n : g[i] = handled[i]
    <3>1. /\ g \in Seq(1 .. MaxFrames) /\ Len(g) = n + 1 /\ g[n + 1] = m
          /\ \A i \in 1 .. n : g[i] = handled[i]
      BY <2>1, <2>2, HandledFacts, AppendProperties
    <3> QED  BY <2>4, <3>1, LenProperties
  <2> HIDE DEF m, n
  <2>6. \A k \in DOMAIN g : (k \in DOMAIN handled /\ g[k] = handled[k]) \/ (k = n + 1 /\ g[k] = m)
    BY <2>4, <2>5
  <2>7. \A k \in DOMAIN g : Behind(g[k], taken) /\ g[k] <= sent
    BY <1>h, <1>l, <2>1, <2>2, <2>6
  <2>8. ASSUME NEW i \in DOMAIN g, NEW j \in DOMAIN g, i < j PROVE g[i] < g[j]
    <3>1. i \in DOMAIN handled /\ g[i] = handled[i]
      BY <2>4, <2>5, <2>8
    <3>2. CASE j = n + 1
      BY <2>2, <2>5, <3>1, <3>2
    <3>3. CASE j # n + 1
      <4>1. j \in DOMAIN handled /\ g[j] = handled[j]
        BY <2>4, <2>5, <3>3
      <4> QED  BY <2>8, <3>1, <4>1 DEF Order, HandledInOrder
    <3> QED  BY <3>2, <3>3
  <2>9. Receiving'
    BY <2>3, <2>7 DEF Receiving
  <2>10. HandledWereSent'
    BY <2>1, <2>7 DEF HandledWereSent
  <2>11. HandledInOrder'
    BY <2>8 DEF HandledInOrder
  <2> QED  BY <2>9, <2>10, <2>11 DEF Order
<1> QED  BY <1>1, <1>2, <1>3, <1>4, <1>5, <1>6 DEF Next, ReceiveCallback

LEMMA InitOrder == Init => Order
<1> SUFFICES ASSUME Init PROVE Order
  OBVIOUS
<1>1. /\ receive = "pending" /\ m_rxBuffer = << >> /\ m_tcp_buffer = << >>
      /\ handled = << >> /\ taken = 0
  BY DEF Init
<1>2. << >> \o << >> = << >> /\ DOMAIN << >> = {}
  BY EmptySeq, ConcatEmptySeq
<1>3. Have = << >>
  BY <1>1, <1>2 DEF Have
<1>4. Window(Have, taken)
  BY <1>1, <1>3, WindowEmpty
<1> QED  BY <1>1, <1>2, <1>4 DEF Order, Receiving, HandledWereSent, HandledInOrder

\* Frames are handled in the order the server sent them and none twice, wherever
\* TCP cuts them: at its first cell a frame is found, and what was received of it
\* is never received again.
THEOREM HandledInOrderHolds == Spec => []HandledInOrder
<1>1. Init => TypeOK /\ Filled /\ Order
  BY InitTypes, InitOrder
<1>2. TypeOK /\ Filled /\ Order /\ [Next]_vars => (TypeOK /\ Filled /\ Order)'
  BY TypeStep, OrderStep
<1>3. Order => HandledInOrder
  BY DEF Order
<1> QED  BY <1>1, <1>2, <1>3, PTL DEF Spec

-----------------------------------------------------------------------------
(* The answers of the handshake.                                           *)

\* Where the parts of the answers belong: the first Parts of the stream are those
\* of the first, the next those of the second.
Place(i) == << ((i - 1) \div Parts) + 1, ((i - 1) % Parts) + 1 >>

LEMMA Quotients ==
  ASSUME NEW P \in Nat \ {0}, NEW q \in 0 .. P - 1
  PROVE  q \div P = 0 /\ q % P = q /\ (P + q) \div P = 1 /\ (P + q) % P = q
<1>1. q \div P = 0 /\ q % P = q
  BY Z3
<1>2. (P + q) \div P = 1 /\ (P + q) % P = q
  BY Z3
<1> QED  BY <1>1, <1>2

LEMMA PlaceFacts ==
  ASSUME NEW j \in 1 .. Parts
  PROVE  Place(j) = << 1, j >> /\ Place(Parts + j) = << 2, j >>
<1> DEFINE q == j - 1
<1>1. Parts \in Nat \ {0}
  BY UnityAssumption
<1>2. q \in 0 .. Parts - 1 /\ q + 1 = j /\ (Parts + j) - 1 = Parts + q
  BY <1>1
<1>3. q \div Parts = 0 /\ q % Parts = q /\ (Parts + q) \div Parts = 1 /\ (Parts + q) % Parts = q
  BY <1>1, <1>2, Quotients
<1>4. Place(j) = << (q \div Parts) + 1, (q % Parts) + 1 >>
  BY DEF Place
<1>5. Place(Parts + j) = << ((Parts + q) \div Parts) + 1, ((Parts + q) % Parts) + 1 >>
  BY <1>2 DEF Place
<1> HIDE DEF q
<1> QED  BY <1>2, <1>3, <1>4, <1>5

LEMMA FrameFacts ==
  ASSUME NEW m \in Nat, m >= 1
  PROVE  /\ m = 1 => Frame(m) = "HELLO"
         /\ m = 2 => Frame(m) = "CREDENTIALS"
         /\ Frame(m) = "JOIN" => m = 3
<1>1. m = 1 => Frame(m) = "HELLO"
  BY DEF Frame
<1>2. m = 2 => Frame(m) = "CREDENTIALS"
  BY DEF Frame
<1>3. m > 3 => Frame(m) = "NEW"
  BY DEF Frame
<1> QED  BY <1>1, <1>2, <1>3

\* The sizes the handshake is told by.
LEMMA Sizes ==
  ASSUME TypeOK
  PROVE  /\ sent \in Nat /\ Parts \in Nat /\ Parts >= 1
         /\ out \in Seq((1 .. Len(answers)) \X (1 .. Parts))
         /\ Len(out) \in Nat /\ DOMAIN out = 1 .. Len(out)
         /\ Len(answers) \in Nat /\ sending \in Seq(0 .. Parts - 1) /\ Len(sending) \in Nat
         /\ sending # << >> => Head(sending) \in 0 .. Parts - 1
         /\ sending = << >> <=> Len(sending) = 0
<1>1. sent \in Nat /\ TxTypes
  BY TypeParts, NetFacts
<1>2. Parts \in Nat /\ Parts >= 1
  BY UnityAssumption
<1>3. out \in Seq((1 .. Len(answers)) \X (1 .. Parts)) /\ sending \in Seq(0 .. Parts - 1)
  BY <1>1 DEF TxTypes
<1>4. Len(answers) \in Nat
  BY <1>1, LenProperties DEF TxTypes
<1>5. Len(out) \in Nat /\ DOMAIN out = 1 .. Len(out)
  BY <1>3, LenProperties
<1>6. /\ Len(sending) \in Nat /\ (sending = << >> <=> Len(sending) = 0)
      /\ sending # << >> => Head(sending) \in 0 .. Parts - 1
  <2> DEFINE S == 0 .. Parts - 1
  <2>1. sending \in Seq(S)
    BY <1>3
  <2> HIDE DEF S
  <2>2. /\ Len(sending) \in Nat /\ (sending = << >> <=> Len(sending) = 0)
        /\ sending # << >> => Head(sending) = sending[1] /\ sending[1] \in S
    BY <2>1, QueueFacts
  <2>3. sending # << >> => Head(sending) \in S
    BY <2>2
  <2> QED  BY <2>2, <2>3 DEF S
<1> QED  BY <1>1, <1>2, <1>3, <1>4, <1>5, <1>6

LEMMA HandshakeSame ==
  ASSUME Handshake, UNCHANGED << sent, can_update, handled, txVars >>
  PROVE  Handshake'
BY DEF Handshake, ServerWaits, JoinWasSent, HandshakeUntorn, Answering, txVars

LEMMA HandshakeSends ==
  ASSUME TypeOK, Handshake, ServerSends
  PROVE  Handshake'
<1>1. /\ sent' = sent + 1 /\ Len(out) >= Parts * Replies(sent + 1)
      /\ UNCHANGED << can_update, handled, txVars >>
  BY DEF ServerSends, poseVars, rxVars
<1>2. /\ HandshakeUntorn' /\ (Len(out') < 2 * Parts => Answering') /\ out' = out
  BY <1>1 DEF Handshake, HandshakeUntorn, Answering, txVars
<1>3. sent \in Nat /\ Parts \in Nat /\ Len(out) \in Nat
  BY Sizes
<1>4. sent + 1 = 2 => Len(out) >= Parts
  <2>1. Replies(2) = 1
    BY DEF Replies
  <2> QED  BY <1>1, <1>3, <2>1
<1>5. sent + 1 = 3 => Len(out) >= 2 * Parts
  <2>1. Replies(3) = 2
    BY DEF Replies
  <2> QED  BY <1>1, <1>3, <2>1
<1>6. ServerWaits'
  <2>1. (sent >= 2 => Len(out) >= Parts) /\ (sent >= 3 => Len(out) >= 2 * Parts)
    BY DEF Handshake, ServerWaits
  <2>2. sent + 1 >= 2 => Len(out) >= Parts
    BY <1>3, <1>4, <2>1
  <2>3. sent + 1 >= 3 => Len(out) >= 2 * Parts
    BY <1>3, <1>5, <2>1
  <2> QED  BY <1>1, <1>2, <2>2, <2>3 DEF ServerWaits
<1>7. JoinWasSent'
  BY <1>1, <1>3 DEF Handshake, JoinWasSent
<1> QED  BY <1>2, <1>6, <1>7 DEF Handshake

LEMMA HandshakeUpdates ==
  ASSUME TypeOK, Handshake, Update
  PROVE  Handshake'
<1>1. can_update /\ UNCHANGED << sent, can_update, handled >> /\ out' = out
  BY DEF Update, AsyncSend, netVars, rxVars, txVars
<1>2. Len(out) >= 2 * Parts
  BY <1>1 DEF Handshake, JoinWasSent, ServerWaits
<1>3. ~(Len(out') < 2 * Parts)
  BY <1>1, <1>2, Sizes
<1>4. ServerWaits' /\ JoinWasSent' /\ HandshakeUntorn'
  BY <1>1 DEF Handshake, ServerWaits, JoinWasSent, HandshakeUntorn
<1> QED  BY <1>3, <1>4 DEF Handshake

LEMMA HandshakeTakes ==
  ASSUME TypeOK, Filled, Handshake, KernelTakes
  PROVE  Handshake'
<1> DEFINE h == Head(sending)
           L == Len(out)
<1>1. /\ UNCHANGED << sent, can_update, handled, answers, tx_buffer >> /\ sending # << >>
  BY DEF KernelTakes, netVars, poseVars, rxVars
<1>2. PICK n \in 1 .. Parts - h :
        /\ Len(out') = L + n
        /\ \A i \in 1 .. L : out'[i] = out[i]
        /\ \A i \in 1 .. n : out'[L + i] = << tx_buffer, h + i >>
        /\ out' \in Seq((1 .. Len(answers)) \X (1 .. Parts))
        /\ sending' \in Seq(0 .. Parts - 1)
        /\ h + n = Parts => Len(sending') = Len(sending) - 1
        /\ h + n < Parts => Len(sending') = Len(sending) /\ Head(sending') = h + n
  BY TypeParts, KernelFacts
<1>3. /\ Parts \in Nat /\ Parts >= 1 /\ L \in Nat /\ DOMAIN out = 1 .. L
      /\ h \in 0 .. Parts - 1 /\ Len(sending) \in Nat /\ sent \in Nat
  BY <1>1, Sizes
<1>4. n \in Nat /\ n >= 1 /\ h + n <= Parts
  <2> HIDE DEF h, L
  <2>1. n \in 1 .. Parts - h /\ Parts \in Nat /\ h \in 0 .. Parts - 1
    BY <1>3
  <2> QED  BY <2>1
<1>5. DOMAIN out' = 1 .. L + n
  BY <1>2, LenProperties
<1> HIDE DEF h, L
<1>6. ServerWaits' /\ JoinWasSent'
  <2>1. (sent >= 2 => L >= Parts) /\ (sent >= 3 => L >= 2 * Parts)
    BY DEF Handshake, ServerWaits, L
  <2>2. (sent >= 2 => L + n >= Parts) /\ (sent >= 3 => L + n >= 2 * Parts)
    BY <1>3, <1>4, <2>1
  <2> QED  BY <1>1, <1>2, <2>2 DEF ServerWaits, JoinWasSent, Handshake
<1>7. \A i \in 1 .. L : i <= 2 * Parts => out'[i] = Place(i)
  BY <1>2, <1>3 DEF Handshake, HandshakeUntorn, Place
\* The parts that are new are in their places.
<1>u. ASSUME \A i \in 1 .. n : L + i <= 2 * Parts => out'[L + i] = Place(L + i)
      PROVE  HandshakeUntorn'
  <2>1. ASSUME NEW i \in DOMAIN out', i <= 2 * Parts PROVE out'[i] = Place(i)
    <3>1. CASE i <= L
      BY <1>3, <1>5, <1>7, <2>1, <3>1
    <3>2. CASE ~(i <= L)
      <4>1. i - L \in 1 .. n /\ L + (i - L) = i
        BY <1>3, <1>4, <1>5, <3>2
      <4> DEFINE k == i - L
      <4>2. k \in 1 .. n /\ L + k = i
        BY <4>1
      <4> HIDE DEF k
      <4> QED  BY <1>u, <2>1, <4>2
    <3> QED  BY <3>1, <3>2
  <2>2. \A i \in DOMAIN out' : i <= 2 * Parts =>
            out'[i] = << ((i - 1) \div Parts) + 1, ((i - 1) % Parts) + 1 >>
    BY <2>1 DEF Place
  <2> QED  BY <2>2 DEF HandshakeUntorn
<1>8. CASE L >= 2 * Parts
  <2>1. ~(Len(out') < 2 * Parts)
    BY <1>2, <1>3, <1>4, <1>8
  <2>2. \A i \in 1 .. n : ~(L + i <= 2 * Parts)
    BY <1>3, <1>4, <1>8
  <2> QED  BY <1>6, <1>u, <2>1, <2>2 DEF Handshake
<1>9. CASE L < 2 * Parts
  <2>1. /\ Len(answers) <= 2 /\ tx_buffer = Len(answers)
        /\ Len(answers) >= 1 => handled # << >>
        /\ Len(answers) >= 2 => \E k \in DOMAIN handled : handled[k] >= 2
        /\ \/ Len(sending) = 1 /\ Len(answers) = 1 /\ L = h
           \/ Len(sending) = 1 /\ Len(answers) = 2 /\ L = Parts + h
    BY <1>1, <1>9 DEF Handshake, Answering, L, h
  <2>2. /\ h + n = Parts => sending' = << >>
        /\ h + n < Parts => Len(sending') = 1 /\ Head(sending') = h + n
    <3>1. Len(sending) = 1
      BY <2>1
    <3>2. sending' = << >> <=> Len(sending') = 0
      BY <1>2, QueueFacts
    <3>3. /\ h + n = Parts => Len(sending') = Len(sending) - 1
          /\ h + n < Parts => Len(sending') = Len(sending) /\ Head(sending') = h + n
      BY <1>2
    <3>4. ASSUME h + n = Parts PROVE sending' = << >>
      <4>1. Len(sending') = 1 - 1
        BY <3>1, <3>3, <3>4
      <4> QED  BY <3>2, <4>1
    <3>5. ASSUME h + n < Parts PROVE Len(sending') = 1 /\ Head(sending') = h + n
      BY <3>1, <3>3, <3>5
    <3> QED  BY <3>4, <3>5
  <2>3. CASE Len(answers) = 1 /\ L = h
    <3>1. \A i \in 1 .. n : out'[L + i] = Place(L + i)
      <4>1. ASSUME NEW i \in 1 .. n PROVE out'[L + i] = Place(L + i)
        <5>1. h + i \in 1 .. Parts
          BY <1>3, <1>4
        <5>2. Place(h + i) = << 1, h + i >>
          BY <5>1, PlaceFacts
        <5> QED  BY <1>2, <2>1, <2>3, <5>2
      <4> QED  BY <4>1
    <3>2. Len(out') = h + n
      BY <1>2, <2>3
    <3>3. Answering'
      <4>1. CASE h + n = Parts
        <5>1. sending' = << >> /\ Len(answers') = 1 /\ Len(out') = Parts
          BY <1>1, <2>2, <2>3, <3>2, <4>1
        <5> QED  BY <1>1, <2>1, <5>1 DEF Answering
      <4>2. CASE h + n < Parts
        <5>1. Len(sending') = 1 /\ Len(answers') = 1 /\ Len(out') = Head(sending')
          BY <1>1, <2>2, <2>3, <3>2, <4>2
        <5> QED  BY <1>1, <2>1, <5>1 DEF Answering
      <4> QED  BY <1>3, <1>4, <4>1, <4>2
    <3> QED  BY <1>6, <1>u, <3>1, <3>3 DEF Handshake
  <2>4. CASE Len(answers) = 2 /\ L = Parts + h
    <3>1. \A i \in 1 .. n : out'[L + i] = Place(L + i)
      <4>1. ASSUME NEW i \in 1 .. n PROVE out'[L + i] = Place(L + i)
        <5>1. h + i \in 1 .. Parts /\ L + i = Parts + (h + i)
          BY <1>3, <1>4, <2>4
        <5>2. Place(Parts + (h + i)) = << 2, h + i >>
          BY <5>1, PlaceFacts
        <5> QED  BY <1>2, <2>1, <2>4, <5>1, <5>2
      <4> QED  BY <4>1
    <3>2. Len(out') = Parts + (h + n)
      BY <1>2, <1>3, <1>4, <2>4
    <3>3. Len(out') < 2 * Parts => Answering'
      <4>1. CASE h + n = Parts
        <5>1. ~(Len(out') < 2 * Parts)
          BY <1>3, <3>2, <4>1
        <5> QED  BY <5>1
      <4>2. CASE h + n < Parts
        <5>1. Len(sending') = 1 /\ Len(answers') = 2 /\ Len(out') = Parts + Head(sending')
          BY <1>1, <2>2, <2>4, <3>2, <4>2
        <5> QED  BY <1>1, <2>1, <5>1 DEF Answering
      <4> QED  BY <1>3, <1>4, <4>1, <4>2
    <3> QED  BY <1>6, <1>u, <3>1, <3>3 DEF Handshake
  <2> QED  BY <2>1, <2>3, <2>4
<1> QED  BY <1>3, <1>8, <1>9

LEMMA HandshakeMessage ==
  ASSUME TypeOK, Order, Handshake, OnReceiveMessage
  PROVE  Handshake'
<1> DEFINE m == Held[1][1]
<1>1. receive = "completed" /\ Complete(Held) /\ ProcessMessage(m) /\ sent' = sent
  BY DEF OnReceiveMessage, HandsOver, ReceiveAgain, netVars
<1>2. m \in 1 .. MaxFrames /\ m <= sent /\ \A k \in DOMAIN handled : handled[k] < m
  BY <1>1, FirstFrame
<1> HIDE DEF m
<1>3. m \in Nat /\ m >= 1 /\ sent \in Nat
  <2>1. MaxFrames \in Nat
    BY UnityAssumption DEF MaxFrames
  <2> QED  BY <1>2, <2>1, Sizes
<1>4. out' = out /\ handled' = Append(handled, m)
  BY <1>1 DEF ProcessMessage, AsyncSend, txVars
<1>5. ServerWaits' /\ HandshakeUntorn'
  BY <1>1, <1>4 DEF Handshake, ServerWaits, HandshakeUntorn
<1>6. JoinWasSent'
  <2>1. CASE Joined(Frame(m))
    <3>1. m = 3
      BY <1>3, <2>1, FrameFacts DEF Joined
    <3>2. sent >= 3
      BY <1>2, <1>3, <3>1
    <3> QED  BY <1>1, <3>2 DEF JoinWasSent
  <2>2. CASE ~Joined(Frame(m))
    <3>1. can_update' = can_update
      BY <1>1, <2>2 DEF ProcessMessage
    <3> QED  BY <1>1, <3>1 DEF Handshake, JoinWasSent
  <2> QED  BY <2>1, <2>2
<1>7. ASSUME Len(out) < 2 * Parts PROVE Answering'
  <2>1. /\ Len(answers) <= 2 /\ tx_buffer = Len(answers)
        /\ Len(answers) >= 1 => handled # << >>
        /\ Len(answers) >= 2 => \E k \in DOMAIN handled : handled[k] >= 2
        /\ \/ sending = << >> /\ Len(answers) = 0 /\ Len(out) = 0
           \/ sending = << >> /\ Len(answers) = 1 /\ Len(out) = Parts
           \/ Len(sending) = 1 /\ Len(answers) = 1 /\ Len(out) = Head(sending)
           \/ Len(sending) = 1 /\ Len(answers) = 2 /\ Len(out) = Parts + Head(sending)
    BY <1>7 DEF Handshake, Answering
  <2>s. /\ Parts \in Nat /\ Parts >= 1 /\ Len(out) \in Nat /\ Len(answers) \in Nat
        /\ sending # << >> => Head(sending) \in 0 .. Parts - 1
        /\ sending = << >> <=> Len(sending) = 0
    BY Sizes
  <2>2. m \in { 1, 2 }
    <3>1. ~(sent >= 3)
      BY <1>7, <2>s DEF Handshake, ServerWaits
    <3> QED  BY <1>2, <1>3, <3>1
  <2>3. /\ handled' # << >> /\ DOMAIN handled \in SUBSET DOMAIN handled'
        /\ \E k \in DOMAIN handled' : handled'[k] = m
    <3> DEFINE n == Len(handled)
    <3>1. /\ handled' \in Seq(1 .. MaxFrames) /\ Len(handled') = n + 1 /\ handled'[n + 1] = m
          /\ n \in Nat /\ DOMAIN handled = 1 .. n
      BY <1>2, <1>4, HandledFacts, AppendProperties
    <3>2. DOMAIN handled' = 1 .. n + 1
      BY <3>1, LenProperties
    <3>3. handled' # << >>
      BY <3>1, EmptySeq
    <3> HIDE DEF n
    <3>4. n + 1 \in DOMAIN handled' /\ DOMAIN handled \in SUBSET DOMAIN handled'
      BY <3>1, <3>2
    <3> QED  BY <3>1, <3>3, <3>4
  <2>4. CASE m = 1
    <3>1. handled = << >>
      <4>1. \A k \in DOMAIN handled : FALSE
        BY <1>2, <2>4, HandledFacts
      <4>2. Len(handled) = 0
        BY <4>1, HandledFacts
      <4> QED  BY <4>2, HandledFacts, EmptySeq
    <3>2. sending = << >> /\ Len(answers) = 0 /\ Len(out) = 0
      BY <2>1, <2>s, <3>1
    <3>3. AsyncSend("HELLO_ACK") /\ "HELLO_ACK" \in Kinds
      BY <1>1, <1>3, <2>4, FrameFacts DEF ProcessMessage, Kinds
    <3>4. \/ UNCHANGED txVars
          \/ /\ Len(answers') = 1 /\ tx_buffer' = 1 /\ Len(sending') = 1 /\ Head(sending') = 0
      <4>1. Len(sending) = 0
        BY <2>s, <3>2
      <4> QED  BY <3>2, <3>3, <4>1, TypeParts, AsyncSendFacts
    <3>5. CASE UNCHANGED txVars
      <4>1. Len(answers') = 0 /\ tx_buffer' = 0 /\ sending' = << >> /\ Len(out') = 0
        BY <2>1, <3>2, <3>5 DEF txVars
      <4> QED  BY <4>1 DEF Answering
    <3>6. CASE Len(answers') = 1 /\ tx_buffer' = 1 /\ Len(sending') = 1 /\ Head(sending') = 0
      <4>1. Len(out') = Head(sending')
        BY <1>4, <3>2, <3>6
      <4> QED  BY <2>3, <3>6, <4>1 DEF Answering
    <3> QED  BY <3>4, <3>5, <3>6
  <2>5. CASE m = 2
    <3>1. Len(out) >= Parts
      BY <1>2, <1>3, <2>5 DEF Handshake, ServerWaits
    <3>2. ~(Len(answers) >= 2)
      <4>1. \A k \in DOMAIN handled : ~(handled[k] >= 2)
        BY <1>2, <2>5, HandledFacts
      <4> QED  BY <2>1, <4>1
    <3>3. sending = << >> /\ Len(answers) = 1 /\ Len(out) = Parts
      BY <2>1, <2>s, <3>1, <3>2
    <3>4. AsyncSend("CREDENTIALS_ACK") /\ "CREDENTIALS_ACK" \in Kinds
      BY <1>1, <1>3, <2>5, FrameFacts DEF ProcessMessage, Kinds
    <3>5. \/ UNCHANGED txVars
          \/ /\ Len(answers') = 2 /\ tx_buffer' = 2 /\ Len(sending') = 1 /\ Head(sending') = 0
      <4>1. Len(sending) = 0
        BY <2>s, <3>3
      <4> QED  BY <3>3, <3>4, <4>1, TypeParts, AsyncSendFacts
    <3>6. CASE UNCHANGED txVars
      <4>1. Len(answers') = 1 /\ tx_buffer' = 1 /\ sending' = << >> /\ Len(out') = Parts
        BY <2>1, <3>3, <3>6 DEF txVars
      <4> QED  BY <2>3, <4>1 DEF Answering
    <3>7. CASE Len(answers') = 2 /\ tx_buffer' = 2 /\ Len(sending') = 1 /\ Head(sending') = 0
      <4>1. Len(out') = Parts + Head(sending')
        BY <1>4, <2>s, <3>3, <3>7
      <4>2. \E k \in DOMAIN handled' : handled'[k] >= 2
        BY <2>3, <2>5
      <4> QED  BY <2>3, <3>7, <4>1, <4>2 DEF Answering
    <3> QED  BY <3>5, <3>6, <3>7
  <2> QED  BY <2>2, <2>4, <2>5
<1>8. Len(out') < 2 * Parts => Answering'
  BY <1>4, <1>7
<1> QED  BY <1>5, <1>6, <1>8 DEF Handshake

LEMMA HandshakeRefused ==
  ASSUME TypeOK, Order, Handshake, OnReceiveRefuses
  PROVE  Handshake'
<1> DEFINE m == Held[1][1]
           n == Len(handled)
<1>1. /\ receive = "completed" /\ Complete(Held) /\ handled' = Append(handled, m)
      /\ UNCHANGED << sent, can_update, txVars >>
  BY DEF OnReceiveRefuses, HandsOver, netVars, poseVars
<1>2. m \in 1 .. MaxFrames
  BY <1>1, FirstFrame
<1>3. n \in Nat /\ DOMAIN handled = 1 .. n
  BY HandledFacts
<1>4. /\ handled' \in Seq(1 .. MaxFrames) /\ Len(handled') = n + 1
      /\ \A k \in 1 .. n : handled'[k] = handled[k]
  BY <1>1, <1>2, HandledFacts, AppendProperties
<1>5. DOMAIN handled' = 1 .. n + 1
  BY <1>4, LenProperties
<1>6. handled' # << >>
  BY <1>3, <1>4, EmptySeq
<1> HIDE DEF m, n
<1>7. \A k \in DOMAIN handled : k \in DOMAIN handled' /\ handled'[k] = handled[k]
  BY <1>3, <1>4, <1>5
<1> QED  BY <1>1, <1>6, <1>7
         DEF Handshake, ServerWaits, JoinWasSent, HandshakeUntorn, Answering, txVars

LEMMA HandshakeStep == TypeOK /\ Filled /\ Order /\ Handshake /\ [Next]_vars => Handshake'
<1> SUFFICES ASSUME TypeOK, Filled, Order, Handshake, [Next]_vars PROVE Handshake'
  OBVIOUS
<1>1. CASE ServerCloses \/ Arrives \/ Completes \/ TimePasses \/ UNCHANGED vars
  <2>1. UNCHANGED << sent, can_update, handled, txVars >>
    BY <1>1 DEF ServerCloses, Arrives, Completes, TimePasses, vars, netVars, rxVars, poseVars
  <2> QED  BY <2>1, HandshakeSame
<1>2. CASE Accumulate \/ OnReceiveThrows \/ OnReceiveKeeps \/ OnReceiveUnknown
  <2>1. UNCHANGED << sent, can_update, handled, txVars >>
    BY <1>2 DEF Accumulate, OnReceiveThrows, OnReceiveKeeps, OnReceiveUnknown, ReceiveAgain,
                netVars, poseVars
  <2> QED  BY <2>1, HandshakeSame
<1> QED  BY <1>1, <1>2, HandshakeSends, HandshakeUpdates, HandshakeTakes, HandshakeMessage,
            HandshakeRefused DEF Next, ReceiveCallback

LEMMA InitHandshake == Init => Handshake
<1> SUFFICES ASSUME Init PROVE Handshake
  OBVIOUS
<1>1. /\ sent = 0 /\ can_update = FALSE /\ answers = << >> /\ tx_buffer = 0
      /\ sending = << >> /\ out = << >>
  BY DEF Init
<1>2. Len(<< >>) = 0 /\ DOMAIN << >> = {}
  BY EmptySeq
<1>3. ServerWaits /\ JoinWasSent
  BY <1>1 DEF ServerWaits, JoinWasSent
<1>4. HandshakeUntorn
  BY <1>1, <1>2 DEF HandshakeUntorn
<1>5. Answering
  <2>1. Len(answers) = 0 /\ Len(out) = 0
    BY <1>1, <1>2
  <2> QED  BY <1>1, <2>1 DEF Answering
<1> QED  BY <1>3, <1>4, <1>5 DEF Handshake

\* The answers of the handshake leave whole and in their order although every
\* message is put in the one transmit buffer: the server sends the next frame
\* when an answer is out, and no update is sent before the frame after the last.
THEOREM HandshakeUntornHolds == Spec => []HandshakeUntorn
<1>1. Init => TypeOK /\ Filled /\ Order /\ Handshake
  BY InitTypes, InitOrder, InitHandshake
<1>2. TypeOK /\ Filled /\ Order /\ Handshake /\ [Next]_vars => (TypeOK /\ Filled /\ Order /\ Handshake)'
  BY TypeStep, OrderStep, HandshakeStep
<1>3. Handshake => HandshakeUntorn
  BY DEF Handshake
<1> QED  BY <1>1, <1>2, <1>3, PTL DEF Spec

=============================================================================
