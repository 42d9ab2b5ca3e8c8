---------------------------- MODULE UnityClient ----------------------------
(***************************************************************************)
(* The Unity client: XRAsyncTCPClient.cs receives and sends on threads of  *)
(* the .NET pool, XRNetworkParticipant.cs makes messages of what was       *)
(* received, answers the handshake and, from Unity's main thread, sends    *)
(* its pose.                                                               *)
(*                                                                         *)
(* A frame of the server is 64 KB of which a small part is the payload.    *)
(* TCP may cut it anywhere.  Four cells tell the cuts apart:               *)
(*   1 some of the first 8 bytes      2 the rest of the header and more    *)
(*   3 the rest of the payload        4 the zeros up to 64 KB              *)
(* Each may be of a few bytes, but the payload has more than 8, and so     *)
(* have the zeros behind it.  Bytes from within a payload, read as a       *)
(* header, are no known head with a size that fits.                        *)
(***************************************************************************)
EXTENDS Integers, Sequences, FiniteSetsExt

CONSTANTS
    Others,       \* frames of the server after PARTICIPANT_JOIN (a bound)
    MaxUpdates,   \* updates of the client (a bound)
    Parts,        \* pieces of a 64 KB message that the kernel may take
    max_data_rate \* what the server writes into PARTICIPANT_JOIN: 1

ASSUME UnityAssumption == /\ Others \in Nat /\ MaxUpdates \in Nat
                          /\ Parts \in Nat \ {0} /\ max_data_rate \in Nat \ {0}

VARIABLES
    whole,                 \* TCP happens to deliver whole frames (chosen by Init)
    sent, arrived, taken,  \* frames the server sent; cells that arrived; cells received
    closed,                \* the server closed the connection
    receive,               \* BeginReceive: "pending", "completed" or "ended" (not called again)
    buffer,                \* cells of the completed receive
    m_rxBuffer,            \* of XRAsyncTCPClient
    m_tcp_buffer,          \* of XRNetworkParticipant
    handled,               \* history: the frames given to ProcessMessage
    m_dt_ms, can_update, elapsed,  \* elapsed: ms since the last update
    answers,               \* history: the messages given to AsyncSend
    tx_buffer,             \* which of them the transmit buffer holds
    sending,               \* the BeginSends in progress: parts sent
    out                    \* the client's stream: parts <<message, part>>

netVars  == << whole, sent, arrived, taken, closed >>
rxVars   == << receive, buffer, m_rxBuffer, m_tcp_buffer, handled >>
poseVars == << m_dt_ms, can_update, elapsed >>
txVars   == << answers, tx_buffer, sending, out >>
vars == << netVars, rxVars, poseVars, txVars >>

Cell(i)     == << ((i - 1) \div 4) + 1, ((i - 1) % 4) + 1 >>
Frame(m)    == IF m <= 3 THEN << "HELLO", "CREDENTIALS", "JOIN" >>[m] ELSE "NEW"
Replies(m)  == IF m <= 3 THEN m - 1 ELSE 2  \* answers the server reads before it sends frame m
MaxFrames   == 3 + Others

Init == /\ whole \in BOOLEAN
        /\ sent = 0 /\ arrived = 0 /\ taken = 0 /\ closed = FALSE
        /\ receive = "pending" /\ buffer = << >> /\ m_rxBuffer = << >> /\ m_tcp_buffer = << >>
        /\ handled = << >>
        /\ m_dt_ms = 0 /\ can_update = FALSE /\ elapsed = 1000
        /\ answers = << >> /\ tx_buffer = 0 /\ sending = << >> /\ out = << >>

-----------------------------------------------------------------------------
(* The server and the network.                                             *)

\* It may also send nothing more: it copies the client's HELLO_ACK by a size
\* that it takes from the client's name (handshake.hpp:57), and need not survive.
ServerSends == /\ ~closed /\ sent < MaxFrames /\ Len(out) >= Parts * Replies(sent + 1)
               /\ sent' = sent + 1
               /\ UNCHANGED << whole, arrived, taken, closed, rxVars, poseVars, txVars >>

ServerCloses == /\ ~closed /\ closed' = TRUE
                /\ UNCHANGED << whole, sent, arrived, taken, rxVars, poseVars, txVars >>

Arrives == \E n \in arrived + 1 .. 4 * sent :
    /\ whole => n % 4 = 0
    /\ arrived' = n
    /\ UNCHANGED << whole, sent, taken, closed, rxVars, poseVars, txVars >>

\* Mutant of Amount: the receive is taken to fill its buffer.
AmountFull == 4

\* A receive of up to 64 KB.
Amount == Min({ 4, arrived - taken })

Completes ==
    /\ receive = "pending"
    /\ arrived > taken \/ (closed /\ taken = 4 * sent)
    /\ buffer' = [i \in 1 .. Amount |-> Cell(taken + i)]
    /\ taken' = taken + Amount
    /\ receive' = "completed"
    /\ UNCHANGED << whole, sent, arrived, closed, m_rxBuffer, m_tcp_buffer, handled, poseVars, txVars >>

\* A send in progress takes what the transmit buffer holds now.
KernelTakes ==
    /\ sending # << >>
    /\ \E n \in 1 .. Parts - Head(sending) :
          /\ out' = out \o [i \in 1 .. n |-> << tx_buffer, Head(sending) + i >>]
          /\ sending' = IF Head(sending) + n = Parts THEN Tail(sending)
                        ELSE [sending EXCEPT ![1] = @ + n]
    /\ UNCHANGED << netVars, rxVars, poseVars, answers, tx_buffer >>

-----------------------------------------------------------------------------
(* Sending.                                                                *)

\* AsyncSend refills the one transmit buffer and begins to send it.  It returns
\* at once when the socket is not Connected, which .NET finds out when an
\* operation fails: at the earliest when the server has closed.
AsyncSend(message) ==
    \/ /\ answers' = Append(answers, message)
       /\ tx_buffer' = Len(answers) + 1
       /\ sending' = Append(sending, 0)
       /\ UNCHANGED out
    \/ closed /\ UNCHANGED txVars

\* Integer division: 1 ms for 1 message per second, 0 for more.
Period(rate) == 1 \div rate

\* Update, once per frame of Unity.
Update ==
    /\ m_dt_ms > 0 /\ elapsed >= m_dt_ms /\ can_update
    /\ Cardinality({ i \in DOMAIN answers : answers[i] = "UPDATE_ACK" }) < MaxUpdates
    /\ AsyncSend("UPDATE_ACK")
    /\ elapsed' = 0
    /\ UNCHANGED << netVars, rxVars, m_dt_ms, can_update >>

\* Time passes: a frame of Unity, a second.
TimePasses == \E t \in { 16, 1000 } :
    /\ elapsed < t /\ elapsed' = t
    /\ UNCHANGED << netVars, rxVars, m_dt_ms, can_update, txVars >>

-----------------------------------------------------------------------------
(* Receiving.                                                              *)

\* Mutant of Joined: updates begin with the request for credentials.
JoinedEarly(kind) == kind = "CREDENTIALS"

Joined(kind) == kind = "JOIN"

\* ProcessMessage.
ProcessMessage(m) ==
    /\ handled' = Append(handled, m)
    /\ IF Frame(m) \in { "HELLO", "CREDENTIALS" }
       THEN AsyncSend(IF Frame(m) = "HELLO" THEN "HELLO_ACK" ELSE "CREDENTIALS_ACK")
       ELSE UNCHANGED txVars
    /\ IF Joined(Frame(m))
       THEN m_dt_ms' = Period(max_data_rate) /\ can_update' = TRUE
       ELSE UNCHANGED << m_dt_ms, can_update >>
    /\ UNCHANGED elapsed

\* Mutant of Accumulate: what was accumulated is overwritten.
AccumulateOverwrites ==
    /\ receive = "completed" /\ buffer # << >> /\ arrived > taken
    /\ m_rxBuffer' = buffer
    /\ receive' = "pending"
    /\ UNCHANGED << netVars, buffer, m_tcp_buffer, handled, poseVars, txVars >>

\* asyncReceiveCallback: accumulates while more is available.
Accumulate ==
    /\ receive = "completed" /\ buffer # << >> /\ arrived > taken
    /\ m_rxBuffer' = m_rxBuffer \o buffer
    /\ receive' = "pending"
    /\ UNCHANGED << netVars, buffer, m_tcp_buffer, handled, poseVars, txVars >>

\* Else OnReceive is given what was accumulated and receives again when it returns.
HandsOver == receive = "completed" /\ (buffer = << >> \/ arrived = taken)
Held == m_tcp_buffer \o m_rxBuffer \o buffer
ReceiveAgain == receive' = "pending" /\ m_rxBuffer' = << >> /\ UNCHANGED << netVars, buffer >>

Short(b)    == b = << >> \/ (Len(b) = 1 /\ b[1][2] = 1)
MaybeShort(b) == Len(b) <= 1 \/ (Len(b) = 2 /\ b[2][2] = 1)
Header(b)   == ~Short(b) /\ b[1][2] = 1
Complete(b) == Header(b) /\ Len(b) >= 3
Zeros(b)    == b # << >> /\ b[1][2] = 4
Middle(b)   == b # << >> /\ b[1][2] \in { 2, 3 }

\* Mutant of OnReceiveThrows: the exception is caught before the next receive.
OnReceiveCatches ==
    /\ HandsOver /\ MaybeShort(Held)
    /\ m_tcp_buffer' = Held
    /\ ReceiveAgain
    /\ UNCHANGED << handled, poseVars, txVars >>

\* BitConverter throws when there are not 8 bytes; the exception is reported
\* and BeginReceive is not called again.
OnReceiveThrows ==
    /\ HandsOver /\ MaybeShort(Held)
    /\ m_tcp_buffer' = Held
    /\ receive' = "ended"
    /\ UNCHANGED << netVars, buffer, m_rxBuffer, handled, poseVars, txVars >>

\* The payload is not complete, or the header is zero: what is there is kept.
OnReceiveKeeps ==
    /\ HandsOver
    /\ (Header(Held) /\ ~Complete(Held)) \/ Zeros(Held) \/ Middle(Held)
    /\ m_tcp_buffer' = Held
    /\ ReceiveAgain
    /\ UNCHANGED << handled, poseVars, txVars >>

\* Mutant of Rest: the buffer is not emptied.
RestKept(b) == b

\* What is left of the buffer when its first message was processed.
Rest(b) == << >>

OnReceiveMessage ==
    /\ HandsOver /\ Complete(Held)
    /\ ProcessMessage(Held[1][1])
    /\ m_tcp_buffer' = Rest(Held)
    /\ ReceiveAgain

\* The answer to HELLO is an array of 1042 bytes, marshalled into one of 65528:
\* the runtime reads on behind its end (OnReceiveMessage), or throws.  The
\* exception leaves OnReceive before its buffer is emptied.
OnReceiveRefuses ==
    /\ HandsOver /\ Complete(Held) /\ Frame(Held[1][1]) = "HELLO"
    /\ handled' = Append(handled, Held[1][1])
    /\ m_tcp_buffer' = Held
    /\ receive' = "ended"
    /\ UNCHANGED << netVars, buffer, m_rxBuffer, poseVars, txVars >>

\* Bytes of a payload taken for a header of an unknown message.
OnReceiveUnknown ==
    /\ HandsOver /\ Middle(Held)
    /\ m_tcp_buffer' = Rest(Held)
    /\ ReceiveAgain
    /\ UNCHANGED << handled, poseVars, txVars >>

-----------------------------------------------------------------------------
ReceiveCallback == \/ Accumulate \/ OnReceiveThrows \/ OnReceiveKeeps
                   \/ OnReceiveMessage \/ OnReceiveRefuses \/ OnReceiveUnknown

Next == \/ ServerSends \/ ServerCloses \/ Arrives \/ Completes \/ KernelTakes
        \/ Update \/ TimePasses \/ ReceiveCallback
Spec == Init /\ [][Next]_vars

\* TCP and the thread pool proceed.  Nothing is assumed of the server.
FairSpec == /\ Spec /\ WF_vars(Arrives) /\ WF_vars(Completes)
            /\ WF_vars(KernelTakes) /\ WF_vars(ReceiveCallback)

-----------------------------------------------------------------------------
(* Properties.                                                             *)

Cells == (1 .. MaxFrames) \X (1 .. 4)

\* The values every variable may take.
TypeOK ==
    /\ whole \in BOOLEAN /\ sent \in 0 .. MaxFrames /\ arrived \in 0 .. 4 * sent /\ taken \in 0 .. arrived
    /\ closed \in BOOLEAN /\ receive \in { "pending", "completed", "ended" }
    /\ buffer \in Seq(Cells) /\ m_rxBuffer \in Seq(Cells) /\ m_tcp_buffer \in Seq(Cells)
    /\ handled \in Seq(1 .. MaxFrames)
    /\ m_dt_ms \in 0 .. 1000 /\ can_update \in BOOLEAN /\ elapsed \in { 0, 16, 1000 }
    /\ answers \in Seq({ "HELLO_ACK", "CREDENTIALS_ACK", "UPDATE_ACK" })
    /\ tx_buffer \in 0 .. Len(answers) /\ sending \in Seq(0 .. Parts - 1)
    /\ out \in Seq((1 .. Len(answers)) \X (1 .. Parts))

\* However frames are cut and run together, those that are handled are handled
\* in their order and none twice.
HandledInOrder == \A i, j \in DOMAIN handled : i < j => handled[i] < handled[j]

\* The one transmit buffer is refilled while a send may be in progress, but
\* never under the answers of the handshake: the server waits for each of them,
\* and updates begin with the frame it sends after the last.
HandshakeUntorn ==
    \A i \in DOMAIN out :
        i <= 2 * Parts => out[i] = << ((i - 1) \div Parts) + 1, ((i - 1) % Parts) + 1 >>

\* The runtime threw at the answer to HELLO.
Refused == handled = << 1 >> /\ answers = << >>

\* If TCP delivers whole frames, alone or several at once, the client answers
\* every request of the handshake to the last byte, and begins to send its pose
\* when the server lets it join, unless the server closes or the client cannot
\* even answer HELLO.
HandshakeProceeds ==
    \A m \in 1 .. 3 : whole /\ sent >= m ~>
        closed \/ Refused \/ IF m = 3 THEN can_update ELSE Len(out) >= Parts * m

\* If TCP delivers whole frames, receiving ends when the server closes: the
\* receive of 0 bytes finds no message begun and is not repeated.
EndsAtClose == whole /\ closed ~> receive = "ended"

=============================================================================
