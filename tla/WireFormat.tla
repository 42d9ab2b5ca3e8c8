----------------------------- MODULE WireFormat -----------------------------
(***************************************************************************)
(* The bytes of the messages: a sender fills a packed struct, XRMessage    *)
(* copies it behind an 8 byte header into a zeroed frame of 64 KB, and the *)
(* receiver lays a struct of its own over the payload.  Nothing but the    *)
(* agreement of the layouts makes it read what was written.  Three         *)
(* programs have layouts: the server, the native chat client (both         *)
(* protocol.hpp) and the Unity client (XRNetworkProtocol.cs, the side of   *)
(* its merge conflict that XRNetworkParticipant.cs is written for).        *)
(*                                                                         *)
(* Bytes are not modelled one by one: a span says which bytes hold what,   *)
(* and a byte in no span is zero.  No sender of the native code checks     *)
(* that a text fits the buffer it copies it to: behind the buffer, which   *)
(* is the last of its struct, is the stack of the caller, and the program  *)
(* goes on or crashes.                                                     *)
(***************************************************************************)
EXTENDS Integers, Sequences, FiniteSetsExt

CONSTANTS
    Lengths,         \* lengths of texts tried, names and descriptors
    IsLittleEndian   \* the host of the server and the chat client

ASSUME WireAssumption == Lengths \subseteq Nat /\ IsLittleEndian \in BOOLEAN

Clients == { "chat", "unity" }
KB == 1024

VARIABLES
    phase,     \* "idle", "sent" or "received"; "crashed" for good
    message,   \* its head, who sent it, who receives it
    length,    \* of each text of the message: how long it is at the sender
    header,    \* the header of the frame
    payload,   \* the frame behind the header: a set of spans
    listed,    \* newp, the variable that send_list_of_players fills again and again
    longest    \* of the descriptors newp has held: how long was the longest

vars == << phase, message, length, header, payload, listed, longest >>

\* A frame of 64 KB has this much room behind its header.
Room == 65536 - 8

-----------------------------------------------------------------------------
(* Layouts: a sequence of fields with their sizes.                         *)

Number(name, size) == [name |-> name, size |-> size, text |-> FALSE]
Buffer(name, size) == [name |-> name, size |-> size, text |-> TRUE]

ST_HANDSHAKE_HELLO ==
    << Number("service_id", 8), Number("participant_id", 8), Number("server_timestamp", 8),
       Number("servername_buffersize", 4), Buffer("servername_buffer", KB) >>
ST_HANDSHAKE_HELLO_ACK ==
    << Number("participant_id", 8), Number("client_timestamp", 8),
       Number("configuration_buffersize", 4), Buffer("configuration_buffer", 20 * KB) >>
ST_HANDSHAKE_CREDENTIALS ==
    << Number("server_certificate_buffersize", 4), Buffer("server_certificate_buffer", 20 * KB) >>
ST_HANDSHAKE_CREDENTIALS_ACK ==
    << Number("participant_id", 8),
       Number("login_buffersize", 2), Buffer("login_buffer", KB),
       Number("password_buffersize", 2), Buffer("password_buffer", KB),
       Number("participant_certificate_buffersize", 2),
       Buffer("participant_certificate_buffer", 20 * KB) >>
ST_PARTICIPANT_JOIN ==
    << Number("participant_id", 8), Number("max_data_rate", 2),
       Number("allow_asynchronous_messages", 2),
       Number("message_buffersize", 4), Buffer("message_buffer", 10 * KB) >>
ST_PARTICIPANT_NEW ==
    << Number("participant_id", 8), Number("descriptor_buffersize", 4),
       Buffer("descriptor_buffer", 20 * KB) >>
ST_PARTICIPANT_UPDATE_ACK ==
    << Number("participant_id", 8), Number("origin_timestamp", 8), Number("buffersize", 4),
       Buffer("buffer", 20 * KB) >>

Native == [ HANDSHAKE_HELLO           |-> ST_HANDSHAKE_HELLO,
            HANDSHAKE_HELLO_ACK       |-> ST_HANDSHAKE_HELLO_ACK,
            HANDSHAKE_CREDENTIALS     |-> ST_HANDSHAKE_CREDENTIALS,
            HANDSHAKE_CREDENTIALS_ACK |-> ST_HANDSHAKE_CREDENTIALS_ACK,
            PARTICIPANT_JOIN          |-> ST_PARTICIPANT_JOIN,
            PARTICIPANT_NEW           |-> ST_PARTICIPANT_NEW,
            PARTICIPANT_UPDATE_ACK    |-> ST_PARTICIPANT_UPDATE_ACK ]

\* Where the Unity client differs; names of fields are those above.
UnityHelloAckLayout ==
    << Number("participant_id", 8), Number("client_timestamp", 8),
       Number("configuration_buffersize", 2), Buffer("configuration_buffer", KB) >>
UnityJoinLayout ==
    << Number("participant_id", 8), Number("max_data_rate", 2),
       Number("allow_asynchronous_messages", 2),
       Number("message_buffersize", 2), Buffer("message_buffer", 10 * KB) >>
Unity == [ HANDSHAKE_HELLO_ACK |-> UnityHelloAckLayout, PARTICIPANT_JOIN |-> UnityJoinLayout ]

Layout(who, head) == IF who = "unity" /\ head \in DOMAIN Unity THEN Unity[head] ELSE Native[head]

\* Packed: each field begins where the one before it ends.
First(layout, i) ==
    LET offset[j \in 1 .. Len(layout) + 1] ==
            IF j = 1 THEN 0 ELSE offset[j - 1] + layout[j - 1].size
    IN  offset[i]
SizeOf(layout)   == First(layout, Len(layout) + 1)
Buffers(layout)  == { f.name : f \in { layout[i] : i \in { j \in DOMAIN layout : layout[j].text } } }

\* Mutant of SIZEOF_PARTICIPANT_UPDATE: the size of the frame.
SIZEOF_FRAME == 65536

\* ST_PARTICIPANT_UPDATE alone is not packed: 28 bytes before the buffer, padded
\* to a multiple of 8.
SIZEOF_PARTICIPANT_UPDATE == 20512

-----------------------------------------------------------------------------
(* Spans.                                                                  *)

Span(what, first, n) == IF n = 0 THEN {} ELSE { [what |-> what, first |-> first, last |-> first + n - 1] }
Within(spans, first, last) ==
    { [s EXCEPT !.first = Max({@, first}), !.last = Min({@, last})] :
          s \in { t \in spans : t.first <= last /\ t.last >= first } }

\* memcpy of n bytes to a buffer at the end of a struct: what the struct gets of them.
Copied(n, size) == Min({n, size})

\* memcpy of n bytes of a text to an offset: what was there is overwritten.
Overwrite(spans, what, first, n) ==
    Within(spans, 0, first - 1) \cup Span(what, first, n) \cup Within(spans, first + n, 65535)

\* A struct of a sender: its numbers, and the texts its buffers hold.
Struct(layout, len) ==
    UNION { Span(layout[i].name, First(layout, i),
                 IF layout[i].text THEN len[layout[i].name] ELSE layout[i].size) :
            i \in DOMAIN layout }

NoText(layout) == [b \in Buffers(layout) |-> 0]

-----------------------------------------------------------------------------
(* Senders.                                                                *)

\* XRMessage(head, buffer, size): the header, size bytes of the buffer, zeros.
XRMessage(head, spans, size) ==
    /\ header' = [head |-> head, buffersize |-> size, payload_is_big_endian |-> 65535]
    /\ payload' = Within(spans, 0, size - 1)

\* ProcessMessage of the Unity client makes its frames itself.
UnityMessage(head, spans, size, flag) ==
    /\ header' = [head |-> head, buffersize |-> size, payload_is_big_endian |-> flag]
    /\ payload' = spans

\* A sender that copies past the end of its struct goes on, or crashes.
Outcomes(n, size) == IF n <= size THEN { "sent" } ELSE { "sent", "crashed" }

Post(from, to, head, len, outcomes) ==
    /\ phase = "idle" /\ phase' \in outcomes
    /\ message' = [head |-> head, from |-> from, to |-> to]
    /\ length' = len

\* build_handshake_hello: memcpy of the whole name of the server.
Hello(to, n) ==
    LET layout == ST_HANDSHAKE_HELLO
    IN  /\ Post("server", to, "HANDSHAKE_HELLO", [servername_buffer |-> n], Outcomes(n, KB))
        /\ XRMessage("HANDSHAKE_HELLO", Struct(layout, [servername_buffer |-> Copied(n, KB)]),
                     SizeOf(layout))
        /\ UNCHANGED << listed, longest >>

\* The chat client's answer: a configuration of 20 letters.
HelloAck ==
    LET len == [configuration_buffer |-> 20]
    IN  /\ Post("chat", "server", "HANDSHAKE_HELLO_ACK", len, { "sent" })
        /\ XRMessage("HANDSHAKE_HELLO_ACK", Struct(ST_HANDSHAKE_HELLO_ACK, len),
                     SizeOf(ST_HANDSHAKE_HELLO_ACK))
        /\ UNCHANGED << listed, longest >>

\* The Unity client's answer: the name of the participant (Array.Copy throws when
\* it does not fit).  The struct, an array of 1042 bytes, is marshalled into a
\* ByValArray of 64 KB - 8: that throws too, and nothing is sent, or reads on
\* behind the array.
UnityHelloAck(n) ==
    LET len == [configuration_buffer |-> n]
        size == SizeOf(UnityHelloAckLayout)
    IN  /\ n <= KB
        /\ Post("unity", "server", "HANDSHAKE_HELLO_ACK", len, { "sent" })
        /\ UnityMessage("HANDSHAKE_HELLO_ACK",
                        Struct(UnityHelloAckLayout, len) \cup Span("garbage", size, Room - size),
                        size, IF IsLittleEndian THEN 0 ELSE 65535)
        /\ UNCHANGED << listed, longest >>

\* build_handshake_credentials: an empty certificate.
Credentials(to) ==
    LET layout == ST_HANDSHAKE_CREDENTIALS
    IN  /\ Post("server", to, "HANDSHAKE_CREDENTIALS", NoText(layout), { "sent" })
        /\ XRMessage("HANDSHAKE_CREDENTIALS", Struct(layout, NoText(layout)), SizeOf(layout))
        /\ UNCHANGED << listed, longest >>

\* Mutant of SizeOfCredentialsAck: the size of another struct, a smaller one.
SizeOfLogin == SizeOf(SubSeq(ST_HANDSHAKE_CREDENTIALS_ACK, 1, 3))

\* The chat client copies as many bytes as ST_HANDSHAKE_CREDENTIALS has.
SizeOfCredentialsAck == SizeOf(ST_HANDSHAKE_CREDENTIALS)

Login(login, password) == [login_buffer |-> login, password_buffer |-> password,
                           participant_certificate_buffer |-> 0]

CredentialsAck ==
    /\ Post("chat", "server", "HANDSHAKE_CREDENTIALS_ACK", Login(5, 8), { "sent" })
    /\ XRMessage("HANDSHAKE_CREDENTIALS_ACK", Struct(ST_HANDSHAKE_CREDENTIALS_ACK, Login(5, 8)),
                 SizeOfCredentialsAck)
    /\ UNCHANGED << listed, longest >>

\* Array.Copy lets through what fits the arrays of 1 KB.
UnityCredentialsAck(login, password) ==
    /\ login <= KB /\ password <= KB
    /\ Post("unity", "server", "HANDSHAKE_CREDENTIALS_ACK", Login(login, password), { "sent" })
    /\ UnityMessage("HANDSHAKE_CREDENTIALS_ACK",
                    Struct(ST_HANDSHAKE_CREDENTIALS_ACK, Login(login, password)),
                    SizeOf(ST_HANDSHAKE_CREDENTIALS_ACK), 0)
    /\ UNCHANGED << listed, longest >>

\* The welcome message is "accepted in room".
Join(to) ==
    LET layout == ST_PARTICIPANT_JOIN
        len == [message_buffer |-> 16]
    IN  /\ Post("server", to, "PARTICIPANT_JOIN", len, { "sent" })
        /\ XRMessage("PARTICIPANT_JOIN", Struct(layout, len), SizeOf(layout))
        /\ UNCHANGED << listed, longest >>

\* Mutant of NewParticipant: the constructor clears nothing.
NewParticipantUncleared == Span("garbage", 0, SizeOf(ST_PARTICIPANT_NEW))

\* ST_PARTICIPANT_NEW(): the size is 0 and the first KB of the buffer is cleared;
\* the rest holds whatever the stack held.
NewParticipant ==
    Span("garbage", 0, 8) \cup Span("descriptor_buffersize", 8, 4)
    \cup Span("garbage", 12 + KB, 19 * KB)

\* The two numbers are assigned, the descriptor is copied over what is there.
Filled(newp, n) ==
    LET numbers == Struct(ST_PARTICIPANT_NEW, [descriptor_buffer |-> 0])
    IN  Overwrite(numbers \cup Within(newp, 12, 65535), "descriptor_buffer", 12,
                  Copied(n, 20 * KB))

\* former: of the descriptors newp has held before, how long was the longest.
New(newp, n, former) ==
    /\ Post("server", "chat", "PARTICIPANT_NEW",
            [descriptor_buffer |-> n, former_descriptor |-> former], Outcomes(n, 20 * KB))
    /\ XRMessage("PARTICIPANT_NEW", Filled(newp, n), SizeOf(ST_PARTICIPANT_NEW))

\* new_paticipant_to_all: a struct of its own.
NewToAll(n) == New(NewParticipant, n, 0) /\ UNCHANGED << listed, longest >>

\* send_list_of_players: newp is filled again for each participant listed; the
\* text of the one before becomes what the next may leave behind.
ListNext(n) ==
    /\ New(listed, n, longest)
    /\ listed' = { [s EXCEPT !.what = IF @ = "descriptor_buffer" THEN "former_descriptor" ELSE @] :
                       s \in Filled(listed, n) }
    /\ longest' = Max({longest, n})

\* Another joiner is sent its list: a fresh newp.
ListBegins == /\ phase = "idle" /\ listed # NewParticipant
              /\ listed' = NewParticipant /\ longest' = 0
              /\ UNCHANGED << phase, message, length, header, payload >>

\* The text that the chat client sends as its update, and its length.
JSON == 326

\* begin_participant_update: the size is that of ST_PARTICIPANT_UPDATE, so that
\* 12 bytes behind the struct are sent with it.
UpdateAck ==
    LET layout == ST_PARTICIPANT_UPDATE_ACK
        len == [buffer |-> JSON]
    IN  /\ Post("chat", "chat", "PARTICIPANT_UPDATE_ACK", len, { "sent" })
        /\ XRMessage("PARTICIPANT_UPDATE_ACK",
                     Struct(layout, len)
                     \cup Span("garbage", SizeOf(layout), SIZEOF_PARTICIPANT_UPDATE - SizeOf(layout)),
                     SIZEOF_PARTICIPANT_UPDATE)
        /\ UNCHANGED << listed, longest >>

\* The text of a pose: 62 letters, and 14 numbers of 1 to 13.
Pose == 76 .. 244

\* ParticipantUpdateFunction: the text is the payload, without a struct.
UnityUpdateAck(n) ==
    /\ n \in Pose
    /\ Post("unity", "chat", "PARTICIPANT_UPDATE_ACK", [buffer |-> n], { "sent" })
    /\ UnityMessage("PARTICIPANT_UPDATE_ACK", Span("buffer", 0, n), n, 0)
    /\ UNCHANGED << listed, longest >>

Received == /\ phase = "sent" /\ phase' = "received"
            /\ UNCHANGED << message, length, header, payload, listed, longest >>

Again == /\ phase = "received" /\ phase' = "idle"
         /\ UNCHANGED << message, length, header, payload, listed, longest >>

-----------------------------------------------------------------------------
Init == /\ phase = "idle"
        /\ message = [head |-> "NONE", from |-> "server", to |-> "chat"]
        /\ length = << >>
        /\ header = [head |-> "NONE", buffersize |-> 0, payload_is_big_endian |-> 65535]
        /\ payload = {} /\ listed = NewParticipant /\ longest = 0

Send == \/ \E c \in Clients : Credentials(c) \/ Join(c) \/ (\E n \in Lengths : Hello(c, n))
        \/ HelloAck \/ (\E n \in Lengths : UnityHelloAck(n))
        \/ CredentialsAck \/ (\E n, m \in Lengths : UnityCredentialsAck(n, m))
        \/ UpdateAck \/ (\E n \in Lengths : UnityUpdateAck(n))
        \/ \E n \in Lengths : NewToAll(n) \/ ListNext(n)

Next == Send \/ ListBegins \/ Received \/ Again
Spec == Init /\ [][Next]_vars

-----------------------------------------------------------------------------
(* Receivers and properties.                                               *)

Heads == DOMAIN Native \cup { "NONE" }
FieldNames == UNION { { l[i].name : i \in DOMAIN l } : l \in { Native[h] : h \in DOMAIN Native } }
Names == FieldNames \cup { "garbage", "former_descriptor" }
Peers == Clients \cup { "server" }

\* The two values of payload_is_big_endian.
Flags == { 0, 65535 }

\* The values every variable may take; a frame is as large as the array or the
\* vector that holds it, whatever was copied to it.
TypeOK ==
    /\ phase \in { "idle", "sent", "received", "crashed" }
    /\ message \in [head : Heads, from : Peers, to : Peers]
    /\ DOMAIN length \subseteq Names
    /\ \A b \in DOMAIN length : length[b] \in Lengths \cup { 0, 5, 8, 16, 20, JSON }
    /\ longest \in Lengths \cup { 0 }
    /\ header.head = message.head /\ header.buffersize \in 0 .. Room
    /\ header.payload_is_big_endian \in Flags
    /\ \A s \in payload \cup listed : s.what \in Names /\ 0 <= s.first /\ s.first <= s.last
    /\ \A s \in payload : s.last < Room

\* The struct the receiver lays over the payload, and the bytes of its i-th field.
Receiver == Layout(message.to, message.head)
Field(i, n) == Within(payload, First(Receiver, i), First(Receiver, i) + n - 1)

\* A number arrives if its bytes are all of the sender's number, a text if the
\* first bytes of its buffer, as many as the sender's size says, are the text.
Arrives(i) ==
    LET f == Receiver[i]
        n == IF f.text THEN length[f.name] ELSE f.size
    IN  Field(i, n) = Span(f.name, First(Receiver, i), n)

\* The Unity client only logs the message of PARTICIPANT_JOIN.
Used == { i \in DOMAIN Receiver :
             message.to = "unity" /\ message.head = "PARTICIPANT_JOIN"
             => Receiver[i].name \in { "participant_id", "max_data_rate" } }

\* Two messages of the Unity client do not have the layout that is read from
\* them: the name in place of a configuration (HelloAckAgrees, below) and the
\* pose, which has no struct at all.
AckOfUnity  == message.from = "unity" /\ message.head = "HANDSHAKE_HELLO_ACK"
PoseOfUnity == message.from = "unity" /\ message.head = "PARTICIPANT_UPDATE_ACK"

\* A text that is not longer than its buffer.
HasRoom(i) == Receiver[i].text => length[Receiver[i].name] <= Receiver[i].size

\* Each number, and each text that fits, which a receiver uses is the one its
\* sender wrote, although senders pass the size of another struct, fill structs
\* that hold what was on the stack or the participant before, run past the end of
\* one, and have layouts of their own.
FieldsArrive ==
    phase = "received" /\ ~AckOfUnity /\ ~PoseOfUnity =>
        \A i \in Used : HasRoom(i) => Arrives(i)

\* How far text goes in a buffer, and how far its struct was cleared before: a
\* newp that is filled again keeps the tail of the longest descriptor it held.
End(i) == IF message.head = "PARTICIPANT_NEW"
          THEN Max({length["descriptor_buffer"], length["former_descriptor"]})
          ELSE length[Receiver[i].name]
Cleared(i) == IF message.head = "PARTICIPANT_NEW" THEN KB ELSE Receiver[i].size

\* In the bytes up to the end is nothing but text, and behind it is a zero.
TextEnds(i) ==
    Receiver[i].text /\ End(i) < Cleared(i) =>
        \A s \in Field(i, End(i) + 1) :
            /\ s.what \in { Receiver[i].name, "former_descriptor" }
            /\ s.last < First(Receiver, i) + End(i)

\* Readers that go to the zero byte (strcmp of the login, printing) stop inside
\* the buffer, and read on behind the text of the sender only what is left of
\* descriptors that were listed before, never a byte of the stack.
\* So it is while texts are shorter than what was cleared; a login of 1 KB or a
\* descriptor as long as that has no end.
TextsEnd == phase = "received" /\ ~AckOfUnity => \A i \in Used : TextEnds(i)

-----------------------------------------------------------------------------
(* What a comment says of a message.                                       *)

\* XRNetworkProtocol.cs describes HANDSHAKE_HELLO_ACK as 1042 bytes: what the
\* Unity client writes there is what the server reads.
HelloAckAgrees ==
    phase = "received" /\ AckOfUnity => \A i \in DOMAIN Receiver : Arrives(i)
=============================================================================
