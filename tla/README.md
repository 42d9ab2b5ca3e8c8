# XRNetwork: a verification project

XRNetwork is a lobby for extended-reality clients: a C++ service (boost::asio) that
clients join over TCP, authenticate with, and exchange poses through; a native test
client; and the C# side of a Unity client. This directory holds TLA+ models of it,
the TLC runs that check them and TLAPS proofs about them. Modules are named after the
components of `src/`; variables and operations keep the names of the code where TLA+
allows it (`participants_`, `m_id`, `max_participants_`).

    tlc -config join_and_leave.cfg MCNetworkRoom      # one run
    tlapm NetworkRoomContractProofs.tla               # one module's proofs

## 1. Inventory

### The parts of the system

| Part | Source | State | Operations |
|---|---|---|---|
| room | `room.hpp`, `participant.hpp` | `participants_` (a set ordered by `m_id`), `max_participants_` | `join`, `init_new_participant`, `leave`, `disconnect_participant`, `disconnect_all_participants`, `deliver_to_all`, `deliver_to_all_except_to_one` |
| handshake session | `handshake.hpp` | the socket, `m_id`, `m_descriptor`, `read_buffer_` | `start`, `do_start_handshake`, `do_read_handshake`, `check_handshake_hello_ack`, `check_handshake_credentials_ack` |
| room session | `session.hpp` | the same, and `deque_write_buffer_` | `do_read_byte`, `deliver_byte`, `do_write_byte`, `disconnect`, `do_close`, `set_keep_alive` |
| server | `nr_server.hpp` | the acceptor, the room | constructor, `do_accept`, `set_max_handshake_connections`, `stop` |
| lobby service | `XRNetworkLobbyService.hpp` | `io_context_`, the thread, `b_thread_running_`, the server | `start`, `stop`, `thread_function`, registered callbacks |
| console | `nr_service_console.cpp` | the command loop, `b_instantiated` | keys n, s, c, d, quit; `OnServiceStarted` |
| native client | `nr_client.cpp` | the write queue, the timer, `participant_id_` | `do_connect`, `do_read_byte`, `write_byte`, `begin_participant_update`, `close`, main |
| wire protocol | `protocol.hpp`, `XRMessage.hpp`, `nr_base.hpp` | none | packed structures, the header, what fills and reads a frame |
| chat message | `message.hpp`, `message_node.hpp` | a buffer | dead code, see 5 |
| Unity client | `unity_codes/XRNetworkParticipant.cs`, `XRAsyncTCPClient.cs`, `XRNetworkProtocol.cs` | a receive buffer, one transmit buffer, the update period | `OnReceive`, `ProcessMessage`, `AsyncSend`, `asyncReceiveCallback`, `Update` |
| Unity scene scripts, error codes | the other `unity_codes`, `error_messages.hpp` | none of the protocol | copies of poses; tables |

### How they interact

One thread calls `io_context_.run()`. The acceptor's handler makes a session and
starts it; the session reads frames in the handshake loop, then `join`s the room and
reads in the room loop; the room calls `deliver_byte` on the sessions it addresses, and
each such call *posts* a handler that starts the `async_write`. So the handlers of the
server never run concurrently, but everything that is posted runs later, behind
whatever else is ready, against the state it then finds. The console is a second
thread: it writes the capacity, walks `participants_` without a lock, and starts and
stops the service, whose `io_context_` outlives each server.

A client is a reader and a writer of the same stream of 64 KB frames. The native one
posts its own work to its `io_context`; the Unity one runs callbacks of .NET's thread
pool beside Unity's main thread. Nothing but the byte count separates frames, and
nothing but the agreement of the structures' layouts makes a payload readable.

### What is hard

- **Order.** Deliveries, read errors, write errors and aborted operations reach the
  FIFO in many orders, and three different handlers may remove the same session from
  the room (read error, write error, LEAVE_ACK).
- **Lifetime.** A session lives as long as the room, an operation or a queued
  completion holds a `shared_ptr`; the handler posted by `deliver_byte` holds a raw
  `this`.
- **Failure inside a handler.** A session may be closed in the middle of a handler that
  goes on with it, and an exception ends the only thread.
- **Two loops on one buffer.** The handshake's read loop must end exactly when the
  room's starts.
- **Two threads.** The console iterates the set while the io thread changes it.
- **Writes beside each other, from freed buffers.** A session pops its deque before the
  write has ended, so several `async_write`s may run on one socket, each of which the
  kernel may cut. The popped `shared_ptr` is a local of `do_write_byte` that the handler
  does not hold: what is not sent in the first attempt is sent from freed memory.
- **Unchecked copies.** HELLO_ACK names how much of it is to be copied
  (`handshake.hpp:57`), descriptors and the server's name are copied into buffers of a
  fixed size whatever their length (`room.hpp:82`, `:104`, `protocol.hpp:229`).
- **Start and stop.** The flag, the thread, the server and the `io_context_` are shared
  by two threads, and handlers of one server may be run by the next.
- **TCP's cuts.** The Unity client gets what a receive delivers: parts of a frame, or
  several frames.
- **Progress.** A member whose read loop has stopped would stay for ever; a `stop()` that
  waits for a thread, or a `join` for a timer that rearms, may never return.

`PROJECT.json` lists these as hazards, each at the line where it bites, with the
properties that watch it or the reason why none does yet.

### What makes each part correct

- *Room*: only logged-in sessions enter, within the capacity, once; who leaves is gone
  for good; all members know exactly each other once their mail is delivered.
- *Sessions*: one chain of reads per connection, alive as long as the session is a
  member; a broken connection is always let go.
- *Server and service*: well-behaved clients cannot stop it; dropping one client does
  not disturb the others; its flag tells the truth, `stop()` returns, and every start
  comes to wait for clients.
- *Native client*: everything queued is written, in order; updates run at one timer, under
  the right id; `close` lets the process end.
- *Wire protocol*: both ends agree on sizes and offsets, and on where a text ends.
- *Unity client*: messages are handled in order and once, and the answers of the handshake
  go out whole, however TCP cuts the stream.

## 2. Modules

| Module | What it is |
|---|---|
| `NetworkRoom` | the server from acceptor to room, one action per completion handler |
| `RoomContract` | what the room promises: `Login`, `Enter`, `TurnAway`, `Leave`, `Resize` |
| `MCNetworkRoom` | scripts of the peers for TLC |
| `SessionWrite` | one session's deque and its `async_write`s, cut by the kernel |
| `ChatClient` | the native client: its io thread, its timer and its main thread |
| `MessageStream` | what a writer promises its reader: whole messages, once, in order |
| `LobbyService` | the console's thread and the service's thread, from start to restart |
| `WireFormat` | which bytes of a frame hold what, for each message, writer and reader |
| `UnityClient` | the Unity client against a stream that TCP cuts |
| `NetworkRoomProofs` | `Spec => []TypeOK`, then the invariant of the read chains and two properties |
| `NetworkRoomContractProofs` | the refinement of `RoomContract` and what follows; the survival of the service |
| `NetworkRoomAwarenessProofs` | what the members believe of each other, and three properties |
| `SessionWriteProofs` | types, the order of a session's own bytes, the stream up to the first cut |
| `ChatClientProofs` | types, the timer, the handshake, the refinement of `MessageStream` |
| `LobbyServiceProofs` | types of the service, its flag, its set-up, its survival |
| `UnityClientProofs` | types, the order of the frames handled, the answers of the handshake |
| `WireFormatProofs` | that packed fields do not overlap, and what receivers therefore read |

`NetworkRoom` and `RoomContract` are related by a refinement, and so are `ChatClient` and
`MessageStream`. `SessionWrite` does not refine `MessageStream`: it states how long its
wire is the `Stream` of that module. It opens up what is one operation in
`NetworkRoom` (a write); `LobbyService` puts many servings one after the other, of which
`NetworkRoom` is one, and reduces a client to the handler it may leave behind.

### NetworkRoom and the code

*The io thread.* `ready` is asio's FIFO of completion handlers. Every handler is one
action; its guard is `Head(ready) = ...`, and `Return(posted)` takes the head off and
puts what the handler posted at the back. One item, `Poll`, stands for asio's task item:
when it reaches the head the thread polls the reactor. Completions, connections and
everything the peers do are noticed at a poll only, so these actions are guarded by
`Polling`; `PollEnds` sends the item to the back and may not be taken while a broken
connection is unreported.

| Actions | Code |
|---|---|
| `Connect`, `AcceptFails`, `AcceptError`, `StartThrows`, `StartHandshake` | `nr_server::do_accept`, `handshake_session::start`, `do_start_handshake` |
| `HelloAck`, `HelloAckOverreads`, `HandshakeIgnores`, `HandshakeReadError` | the handler of `do_read_handshake` |
| `JoinFull`, `JoinThrows`, `JoinAdmits` (over `CredentialsAck`) | `check_handshake_credentials_ack`, `network_room::join`, `set_keep_alive` |
| `JoinAck`, `NewAck`, `UpdateAck`, `LeaveAck`, `OtherFrame`, `RoomReadError` | the handler of `do_read_byte` and the room operation it calls |
| `JoinAckOfStranger`, `LeaveAckOfStranger` | the same where `get_participant_ptr` returns null and is dereferenced |
| `JoinAckOverruns` | `send_list_of_players` copies a descriptor of more than 20 KB to the stack and crashes |
| `Deliver`, `DeliverToDestroyed`, `WriteErrorHandler` | the handler posted by `deliver_byte`, `do_write_byte` |
| `ReadSucceeds`, `ReadFails`, `WriteSucceeds`, `WriteFails`, `FreedWriteFails`, `PollEnds`, `PeerCloses` | boost::asio and the peers (external) |
| `SetMaxParticipants`, `DisconnectAll`, `DisconnectNext`, `DisconnectTorn` | the console's commands |

*Sessions.* `sock`, `m_id`, `m_descriptor` are the members; `reads[s]` is the set of
loops with an `async_read` outstanding, `writes[s]` the number of `async_write`s.
A session object lives while `Alive(s)`; the model has no variable for it because the
shared pointers are exactly the membership, the operations and the queued completions.

*Details that matter.* `async_read` tries to read at once when it is started, and then
its handler is queued ahead of what the caller posts afterwards (`EarlyRead`). Closing a
socket aborts its operations: their handlers are queued immediately or, for a composed
operation with a step of its own in the queue, at a later poll; both orders are
explored (`Close`, `n`). A successful write finds the deque empty and does nothing, so
it is completed at the end of a poll and not queued, except for a peer that reads slowly
(`SlowPeers`). A write to such a peer may wait, and then goes on from a buffer that is
freed: what the peer learns from it may be `"garbled"`, and the write may fail
(`FreedWriteFails`), which throws the session out of the room.

*Undefined behaviour* is a choice over its outcomes: a delivery to a destroyed session
may go unnoticed, throw `bad_weak_ptr` (the thread ends) or crash (`DeliverToDestroyed`);
a walk over a set that changed may go on, stop short or crash (`DisconnectTorn`). The
configuration of a HELLO_ACK is appended to `m_descriptor`, and as many bytes as the frame
names: a second one, or one whose size reaches beyond its frame
(`HANDSHAKE_HELLO_ACK_OVERSIZED`, which the Unity client's layout makes of a name), gives
the session an `"overlong"` descriptor, ends the thread (`bad_alloc`) or crashes. An
overlong descriptor is copied into 20 KB of stack when others are told of it: the process
goes on or crashes.

*Abstractions.* A message is its head, the participant it names and the descriptor it
carries. The random 64-bit id drawn in `join` is the number of the session: fresh and
not 0 (a collision of two ids is out of the model). A frame is read whole: the code
reads fixed-size blocks and a partial block only delays the completion. `told`,
`loggedIn` and `announced` are history: what the writes of a session have told its peer,
who sent the right login, whose JOIN_ACK was handled. A frame PARTICIPANT_JOIN_ACK is
only sent by a peer that was handed PARTICIPANT_JOIN and names the id it was given there;
no client of the repository sends one, so nothing in it says what else it could name.

### SessionWrite and the code

`DeliverByte` is the call of `deliver_byte` by the room, `Delivered` the handler it posts
(`PushAndWrite`, `DoWriteByte`), `WriteHandler` and `WriteErrorHandler` the handler of
`do_write_byte`. The deque is popped when the write starts and not when it has ended, so
the branch of `PushAndWrite` that leaves a message to a write in progress is never taken
and the next delivery starts a write beside it. An `async_write` is composed of attempts
(`AsyncWriteSome`): asio tries at once if no other write waits for the socket and the last
attempt was not cut short, else the operation joins the reactor's queue, which performs
one operation per event (`Writable`); `WriteOn` is the handler between two attempts. A
message has `Parts` pieces; the kernel takes any number of them that fits its buffer
(`Window`).

The buffer is alive during the call of `do_write_byte` only, so only an attempt made in
that call sends the message (`alive`); a later one sends what the memory then holds, or
fails because it is not mapped. The model does not guess those bytes: `wire` is a sequence
of places `<<message, piece>>`, `own[m]` is how many pieces of m were sent from its own
buffer, and nothing is claimed of the content of the other places.

### ChatClient and the code

`ready` is the FIFO of the one thread in `run()`. Each branch of the read handler is an
action (`Hello`, `Credentials`, `Join`, `Printed`), and so are the handlers of connect,
write, close and the timer. `expires_after` cancels the wait in progress, whose handler
is then queued with an error (`BeginUpdate`, `TickAborted`). The main thread ends its
input (`InputEnds`), posts the close and joins (`Joins`); `RunReturns` when nothing is
queued or outstanding. The server either sends in the order of `handshake.hpp` (`orderly`)
or anything. `outbox` (what was handed to `write_byte`) and `wire` are history.

### LobbyService and the code

Steps of the main thread are the keys n, s, c and quit and, inside `stop()`, what happens
between two points at which the service thread may act: `StopServer`, `StopIo`, `Join`.
Steps of the service thread are those of `thread_function`: the server is made
(`MakeServer`, or `PortTaken`), the flag raised (`RaiseFlag`), the callbacks run
(`Announce`), the settings applied (`Configure`), then `run()` takes handlers. A client may close in the handshake or as a member. Servers are
numbered by the start that made them, and handlers and sessions carry the number: one that
runs under another server uses freed memory (`UseAfterFree`, a choice of going on or
crashing; the latch of an old server may also hang). A joinable `std::thread` that is
destroyed is `process = "terminated"`. A `patient` user types a key when the service has
come to rest, and meets no exception; any other types whenever the main thread reads.

### WireFormat and the code

A layout is a list of fields with their sizes, from `protocol.hpp` and, where it differs,
`XRNetworkProtocol.cs`. A frame is a set of spans: which bytes hold which number, which
text, which garbage; a byte in no span is zero. An action fills one message as its sender
does, with the size of the structure the sender names (which is not always the one it
filled) and with what a reused or partly cleared structure still holds, and the receiver
lays its own structure over the bytes. The native senders check no length: a text that is
longer than its buffer, the last of its struct on the stack, fills the buffer and what is
behind it, and the sender goes on or crashes (`Outcomes`; a crash is the end). The Unity
client's `Array.Copy` throws beyond 1024 bytes, and lets exactly 1024 through. `listed` is
the `newp` of `send_list_of_players`, which is filled for each participant in turn and
keeps what longer descriptors left, up to `longest`.

Every message that has a payload is there from each of its senders to each of its readers.
The pose of the Unity client (`UnityUpdateAck`) is a text without a struct, which the server relays
and the chat client reads as one. The Unity client's answer to HELLO, where the runtime does
not throw, is followed by what lies behind the array of 1042 bytes.

### UnityClient and the code

A frame is four cells, so that a cut may fall before the header is complete, within the
payload, or within the zeros behind it. `Completes` is a receive of up to a frame;
`Accumulate` and the `OnReceive...` actions are the branches of `asyncReceiveCallback` and
`OnReceive`: too short for a header (an exception, after which nothing is received any
more), incomplete, a message, bytes that are no header. Bytes from the middle of a payload
are read as a header with any outcome but a known message that fits. `AsyncSend` refills
the one transmit buffer and begins a send of it; `KernelTakes` sends what the buffer holds
*now*. A piece of a frame, or what a cut leaves of its end, may be shorter than the 8 bytes
of a header (`MaybeShort`). The answer to HELLO is an array of 1042 bytes that is marshalled
into one of 65528: the runtime reads on behind it (`OnReceiveMessage`) or throws, which ends
receiving (`OnReceiveRefuses`). The server's next frame (`ServerSends`) comes after the
answer it waits for, if it comes: nothing obliges the server, which copies the client's
HELLO_ACK by a size made of letters, to survive it. Where the sources hold an unresolved merge conflict, the side that
`XRNetworkParticipant.cs` is written for is modelled.

## 3. Properties and runs

| Property | What it says |
|---|---|
| **NetworkRoom** | |
| `OneReadLoop` | never two reads of one session outstanding or reported |
| `MembersAreRead` | every member has a room read outstanding or reported |
| `AdmittedOnlyWithLogin` | members sent the right login, although `join` is called after a wrong one |
| `FarewellsAreFinal` | a PARTICIPANT_LEAVE on its way names nobody who is in the room |
| `NoGhosts` | a member that reads in time, with nothing on its way to it, believes in nobody who has left |
| `MutualAwareness` | announced members that read in time know the others by the descriptor of their JOIN_ACK |
| `ServiceStaysUp` | if all clients keep to the protocol of `protocol.hpp` and stay, nobody is dropped and the room has a place for everyone, nothing ends the thread or crashes the process |
| `KeepsContract` | the server implements `RoomContract` |
| `BrokenAreReleased` (liveness) | a broken or closed connection is let go |
| `GhostsVanish` (liveness) | who believes in somebody that left, broke off or was thrown out is told in the end |
| **SessionWrite** | |
| `OwnBytesInOrder` | however writes are cut and mixed, the bytes that are of a message come in the order of `deliver_byte`, each once |
| `StreamUntilCut` | up to the first message that the kernel does not take whole at once, the wire is the stream of `MessageStream` |
| `WritesEnd` (liveness) | no delivery stays in the deque or the reactor, while the connection holds and the peer reads: its write ends or fails |
| **ChatClient** | |
| `WritesTheStream` | the client implements `MessageStream`, whatever is cut, fails or is closed |
| `AllWritten` (liveness) | what is handed to `write_byte` is written while the connection works |
| `AnswersInTurn`, `UpdatesNameParticipant` | with an orderly server: the answers as its handshake expects them, the updates after them and under the id of PARTICIPANT_JOIN |
| `OneTimer` | the updates do not multiply, however often PARTICIPANT_JOIN comes and whatever ticks are queued then |
| `UpdatesGoOn` | nothing breaks the chain of updates, no error and no close |
| `Quits` (liveness) | at the end of its input the client ends, unless its updates have begun |
| **LobbyService** | |
| `FlagTellsTruth` | whoever finds `b_thread_running_` up may use the server |
| `SetUpByRestart` | the callback that is registered after `start()` has run at the latest in the second serving |
| `ProcessSurvives` | for a patient user without clients, no sequence of keys ends the process |
| `StopCompletes` (liveness) | the first `stop()` returns, whoever is connected and whatever is queued |
| `StartServes` (liveness) | what a patient user starts comes to wait for clients, unless memory of the server before was used |
| **WireFormat** | |
| `FieldsArrive` | each number a receiver uses, and each text that fits its buffer, is the one that was written, except in the two messages of the Unity client that have no layout in common with their reader |
| `TextsEnd` | who reads a text up to a zero byte gets the sender's text, and of a reused `newp` at most the rest of descriptors listed before, never the stack, while texts are shorter than what was cleared |
| **UnityClient** | |
| `HandledInOrder` | however frames are cut and run together, none is handled twice or out of order |
| `HandshakeUntorn` | the one transmit buffer is never refilled under an answer of the handshake |
| `HandshakeProceeds` (liveness) | with whole frames each request of the handshake is answered to the last byte and updates begin after it, unless the server closes or the runtime refuses the answer to HELLO |
| `EndsAtClose` (liveness) | with whole frames receiving ends when the server closes |

Each module also has its type invariant, `TypeOK`.

| Run | Module | Scenario |
|---|---|---|
| `join_and_leave` | `MCNetworkRoom` | one client sends any two frames, another logs in rightly or wrongly, introduces itself and leaves; both may vanish |
| `full_room` | `MCNetworkRoom` | three clients, one or two places; the third logs in rightly or wrongly, the first may vanish |
| `console` | `MCNetworkRoom` | everybody is disconnected by the console at any moment while one client introduces itself to another and may vanish; fair |
| `orderly` | `MCNetworkRoom` | the whole protocol by two clients that stay, one slow to read, whose writes may be garbled or fail; accepting may fail; fair |
| `session_writes` | `SessionWrite` | three messages, taken whole or cut anywhere and then sent from freed memory, with or without an error or a disconnect; fair |
| `chat_session` | `ChatClient` | a server in order, or any three frames; two updates; the connection may fail; fair |
| `service_life` | `LobbyService` | a patient user's six keys, or four keys at any moment, with two clients; for the hasty user also a port that may be taken and handlers that may throw; fair |
| `layouts` | `WireFormat` | every message with texts at the boundaries of the buffers, in any sequence |
| `unity_receive` | `UnityClient` | five frames of the server, cut anywhere or whole, two updates; fair |

`PROJECT.json` lists the properties of each run, and for each property a mutant: an
operation changed as a plausible slip would (a departure nobody is told of, a loop that is
not continued, a timer of its own for every call, a flag raised too early, ...) under which
TLC finds the property violated. The mutated operators stand before the operator they
change.

`NoGhosts`, `MutualAwareness` and `FarewellsAreFinal` speak of what is in the room and
in the queue and hold also in states where the service has ended; `BrokenAreReleased`
and `GhostsVanish` promise nothing once it has, since no handler runs any more. What a slow
peer believes is claimed by none of them, as what it was sent may be garbled; what the
others believe about a slow peer is.

`ServiceStaysUp` is about clients that answer HELLO at most once and in the layout of
`protocol.hpp`, as the native client does. The Unity client does not: its answer is the
oversized one of `HelloAckOverreads`, by which the service may end or crash
(`HelloAckAgrees`, below, is the cause).

Some properties are about one of two environments that `Init` chooses between, in a
variable that no step changes: `whole`, `orderly`, `patient`. The other environment is in
the same run for the properties that hold in both.

### Where the code departs from what it says

These runs check one statement each and TLC finds it violated:

- `drop_wrong_login` (`DropIsClean`): after a wrong login the session is disconnected
  and the handler goes on: it starts the room's read and calls `join`, where
  `set_keep_alive` throws on the closed socket. The exception leaves `run()` and the
  service thread ends. `participant.hpp` calls the operation a clean drop. (With a full
  room the same statement fails differently: the session is disconnected and then posted
  PARTICIPANT_JOIN; the aborted read is its last holder and runs first, so the delivery
  runs on a destroyed object.)
- `restart_with_client` (`RestartIsClean`): a handler that `stop()` left in `io_context_`
  runs after the next start, with the server and the room that start destroyed. The help
  of the console says that key n starts the service.
- `hello_ack_layout` (`HelloAckAgrees`): the Unity client describes and writes HELLO_ACK
  as 1042 bytes with a 2 byte size, the server reads a 4 byte size; the first two letters
  of the name become its upper half, more than a gigabyte, and the server copies as many
  bytes out of a frame of 64 KB.

Seen while modelling, each decided by a single place in the code and not by an
interleaving, so without a run of its own:

- HELLO carries the id "asigned by the server" (`protocol.hpp:214`) before `join` has
  drawn it: it is 0 (`handshake.hpp:42`).
- `room.hpp:415` says newcomers are updated with the others when they join; the call is
  commented out, and the list goes out only on the client's own PARTICIPANT_JOIN_ACK,
  which the native client never sends.
- Key n a second time before the flag is up, or after the thread has ended by itself,
  assigns over a joinable `std::thread`: `std::terminate` (`XRNetworkLobbyService.hpp:89`);
  key s before the flag is up is lost (`:102`). Both are in `LobbyService`, and the reason
  for `patient` in `ProcessSurvives`.
- The help lists key c; the switch of `nr_service_console.cpp` has no case for it, and
  `OnServiceStarted` registers its callbacks with the first server only.
- Every frame of the server says big endian, on any host (`XRMessage.hpp:37`).
- A frame that reaches the Unity client in two receives leaves its zeros in the buffer,
  whose header is then 0 for ever (`XRNetworkParticipant.cs:306`); this is why
  `HandshakeProceeds` is about whole frames.
- One update per second becomes a period of 1 ms (`XRNetworkParticipant.cs:262`, `Period`).
- A write of a session that the kernel cuts, or that waits, goes on from freed memory and
  beside the next one (`session.hpp:226`): a reader that counts bytes is out of step from
  then on. This is why `StreamUntilCut` ends there; the native client, which keeps its
  front until the write ends, needs no such condition.
- The pose of the Unity client is the payload itself (`XRNetworkParticipant.cs:81`), which
  `nr_client.cpp:241` reads as ST_PARTICIPANT_UPDATE_ACK: its first letters are taken for an
  id, a time and a size. It is the reason for `PoseOfUnity` in `FieldsArrive`.
- A login of exactly 1024 bytes leaves no zero byte for the `strcmp` of the server.

### Bounds

`MaxSessions` (2 or 3), the length of the scripts (1 to 5 frames), `MaxSweeps` (0 or 1)
and the two capacities are the only bounds: everything else in the model is finite once
these are. Two clients suffice for every interaction between a session and another;
three, for two places, are needed for one that is turned away while two members exist,
for introductions that are relayed to more than one member, and for a place that becomes
free. Longer scripts add repetitions of the same handlers, whose effect depends on the
membership and not on how often they ran. One sweep suffices because a sweep is over
before the next begins (`DisconnectAll` requires it, as the console is one thread).

`SessionWrite`: three messages let a write be queued behind one that is cut and one that
waits; three pieces have a first, a middle and a last.
`ChatClient`: three arbitrary frames hold PARTICIPANT_JOIN twice and something between;
two updates let a tick be queued while one is armed. `LobbyService`: four keys of a hasty
user reach start, stop, start, stop in every interleaving with the thread, six of a
patient one three servings; two clients differ in how far they came. `WireFormat` tries
texts of 0, 5, 20, 100, 1023, 1024, 1025, 20480 and 20481 bytes: the sizes in the code and
of its buffers, one below and one above, and the length of a pose. `UnityClient`: two frames behind the handshake let a receive find one whole
frame and the part of another, and two updates overlap.

Deadlock is not checked: clients send finitely many frames, need not close, and the
service, or a sender in `WireFormat`, may have ended; waiting is then what the code does.

### Fairness

`FairSpec` adds to `Spec`:

- weak fairness of `IoThread`: `run()` takes the next ready handler as long as there is
  one. While the service runs, a handler at the head stays at the head, so weak fairness
  is what the code gives;
- strong fairness of `ReadFails(s)` and `WriteFails(s)`: these are enabled only at polls,
  again and again, and the reactor reports a failed descriptor at one of them;
- weak fairness of `DisconnectNext(s)`: the console's `for_each` proceeds.

Nobody is obliged to connect, send, read, close or type a command.

In the other modules, likewise, weak fairness of what a thread does next and of what the
kernel, the reactor and the timer report: `IoThread` and `Writable` of `SessionWrite`, and
`PeerReads`, since a peer that never reads makes no promise about writes possible;
`IoThread`, the timer, `Joins` and the completions of `ChatClient`, not the server's frames
nor the end of the input; `MainThread` (inside a call of `stop()`, not the keys) and
`ServiceThread` of `LobbyService`; the network and the pool's callbacks in `UnityClient`,
not the server's next frame.

## 4. Proofs

The constants are arbitrary: any number of sessions, any scripts of the peers
(`PeersAssumption`) and any non-empty set of capacities (`CapacityAssumption`); any
number of messages, of pieces and of what the kernel takes (`WriteAssumption`,
`ChatAssumption`); any numbers of keys and any finite set of clients
(`ServiceAssumption`), with a port that may be taken and handlers that may throw; any
number of frames, updates and pieces (`UnityAssumption`); texts of any length, whether
or not they fit the buffers they are copied to, and a host of either byte order
(`WireAssumption`). TLC evaluates these assumptions in every run of the module.

| Module of the model | Theorem | Statement |
|---|---|---|
| `NetworkRoom` | `TypeCorrect` | `Spec => []TypeOK` |
| | `OneReadLoopHolds` | `Spec => []OneReadLoop` |
| | `MembersAreReadHolds` | `Spec => []MembersAreRead` |
| | `ContractKept` | `Spec => KeepsContract`, the refinement of `RoomContract` |
| | `AdmittedOnlyWithLoginHolds` | `Spec => []AdmittedOnlyWithLogin` |
| | `FarewellsAreFinalHolds` | `Spec => []FarewellsAreFinal` |
| | `NoGhostsHolds` | `Spec => []NoGhosts` |
| | `MutualAwarenessHolds` | `Spec => []MutualAwareness` |
| | `ServiceStaysUpHolds` | `Spec => []ServiceStaysUp` |
| `SessionWrite` | `TypeCorrect` | `Spec => []TypeOK` |
| | `OwnBytesInOrderHolds` | `Spec => []OwnBytesInOrder` |
| | `StreamUntilCutHolds` | `Spec => []StreamUntilCut` |
| `ChatClient` | `TypeCorrect` | `Spec => []TypeOK` |
| | `OneTimerHolds` | `Spec => []OneTimer` |
| | `UpdatesGoOnHolds` | `Spec => UpdatesGoOn`, about steps |
| | `AnswersInTurnHolds` | `Spec => []AnswersInTurn` |
| | `UpdatesNameParticipantHolds` | `Spec => []UpdatesNameParticipant` |
| | `WritesTheStreamHolds` | `Spec => WritesTheStream`, the refinement of `MessageStream` |
| `LobbyService` | `ServiceTypeCorrect` | `Spec => []TypeOK` |
| | `FlagTellsTruthHolds` | `Spec => []FlagTellsTruth` |
| | `SetUpByRestartHolds` | `Spec => []SetUpByRestart` |
| | `ProcessSurvivesHolds` | `Spec => []ProcessSurvives` |
| `UnityClient` | `TypeCorrect` | `Spec => []TypeOK` |
| | `HandledInOrderHolds` | `Spec => []HandledInOrder` |
| | `HandshakeUntornHolds` | `Spec => []HandshakeUntorn` |
| `WireFormat` | `WireTypeCorrect` | `Spec => []TypeOK` |
| | `FieldsArriveHolds` | `Spec => []FieldsArrive` |
| | `TextsEndHolds` | `Spec => []TextsEnd` |

TLC agreed with every inductive invariant below on the constants of a run before it was
proved.

*Types.* `NetworkRoomProofs` first types the helpers (`DeliverToAll`, `Introductions`,
`StartRead`, `Close`...) and then has one step per action. That `SetToSeq` lists a finite
set rests on `FS_CardinalityType`; that sets of sessions are finite on
`BoundsAssumption`.

*The read chain.* `OneReadLoop` is not inductive: it does not say that the accept handler
is the chain's first link, nor that nothing of the handshake remains once the id is
drawn. `ReadChains` says for each session that (1) at most one handler in the queue
carries its chain, and none while a read is outstanding (`OneCarrier`); (2) before the
connection there is no chain (`NoneYet`); (3) its id is 0 or its own, and once drawn the
chain is in the room's loop (`JoinedOnce`); (4) a member has its id and a room read
(`MemberRead`). Every step does one of four things to the chains, and there is a lemma
for each: none (`QuietStep`), the last link (`LastStep`), the next link (`NextStep`), or
the report of an outstanding read (`ReportChain`); each action is then shown to be one
of these.

*The contract.* `room`, `known` and `capacity` are variables of the model and `left` is
whoever has an id and is not in the room. From `ReadChains` the credentials handler
finds `m_id = 0` and a session outside the room, so `JoinAdmits` is an `Enter` and
`JoinThrows` a `TurnAway`; since members have their own id, a departure removes exactly
its session, so it is a `Leave` or a stutter, whichever of the three handlers causes it.
`AdmittedOnlyWithLogin` then follows from the contract's steps alone.

*What members believe.* `NoGhosts` speaks of members with nothing on their way and is
preserved by no step that delivers. `Awareness` says it of the queue: t *will believe* a
value of V about s if the last delivery to t about s says so, or none is on its way that
says otherwise and t believes it now (`Believes`, over `EndsIn` and `Never`). A farewell is
on its way only for who has an id and is not in the room (`FarewellOK`); who was announced
has joined (`AnnouncedOK`); who has not joined is told of nobody (`NewcomerOK`); a member
will know that who is not in the room is not (`GhostOK`), and the descriptor of another
announced member (`AwareOK`). Every step runs the head of the queue, posts behind it, or
both: the lemmas about `EndsIn` say what each does to what will be believed, and a step
that posts to t about s posts, as its last word, what has just become true. Slow peers are left out of `GhostOK` and `AwareOK` as
believers, since what they learn may be garbled, and not as those who leave: a write that
fails removes one like any other.

*The service stays up.* `ServiceStaysUp` has a premise, `Orderliness`, on the constants: every
script keeps to the protocol (`KeepsToProtocol`), nobody may vanish, the console sends
no sweep, every capacity has room for all, and a client whose writes may wait names itself
in no frame, since a write that fails on freed memory may have thrown it out before. Each part is needed: without any one of them TLC reaches the end of the
service. `Peaceful` is what holds then. In the queue there is no
failed write but those of slow peers, no delivery to a session that nothing holds, and no frame that its
client may not send at this point (`Unsound`): what the session has been through, whether
it drew its id and whether it left, follows from the frames its script had offered before
(`Progress`), so a second login, an introduction after a farewell or a LEAVE_ACK of a
stranger cannot be in the queue. A connected session is open and held by its read chain
(`Served`, from `ReadChains`), so deliveries to it find it alive; and the sweep and a full
room do not occur (`Unhindered`). Every handler that may end the service is then one of
those excluded, and each of the others keeps the queue free of them.

*One session's writes.* Both properties need to know who may begin next. `Order` says that
the deque is empty between handlers, as the write pops what was pushed; that a write that
waits has a larger number than every one that has begun (`Waits`); and that those that
wait stand in order, the reactor's operations before the posted deliveries. Pieces are sent
from a living buffer only by the step that begins their message, so they follow all that
were (`OwnBytesInOrder`). For the stream, `Tight` says that if the first k messages were
sent whole at once and no other has begun, nothing else is on the wire: the one that
begins next is then k + 1, and its pieces stand in their place.

*The native client.* Four invariants, each resting on those before. `Control`: handlers
that the client never has two of, and the chains of connect, read, write and tick that they
form. `Counting`: each update stems from a tick and each answer from a frame, so there is
room for the message each handler hands over; `TypeOK` is not inductive without it.
`Stage`, for an orderly server: how many frames were handled fixes what was answered, and
before the third no timer is armed. `Stream`: f messages are written and popped, the deque
holds the next ones in order, exactly the rest is posted, and the wire ends within the
front of the deque (`Flow`); every step then keeps f, or pops and adds 1. The refinement
reads `Flow` off: what the kernel takes continues the stream of the messages handed over.

*The service.* Neither `FlagTellsTruth` nor `SetUpByRestart` is inductive. `ServiceInv` adds to them
that a thread beyond the constructor of `nr_server` has a server (`ThreadHasServer`), so the
flag and `stop()` never meet a null pointer; and that with neither a slot nor the set-up
done at most one start was made, whose key is still being handled (`FirstStartOnly`). The
second start's announcement therefore finds a slot. The steps that touch none of what
the two threads share are dealt with at once (`HandlersLeaveAlone`); each of the others
has its own.

*The process survives.* `ProcessSurvives` fails to be inductive because it does not say
where the two threads are nor what `stop()` leaves behind. While the user is patient and
nobody is connected, the main thread is at a point that fits the thread's (`Phases`: it
stops only a thread that runs), and the queue holds the latch of the server that serves,
run before that server is stopped, or the aborted accept, which refers to no server
(`CleanQueue`). So no handler is run by a later server and no joinable thread is assigned.

*The Unity client.* `HandledInOrder`: `Receiving` says that what is accumulated in the three
buffers, in this order, is the last cells that were received (`Window`), and that the first
cell of every frame that was handled lies before them (`Behind`). A frame is handled when
what is accumulated starts with its first cell, hence after those handled before; it was
sent, as the cell was. `HandshakeUntorn`: until both answers are out (`Answering`), the
transmit buffer holds the one in progress and no other send is; the first answer follows
the first frame, the second a frame that the server sends when the first answer is whole
(`ServerWaits`), and updates the frame it sends when both are (`JoinWasSent`). That no frame
is handled twice, `Order`, is needed here: it keeps HELLO from being answered again.

*The bytes of a message.* `First`, the offset of a field, is a recursive function; that it
exists is shown for layouts of up to seven fields, as many as the longest has, by giving
its table (`OffsetsOf`, `FirstFacts`), since an induction over all lengths is beyond the
prover. Hence fields do not overlap (`Packed`), and a receiver that has a field where
the sender has it reads what the sender wrote there, whatever bytes follow the struct
(`StructReads`). The invariant, `WireInv`, says that what is to be read is right from the moment it
is sent (`Delivered`), and that the struct of `send_list_of_players` holds nothing behind
its end (`Kept`). Each sender is shown to send such a message. Four need an argument
of their own: the login, cut at the size of another struct, loses only bytes of the empty
certificate (`CredentialsAckKeeps`); the update is followed by bytes of no field
(`UpdateAckKeeps`); the Unity client uses the two fields of PARTICIPANT_JOIN that lie
before its layout departs from the server's (`JoinKeeps`); and what a reused PARTICIPANT_NEW
still holds lies behind the new descriptor (`RestFacts`), at its end only if the struct is
not fresh or the descriptor is not shorter than what is cleared (`NewKeeps`). What `newp` keeps
in the part that was cleared are former descriptors, none beyond the longest (`Past`), so a
text that is shorter than that part ends within it. A text longer than its buffer leaves in
the struct as many bytes as fit (`CopiedFacts`), and the other fields untouched.

*Model-checked only.* All liveness, which is beyond the prover: it has no rule for fairness
with `ENABLED`. Every safety property of a passing run is a theorem. No module uses a
recursive operator.

## 5. Not modelled, and why

- *Dead code*: `message.hpp` and `message_node.hpp` (every use is commented out), the
  `swap_*` functions of `nr_base.hpp`, the constructor of `XRMessage` from a vector of
  bytes, the flag that key b sets and the count that key l prints.
- *Written, never read*: `rx_queue`, the broadcast and deaf flags, buffer sizes.
- *Read at the next start only*: port, protocol and name of the service.
- *Data*: collisions of random ids, allocation failure, the text of a pose and its JSON.
- *The Unity client's connecting and disconnecting*, and Unity's scene scripts: the first
  has no step the server could tell apart, the second no protocol state.
- *What freed memory holds*: the model says which bytes are the message's and claims
  nothing of the others.
- *The id that a PARTICIPANT_JOIN_ACK names*: no client of the repository sends that frame;
  the model's peers name themselves.
- *Error tables* and logging.

## 6. Plan

1. Composition: `ChatClient` and `UnityClient` as peers of `NetworkRoom` in place of the
   scripts, with frames as the unit.
2. The composition of the refinements: a session of `NetworkRoom` that writes as
   `MessageStream` promises.
