# A verified model of the event-driven TCP chatroom

TLA+ modules, model-checking runs and proofs about the chatroom in `src/`: a
server and a client of a C++17 program that multiplexes its sockets and the
terminal with epoll, one thread each, non-blocking sockets everywhere.

Contents: [inventory](#inventory) · [plan](#plan) · [modules](#modules) ·
[correspondence with the code](#correspondence-with-the-code) · [runs](#runs) ·
[bounds](#bounds-and-why-they-are-enough) · [fairness](#fairness) ·
[what the code does differently from its documents](#findings) · [proofs](#proofs) ·
[not modelled](#what-is-not-modelled)

## Inventory

| component | source | state it keeps | operations |
|---|---|---|---|
| server event loop | `src/src/server/server.cpp` | `server->connections`, `server_closing`, the batch of events being handled | accept, handshake, flush, read and parse, terminal input, `/quit`, cleanup |
| client event loop | `src/src/client/client.cpp` | one `Connection`, `client_quitting` | connect check, hello, flush, read and parse, terminal input, `/quit`, cleanup |
| connection buffers | `src/src/connection/connection.cpp`, `.hpp` | per connection: descriptor, state, `in_buffer`, `out_buffer`, `bytes_written`, name | flush what the socket takes, read all there is, close and delete |
| frame protocol | `src/src/network/protocol.cpp`, `.hpp` | none of its own | queue a frame, parse a frame, length limit |
| epoll wrapper | `src/src/network/epoll.cpp` | interest set per descriptor (in the kernel) | register, modify, remove |
| poll() backend | `src/src/network/epoll.cpp:26-149`, other systems than Linux | table of registrations, in order | the same calls on top of `poll()` |
| connection lookup | `get_connection_of` in `server.cpp` | `cached_connection`, a pointer kept across calls | find the connection of a descriptor |
| formatting | `src/src/frontend/formatPrint.cpp` | none | `[name] line` on the terminal and in a BROADCAST |
| start-up | `src/src/main.cpp`, `server_init`, `client_init`, `server_create_listening_socket` | none | prompts, listening socket |
| logger | `src/src/log/` | level per tag | output |

How they interact. A remote program and the server exchange frames over TCP:
CLIENT_HELLO, answered by SERVER_HELLO, then CHAT frames up and BROADCAST
frames down, CLOSE_CON from whoever leaves. The server turns every CHAT into a
BROADCAST to all other active clients, and announces arrivals, departures and
the closing of the room in the same way. Handlers only *queue* output and ask
epoll for EPOLLOUT; a later event flushes it. Everything the handlers know
about the world is the batch of events the last `epoll_wait` returned; they
find a connection by descriptor number (`get_connection_of`).

What is hard here.

* **Stale events.** A batch is handled over time. A handler may delete the
  connection another event of the batch is about, and a descriptor number may
  be given to a new client in the same batch. The lookup keeps a pointer, which
  may dangle or point to another client's `Connection` when it is used again.
* **Two pieces of state that must agree.** `out_buffer` and the interest in
  EPOLLOUT are changed in five places, by separate calls.
* **Partial reads and writes, slow readers.** A frame may be half sent when the
  next is queued, and one member may stop reading altogether.
* **Order.** Broadcasts and the handshake of a newcomer share one buffer; lines
  of one client come in pieces, with other frames or the end of the stream.
* **Bytes.** Reads and writes end anywhere, also inside a header, and a foreign
  program may announce any length.
* **Two programs.** Both can stop reading, both can leave at any moment, and what
  one has sent may be cut off by a reset when the other closes.
* **Departures.** CLOSE_CON, a half-close, a reset, a protocol error: each takes
  another path, and a handler that returns `false` ends the server.
* **Closing.** `/quit` stops all input but must get everything that is queued
  out first, also to clients that are just being greeted.
* **Limits.** 64 KiB are tested on the line, on the frame received, and on the
  formatted broadcast, which is longer than both. Descriptors may run out.

What makes each component correct.

* *Server as a room*: all members hear one conversation in one order (`ImplementsRoom`,
  `OneConversation`, `ChatOrder`), a newcomer is greeted first (`HelloFirst`).
* *Event loop*: no stale event (`FreshEvents`), hang-ups noticed
  (`HangupsNoticed`), slow members do not stop the others (`OutputDrains`).
* *Buffers and epoll*: interest follows output (`WriteInterest`).
* *Protocol*: no over-long frame is sent (`StreamIsLegal`); bytes of a stream are
  cut into the same frames however they arrive (`ImplementsFrameQueue`,
  `NoFrameWaits`), and an over-long frame, nothing else, is refused
  (`RefusesExactlyTooLong`).
* *Closing*: what was queued is delivered (`OrderlyClose`), and the program ends
  (`ClosingEnds`).
* *Client*: it greets first (`HelloBeforeChat`), shows what it reads
  (`ShowsWhatItReads`), sends what was typed once and in order
  (`NothingLostOrRepeated`), and ends on `/quit` and when its server is gone
  (`QuitEnds`, `EndIsNoticed`).
* *Both programs*: every screen shows the same conversation (`SameConversation`),
  neither finds fault with the other (`NoMisunderstanding`), and closing the room
  ends them all (`RoomCloses`).
* *Lookup and registrations*: always the connection that holds the descriptor
  (`LookupFindsOwner`); the live ones, and no others, are watched, for what they need
  (`RegistrationsMatch`).

## Plan

Done, in this order: `Protocol` → `Sockets` → `Server` → `ServerProperties` →
`Room`, `ServerRoom` → `MCServer` with its runs → `ServerProofs`,
`ServerStreamProofs` → `Client`, `ClientProperties` → `Chatroom` → `Backend` →
`FrameQueue`, `Framing` → `FramingProofs` → `Selection`, `SelectionProofs` →
`ServerRoomProofs` → `BackendProofs` → `ClientProofs` → `ChatroomProofs`.

Every safety property of the passing runs is proved. Left: the read-ahead of `std::cin`
with piped input, the dialogue at the start, and a composition of `Framing` with
`Chatroom`: that bytes and whole frames are two views of one stream is proved for
`Framing` alone.

## Modules

| module | what it is |
|---|---|
| `Protocol` | frames, their lengths and what they say; the 64 KiB limit; formatting |
| `Selection` | the elements of a sequence that lie in a set, in order; what frames say |
| `Sockets` | external: TCP connections, bounded socket buffers, remote programs that send any frames, half-close, reset, read or stop reading |
| `Server` | the server: state, one action per path of a handler, `Spec` and `FairSpec` |
| `ServerProperties` | its invariants, liveness properties, and claims of the documents it does not keep |
| `Room` | abstract specification: a room with guests, no sockets or buffers |
| `ServerRoom` | the refinement mapping from `Server` to `Room` |
| `Backend` | the server over either event library, with the registrations and the cached lookup |
| `Client` | the client program on the other end of a connection of `Sockets`, and an arbitrary server |
| `ClientProperties` | its invariants and liveness properties |
| `Chatroom` | the server and one real client per connection; properties of both together |
| `Framing` | bytes of frames over one direction of a connection: queue, flush, read, parse |
| `FrameQueue` | abstract specification: a queue of whole messages |
| `MCServer`, `MCBackend`, `MCClient`, `MCChatroom`, `MCFraming` | instances for TLC, one `<module>_<run>.cfg` per run |
| `ServerProofs` | lemmas on the operators; type correctness; proofs about events, descriptors and the batch, and about output and EPOLLOUT |
| `ServerStreamProofs` | proofs about the length of what is sent, and that the hello comes first |
| `SelectionProofs` | lemmas on selection from sequences, and on parts of sequences |
| `ServerRoomProofs` | the kinds of the server's steps; proofs about the conversation, of the refinement of `Room`, and about the end after `/quit` |
| `BackendProofs` | proofs about the registrations, the lookup and the room on both builds |
| `ClientProofs` | the kinds of the client's steps; proofs of what it promises to its user and to the server |
| `FramingProofs` | proofs about the bytes of frames on their way, and of the refinement |
| `ChatroomProofs` | proofs about the two programs together |

`Server` EXTENDS `Sockets`, which EXTENDS `Protocol`, and `Selection`; so does
`Client`. `Backend` and `Chatroom` extend the server (through `ServerRoom`); `Chatroom`
has the clients as `INSTANCE ClientProperties`, over the same sockets. An operator
with a name like `Recipients_Early` beside `Recipients` is a deliberately wrong
variant of it: the properties are tested by putting the variant in its place, and
each must then be found violated.

## Correspondence with the code

**Thread.** `pc` is where the only thread is: `"wait"` in `epoll_wait`,
`"dispatch"` in the `for` loop over the events, `"accept"` in the loop of
`handle_accept_client_connection_event`, `"parse"` in that of
`handle_read_network_package_event`, `"cleanup"` after the loop, `"exited"`. The
kernel and the remote programs take steps between any two of those, so a reset
may arrive between `epoll_wait` and the `send()` it led to.

**Variables.**

| variable | code |
|---|---|
| `conn[c]` | the `Connection` object: descriptor, state, buffers, `bytes_written`, length of the name; state `"FREED"` when there is none |
| `interest[c]` | events last given to `epoll_fd_add` / `epoll_fd_mod` |
| `batch` | events of `events[]` not handled yet; the order in which epoll reports is arbitrary, hence a set |
| `reader` | local variable `conn` of the parse loop |
| `server_closing` | the same |
| `screen` | what the server prints with `format_print_message` |
| `tcp`, `arrived`, `fin`, `rst` | the kernel's end of a connection and what has come in on it |
| `wire`, `taken` | everything `send()` accepted for a connection, and how much of it the peer has read |

An element of `Conn` is one TCP connection from its birth to its end, so
descriptor numbers (`Fd`) can be reused while connections are not. `owner` of an
event records which connection it was reported for; no guard reads it, only
properties do.

**Actions.** The guards `event_is_...` keep their names. Because the loop tests
them in a fixed order, `event_is_read_network_package` has the negation of the
send test, which comes first. (The other tests exclude each other by state or
descriptor.)

| code | actions |
|---|---|
| `epoll_wait`, the loop around it | `epoll_wait`, `SkipEvent`, `EndOfBatch` |
| `handle_accept_client_connection_event` | `handle_accept_client_connection_event`, `AcceptOne`, `AcceptDone` (EAGAIN, EINTR), `AcceptWithoutDescriptor` (EMFILE), `AcceptAborted` (ECONNABORTED), `AcceptNotWatched` (epoll refuses) |
| `handle_receive_client_hello_event` | `HelloIncomplete`, `HelloRejected`, `HelloAccepted` |
| `handle_read_network_package_event` | `ReadFails`, `ReadInput`, then per round `ParseNothing`, `ParseRejects`, `ParseLeave`, `ParseChat` |
| `handle_send_network_package_event` | `SendFails`, `SendPartial`, `SendHelloDone`, `SendDone` |
| `handle_read_stdin_event` | `StdinEof`, `StdinIgnored`, `StdinChat`, `StdinQuit` |
| `server_cleanup` | `server_cleanup` |

A handler that returns `false` moves `pc` to `"cleanup"`, as the loop does.
Calls a handler makes (broadcast, announcement, removal, `epoll_fd_mod`) are part
of its action. When epoll refuses a new client, its `Connection` is pushed to the
list, popped and deleted within one round of the accept loop, and the loop ends. Nothing
looks at the list in between, so `AcceptNotWatched` shows what is left: a closed
socket.

**The client.** `client[c]` is the program that owns the remote end of connection
`c`; its `pc` is `"start"` before `connect`, then `"wait"`, `"dispatch"`, `"exited"`.
`shown` is what its user sees. Unlike the server, the client has a single socket,
so its batch is at most two events, and a handler's result either goes on or ends
the program.

| code | actions |
|---|---|
| `client_connect_to_server`, start of the loop | `ConnectNow`, `ConnectLater`, `ConnectFails` |
| `epoll_wait`, the loop around it | `WaitForEvents`, `SkipEvent` |
| `handle_connection_success_event`, `client_check_connect` | `ConnectionMade`, `ConnectionRefused` |
| `handle_send_network_message_event` | `SendFails`, `SendPartial`, `SendDone`, `SendGoodbye` |
| `handle_read_network_message_event`, `handle_network_message` | `ReadFails`, `ReadFrames`, `ReadEnds` |
| `handle_read_stdin_event`, `handle_quit_command` | `StdinLeaves`, `StdinIgnored`, `StdinChat`, `StdinQuit` |
| `client_cleanup` | part of every action that ends the program |

A read and the handling of all frames it brought are one action of the client:
nobody else can see the states between. Which way the kernel tells the client of
the server's end is `hangup[c]`: an end of stream, or a reset when input was left
unread or the connection never left the accept queue.

**Both programs.** In `Chatroom` the arbitrary remote programs of `Sockets` and the
arbitrary server of `Client` are gone: `wire[c]` and `arrived[c]` are written by one
program and read by the other.

**Event library and lookup.** `Backend` adds to the server the build (`backend`), the
registrations in their order (`entries`), where each `Connection` lies in memory
(`address`) and the pointer `get_connection_of` keeps (`cached`). The handlers are those
of `Server`. Each records in `interest` what it tells the event library; `EpollCalls`
turns these calls, and nothing else, into operations on the table: events for a
connection that had none are an `EPOLL_CTL_ADD`, none any more an `EPOLL_CTL_DEL`, others
than before an `EPOLL_CTL_MOD`. An entry is a descriptor with the events asked for.
Adding a descriptor that is in the table (EEXIST), or changing or removing one that is
not (ENOENT), leaves the table as it is. A handler that deletes a connection without
removing its descriptor leaves the entry behind (`remove_connection_Unregistered`). The
server's cleanup makes no such call: it closes the instance. The addresses follow from
which connections a step creates and deletes. On the poll() build `poll_wait`
replaces `epoll_wait`: the flags are what `poll()` can report of the events in
the table, so that a half-close is seen as readable input only, and the first `MaxEvents` ready entries are taken.

**Bytes.** `Framing` is one direction of one connection: `out_buffer`, `bytes_written`
and `in_buffer` are byte sequences as in the code, `link` is what the kernels hold. `foreign`
is what a program that does not keep to the protocol sent behind the frames.
Lengths are written and read byte by byte in network order.

**Data.** A frame is a record of type, payload length and what it says (who, which
kind of utterance, and its number). Payload characters are left out; lengths are
kept because three different tests are made on them. In `Server` and `Client`
`bytes_written` counts whole frames; a frame cut in the middle is one not yet sent, which is how the receiver
sees it. `in_buffer` holds complete frames: a partial frame is still in
`arrived`, which `ReadSizes` allows when `Interruptible` is TRUE. That this view is
right, whatever the cuts, is what `Framing` shows.

**Failures that cannot happen** and are left out: `false` from `epoll_fd_mod` and
`epoll_fd_remove` (`RegistrationsMatch` shows that their descriptor is always
registered) and from `epoll_register` for a descriptor that already is, `epoll_wait` with a valid
descriptor (EINTR only repeats the call), and refusal of `room is closing.` and
CLOSE_CON for their length.

## Runs

Passing runs (states found by TLC are distinct states):

| run | module | question | checks | states |
|---|---|---|---|---|
| `conversation` | `MCServer` | do two clients with up to three frames each and slow networks hear one conversation? | `TypeOK`, `ChatOrder`, `HelloFirst`, `OneConversation` | 907,603 |
| `hangups` | `MCServer` | the same when they may also half-close or be reset at any moment: no stale event, and every step one of the room | `WriteInterest`, `FreshEvents`, `ImplementsRoom` | 856,054 |
| `closing` | `MCServer` | lines and names of boundary lengths and `/quit` at any time, with resets and reads, writes and accepts that stop early | `OrderlyClose`, `WriteInterest`, `StreamIsLegal`, `ImplementsRoom` | 690,801 |
| `live` | `MCServer` | one client reads, the other may stop for ever | `OutputDrains`, `HangupsNoticed`, `ClosingEnds` | 179,115 |
| `reuse` | `MCBackend` | three connections on two descriptors and two addresses, which are reused, run out, or are refused; both builds | `BackendTypeOK`, `FreshEvents`, `EventDiscipline`, `LookupFindsOwner`, `RegistrationsMatch` | 328,938 |
| `session` | `MCClient` | the client against an arbitrary server | `ClientTypeOK`, `NothingLostOrRepeated`, `ShowsWhatItReads`, `WriteInterest`, `HelloBeforeChat`, `QuitEnds`, `EndIsNoticed` | 156,287 |
| `room` | `MCChatroom` | the server and two real clients, leaving at any moment | `SameConversation`, `NoMisunderstanding` | 966,273 |
| `departures` | `MCChatroom` | does what is typed arrive, and does leaving and closing come to an end? | `LinesArrive`, `DepartureNoticed`, `RoomCloses` | 34,524 |
| `chunks` | `MCFraming` | do the bytes, cut anywhere, implement a queue of messages? | `FramingTypeOK`, `NoFrameWaits`, `RefusesExactlyTooLong`, `ImplementsFrameQueue`, `EverythingArrives` | 58,324 |

Runs that show a disagreement (see [findings](#findings)): `charlie`, `longline`,
`starved`.

What the properties say, and why they could fail:

* `WriteInterest` - for every live connection, EPOLLOUT is watched exactly when
  output is queued. Broken by one forgotten `epoll_fd_mod` in any of five
  handlers, or by one too many. The client has the same duty in three states.
* `FreshEvents`, `EventDiscipline` - the answer to INSR.md:640 ("How will stale
  events be prevented from accessing deleted connection state?"): the program has no
  generation numbers. It is safe because a handler deletes at most the connection
  of its own event, and epoll reports each descriptor once.
  `EventDiscipline` is that argument as an inductive invariant.
* `LookupFindsOwner` - the cached pointer is safe for another reason: it is
  compared with the live connections before it is followed. A deleted
  `Connection` whose memory a new client got makes the pointer valid again, for
  another client; the test of the descriptor tells them apart.
* `RegistrationsMatch` - the calls made in a dozen places add up to the right table:
  the live connections, no descriptor twice, EPOLLOUT asked for exactly where output is
  queued. The poll() build does not notice a `close`, so a forgotten
  removal would make `epoll_ctl` refuse the next client with that number.
* `OneConversation` - state of all buffers against the server's screen: an active
  member's stream, sent or queued, is the screen since his arrival without his
  own lines.
* `ImplementsRoom` - every *step* is a step of `Room`: who is told what when, also
  while members vanish.
* `OrderlyClose` - if `/quit` ends the loop and no connection failed, nothing is
  queued and every member has the notice followed by CLOSE_CON. Exempt is only a
  client that was being greeted when `/quit` was typed: the code sends it neither
  (`queue_close_to_all_clients` skips it), and the property says so.
* `SameConversation` - from one program's screen to the other's: a client has
  shown a gapless piece of the server's conversation from its own arrival on.
  `LinesArrive` is the other direction. Both cross two programs' buffers and the
  network, and every way of leaving.
* `NoMisunderstanding` - the server drops only clients that have left, and a
  client fails only because its server is gone, has reset the connection or cannot be
  reached, or because its own name is too long to be sent: the two state machines fit.
* `NothingLostOrRepeated`, `ShowsWhatItReads` - the two directions of the client
  alone, against a server that may do anything.
* `ImplementsFrameQueue` - the parser returns exactly the messages that were
  queued; `NoFrameWaits` - it never goes back to wait with a whole frame in hand.
* `RefusesExactlyTooLong` - the parser finds fault only when the foreign header announces
  more than 64 KiB, behind messages that were all parsed, and it does not go on
  waiting when such a header is at the head of its input. `<` in place of `<=` breaks
  it, and so does leaving the test out.
* `HangupsNoticed` speaks of half-closes and resets; `live` has half-closes only, so that
  resets are left to `DepartureNoticed` and to the safety properties of `hangups`.
* The others: see the comments in the modules.

Further configurations, which ask variants of these questions or show
disagreements told below, can be run with the modules they are named after:
`MCServer_quit` (`/quit` with two readers and resets), `MCServer_limits` (lengths of
names and of chat lines on both sides of every test), `MCServer_reuse` (`reuse` with
the epoll build alone), `MCServer_reset`, `MCServer_pipelined`, `MCChatroom_bothquit`,
`MCChatroom_lastwords`.

## Bounds, and why they are enough

* Two clients: one can speak while the other is at any stage of its life; all
  properties relate at most two connections. `reuse` has three, so that a
  descriptor and an address can pass to a third client while the second has
  events pending.
* `SocketBuf` frames per direction: 1 makes every second frame a partial write;
  2 lets several frames arrive in one read.
* `MaxFrames`: a handshake, a line and a departure need three (`conversation`);
  departures by other means need two (`hangups`); in runs about closing the
  server's own lines take over and one is enough.
* `MaxLines`: 2 is a line and `/quit`, in either order of arrival.
* `MaxTyped` (lines a client's user types): 3 is two lines and `/quit` (`session`,
  `departures`); 1 per client in `room`, where the clients speak to each other by
  arriving, saying a line or leaving, and the smallest buffers cut every exchange.
* `MaxReplies`: 3 frames of an arbitrary server: a hello, or none, and what follows.
* `MaxEvents`: 2 is less than the descriptors that can be ready, so a batch may
  leave some out, as MAX_EPOLL_EVENTS = 16 does for more clients; in `room` it is 1,
  and the clients' steps interleave with each single event. The liveness runs
  use 4, so that no descriptor is left out: the kernel serves the ready list in
  turn, which a set does not express. `starved` uses 1 with two clients in place of
  16 with seventeen.
* `Fd` and `Address` of `reuse`: one less than connections, so that both are reused
  and descriptors run out. `operator new` never runs out: while two connections live, no third has
  a descriptor.
* Lengths: `MCLimitFrames`, `MCLineSizes`, `MCNameSizes` and `MCTypedSizes` have a value
  on each side of the comparisons with MAX_PAYLOAD_SIZE that formatting can lead to.
* `Framing`: two messages of a frame of five bytes, of six, and of ten whose payload
  looks like a header; a link of eight bytes holds less than the longest frame and
  more than the shortest, so every cut of a header and of a payload happens, and a
  read may bring the end of one frame with the beginning of the next. Announced
  lengths are 65536, 65537 and 2^24: the limit, one more, and a length that only
  the right byte order reads as too long.
* `Hangups` and `Interruptible` switch failures on per run, to keep each
  exhaustive search small; every kind of failure is on in some run.
* Symmetry (permutations of `Conn`, of `Fd` and of `Address`) is used for invariants and
  action properties only, never for liveness.
* Deadlock is not checked: the programs wait quietly when nobody does anything,
  and exit.

## Fairness

`FairSpec` of `Server` assumes weak fairness of the server's thread as a whole
(`ServerNext`): it runs on when it can, but which event comes first is not
promised. For a client in `Readers` it assumes that it keeps reading
(`RemoteRead`). Nothing else is fair: clients need not send, close or connect,
and the server's user need not type. Without readers `/quit` need not end the
server: it waits for ever for a member that has stopped reading, since nothing bounds
the wait of `src/src/server/server.cpp:161`; `ClosingEnds` says so.

`FairSpec` of `Client` assumes weak fairness of the client's thread and that the server
goes on reading until it closes (`ServerReads`). Nothing is assumed of the network
or of what else the server does: `connect` need not be answered. Two more
assumptions are strong fairness: a socket that is ready again and again is read
or written in the end. They stand for two facts a step of the model leaves open, the
kernel reporting *every* ready descriptor when there are only two, and `Interruptible`
calls that stop early not doing so for ever.

`FairChatroom` assumes weak fairness of each program's thread and of the network, and
nothing of the users. Reading is not assumed there: it is what the programs do.
`FairBackend` is `FairSpec` of the server with `WaitStep` in the place of `epoll_wait`.
`FairSpec` of `Framing` assumes that both programs go on when they can.

## Findings

Claims of the documents that a run refutes, listed with their runs:

1. **One departure ends the room** (`charlie`, `LeavingSparesRoom`,
   `server.cpp:350`). A client types `/quit` while the server has output queued for
   it; it closes with input unread, the server's flush fails, the handler returns
   `false`, and the loop ends for everybody. INSR.md:520 and :673 promise the
   opposite. With an arbitrary client that is reset the same is shown by
   `MCServer_reset.cfg` (`ResetSparesRoom`). A reset that is noticed by a *read* is
   handled as promised.
2. **A legal line ends the room** (`longline`, `LegalLinesAreForwarded`,
   `server.cpp:439`). A line of 64 KiB passes the limit of README.md:90, but
   `[name] ` makes the broadcast over-long; `protocol_queue_message` refuses it,
   marks the innocent recipient CONNECTION_ERROR, and the server ends.
3. **A crowd of leavers hides the rest** (`starved`, `LargeRoomCloses`, `epoll.cpp:136`).
   On the poll() build each call reports the first sixteen ready descriptors in order of
   registration. In a closing room the server does not read, so clients that got their
   CLOSE_CON and hung up stay readable for ever; sixteen of them use up every batch,
   the output of a later client is never flushed, and `/quit` does not end the
   program. epoll does not have this problem: it serves its ready list in turn.

Disagreements shown by the further configurations:

4. **Pipelined frames wait** (`MCServer_pipelined`, `BufferedFramesAreParsed`,
   `server.cpp:282`). Frames that come in with the CLIENT_HELLO are parsed only
   when the client sends something more (INSR.md:305: "parse as many complete
   frames as possible"). The repository's client never does that, since it waits for
   the SERVER_HELLO.
5. **Both leave, both wait** (`MCChatroom_bothquit`, `QuitAlwaysEnds`, `client.cpp:166`).
   After `/quit` neither program reads. If both users type it while the send buffers
   of both directions are full, neither can write, and both wait for ever (INSR.md:673:
   "disconnects do not crash or freeze the application").
6. **Last words are lost** (`MCChatroom_lastwords`, `AllMessagesAreHandled`,
   `client.cpp:218`). When the closing notice and CLOSE_CON are read in one go with
   the end of the stream, the state is CLOSED before they are handled and the loop
   over them stops after the first one (client.cpp:216: "handle all complete messages").

## Proofs

TLAPS proves, for every value of the constants that satisfies the named
assumptions: `SocketsAssumption` and `ServerAssumption` for the server,
`NumberAssumption` (of `ServerRoom`) for its refinement, `BackendAssumption` in addition for the event
library, `SocketsAssumption` and `ClientAssumption` for the client,
`FramingAssumption` for the bytes, those of server, client and `NumberAssumption` with
`ChatroomAssumption` for both programs. They say that the constants have their types,
that descriptors of sockets, terminal and listening socket differ, that the host is
not a connection, that no user name is empty, and that the numbers of `Room` include
those of the lines that can be said.

| theorem | module | inductive invariant |
|---|---|---|
| `TypeCorrect`: `Spec => []TypeOK` | `ServerProofs` | `TypeOK` |
| `EventsAreDisciplined`: `Spec => []EventDiscipline` | `ServerProofs` | `TypeOK /\ EventDiscipline` |
| `EventsAreFresh`: `Spec => []FreshEvents` | `ServerProofs` | implied by `EventDiscipline` |
| `InterestFollowsOutput`: `Spec => []WriteInterest` | `ServerProofs` | `TypeOK /\ WriteInterest` |
| `StreamsAreLegal`: `Spec => []StreamIsLegal` | `ServerStreamProofs` | `TypeOK /\ FramesAreLegal` |
| `HelloComesFirst`: `Spec => []HelloFirst` | `ServerStreamProofs` | `TypeOK /\ EventDiscipline /\ Greeting` |
| `LinesInOrder`: `Spec => []ChatOrder` | `ServerRoomProofs` | `Orderly` |
| `ServerKeepsRoom`: `Spec => ImplementsRoom` | `ServerRoomProofs` | `Orderly`, then step simulation |
| `AllHearTheSame`: `Spec => []OneConversation` | `ServerRoomProofs` | `Orderly /\ OneConversation` |
| `QuitSaysGoodbye`: `Spec => []OrderlyClose` | `ServerRoomProofs` | `Orderly /\ Farewell` |
| `BackendTypes`: `BackendSpec => []BackendTypeOK` | `BackendProofs` | `BackendInv` |
| `TableIsRight`: `BackendSpec => []RegistrationsMatch` | `BackendProofs` | `BackendInv` |
| `LookupIsRight`: `BackendSpec => []LookupFindsOwner` | `BackendProofs` | implied by `EventDiscipline`, on both builds |
| `BackendKeepsRoom`: `BackendSpec => ImplementsRoom` | `BackendProofs` | `BackendInv`, then step simulation |
| `ClientTypeCorrect`: `Spec => []ClientTypeOK` | `ClientProofs` | `ClientInv` |
| `ClientLosesNothing`: `Spec => []NothingLostOrRepeated` | `ClientProofs` | implied by `ClientInv` |
| `ScreenIsRight`: `Spec => []ShowsWhatItReads` | `ClientProofs` | implied by `ClientInv` |
| `ClientWatchesItsOutput`: `Spec => []WriteInterest` | `ClientProofs` | implied by `ClientInv` |
| `HelloComesFirst`: `Spec => []HelloBeforeChat` | `ClientProofs` | implied by `ClientInv` |
| `FramingTypeCorrect`: `Spec => []FramingTypeOK` | `FramingProofs` | implied by `FramingInv` |
| `TooLongIsRefused`: `Spec => []RefusesExactlyTooLong` | `FramingProofs` | implied by `FramingInv` |
| `WaitsForMore`: `Spec => []NoFrameWaits` | `FramingProofs` | implied by `FramingInv` |
| `BytesAreAQueue`: `Spec => ImplementsFrameQueue` | `FramingProofs` | `FramingInv`, then step simulation |
| `ScreensAgree`: `ChatroomSpec => []SameConversation` | `ChatroomProofs` | `RoomInv` |
| `LinesReachTheServer`: `ChatroomSpec => []LinesArrive` | `ChatroomProofs` | implied by `RoomInv` |
| `NoFaultIsFound`: `ChatroomSpec => []NoMisunderstanding` | `ChatroomProofs` | implied by `RoomInv` |
| `TogetherTheyMakeTheRoom`: `ChatroomSpec => ImplementsRoom` | `ChatroomProofs` | `RoomInv /\ Company`, then step simulation |
| `RoomSaysGoodbye`: `ChatroomSpec => []OrderlyClose` | `ChatroomProofs` | `RoomInv /\ Company` |
| `PromisesHoldTogether`: what each program promises to any partner | `ChatroomProofs` | implied by `RoomInv` |

The safety theorems hold for `FairSpec` as well, which is a conjunction with `Spec`.

*Events.* `FreshEvents` alone is not inductive: that deleting the connection of one
event leaves the other events alone needs that no two events of the batch have
the same owner and that owners hold different descriptors; that accepting a
client does not make an event ambiguous needs that `accept` returns a descriptor
no live connection holds; that the parse loop, which runs after its event left
the batch, may delete its connection needs that no event of it is left. These are
`LiveDescriptors` and `EventOwners`.

*Output.* Three facts carry the proof: a handler that leaves `out_buffer` and
interest of a connection alone leaves it matching (`Matching`), a broadcast
makes each recipient match (`BroadcastWatches`), and a step that ends the loop
owes nothing.

*Lengths.* `StreamIsLegal` speaks of what is sent and what is queued behind it. The
invariant says it of every frame of both, since a step moves frames from one to
the other.

*Hello.* `HelloFirst` needs to know who has been told something: a client that has
not introduced itself nothing, one that may hear broadcasts at least the hello.
`Greeting` adds both, and that nothing was sent on a connection before `accept`,
because only then does a new `Connection` with empty buffers begin a stream. That
sending happens on accepted connections only comes from `EventDiscipline`.

*Kinds of steps.* Two dozen actions would make every further invariant two dozen cases,
most of them about descriptors, batches and buffer indices that the conversation does
not depend on. `ServerRoomProofs` therefore proves once that each step is of one of
thirteen kinds (`RoomStep`: `Accepts`, `Greets`, `Enters`, `Speaks`, `Leaves`, `Drops`,
`HostSpeaks`, `Closes`, `Stops`, ...), in terms of what the step does to the streams
of the clients (`Stream(c)`: sent and queued), to what is `Unparsed`, to states and to
the screen. `ClientProofs` does the same (`ClientStep`: `Introduces`, `Writes`,
`Flushes`, `Listens`, `Speaks`, `Resigns`, `IsTold`, `IsHeard`, ...). All later proofs
of these modules speak of kinds only. A kind forgets nothing a later proof needs, and
allows more than the actions do; so what is proved from kinds holds of the actions.

*Conversation.* `ChatOrder` is about the screen alone, and inductive only together with
where the lines come from. `Numbering` follows the frames of a client: those that are
on their way are the next ones after those parsed, in order and without a gap, and
the lines among the parsed ones are on the screen. `Silence` says that a client that
has not entered is not on the screen and has heard nothing, `HostOrder` and `Typing`
bound the server's own lines, `Places` ties the states to the place of the thread.
With `TypeOK`, `EventDiscipline` and `Greeting` these are `Orderly`. `Numbering` is the
part that is about the arbitrary clients of `Sockets`, who number their frames; the
proofs below use less of it, `Speakers` (what waits to be parsed was said by its sender)
and `NextLines` (the next line is later than those on the screen), so that they serve
for the real clients as well.

*Room.* The simulation takes each kind to a step of `Room`: most to one of its actions,
reading, accepting, parsing a hello and deleting what never entered to a stutter.
Two things are delicate. The server that stops in the middle of a broadcast has
printed what not everybody was sent: `Room` lets the last remark be cut off,
and `Utters` says which remarks can be. And a member whose stream has ended
(`CLOSED`) stays present until it is removed, since what it sent before is still
parsed and heard.

*One conversation* is an invariant of the room's steps: a remark is appended to the
screen and to what every guest but its speaker has heard, which is the selection of
one more element; who enters hears his own arrival first and starts there.

*Farewell.* That nothing is queued when `/quit` ends the loop is a guard of the code;
that everybody has then been told is not. `Farewell` keeps, from `/quit` on, that each
active member's stream holds the notice with CLOSE_CON directly behind it, or that
he entered after the notice (the exemption of `OrderlyClose`), and when the loop has
ended, that all streams are sent or a connection failed.

*Registrations.* `RegistrationsMatch` is a consequence of three facts. `Watching`: a
connection has events asked for exactly while it lives, and then what its state needs;
`WriteInterest`; and the table says what `interest` says (`Table`, which also
fixes the entries of the listening socket and the terminal). The first is about the
handlers: `AskStep` goes through the actions and shows that each makes the calls its
connections need, in particular that whoever deletes a connection removes it. The third
is about the library: `AddStep`, `ModType` and `DelStep` show what each call leaves in the
table, and that one descriptor has one entry needs that `accept` returns a descriptor no live
connection holds. With `Orderly` these are `BackendInv`. That the room is kept over
either library needs one thing more: what `poll_wait` reports is about live
connections under their descriptors, one record each, as `epoll_wait`'s is. The lookup
is right for every value of the cached pointer, also a dangling or reused one.

*Client.* `ClientInv` has five parts for each client. `Accounts` says of each frame in
the buffer, and of each that the server has not read, which utterance of `Told` it
carries, by its place; `NothingLostOrRepeated` is the same as one equation of sequences,
which no step changes in one place only. `Stage` says in which states what may have
happened: `HelloBeforeChat` is not inductive without the connection's state. `Heard` needs
`Hosted`, that all the server sends is said by the server: only then does printing add
nothing to the user's own lines. `Bounds` bounds the indices by the buffers they
point into; the client's types are inductive only with it.

*Selection.* `Only(s, S)` and `Says` are what the sequences' `SelectSeq` and a map are with
sets in place of operators: written as recursive functions they can be reasoned
about. The induction theorems of the library take a predicate, which the provers cannot
instantiate; `SelectionProofs` derives induction over the natural numbers and over
sequences for *sets* (`SetInduction`, `SeqInduction`) from well-founded relations, and
from these that the function `Only` is built from exists, what it makes of
`Append` and `\o`, and which elements it keeps.

*Bytes.* `FramingInv` says where every byte is: what the parser has in `in_buffer`,
what the kernel holds and what is still unsent are, in this order, the frames that
were queued and not yet parsed, followed by what an over-long announcement added.
It is stated with one remainder of the stream per queued message, each beginning
with that message's frame. `RoundTrip` is the heart of the parsing step: the header
of a frame, written byte by byte, gives its length and type back, and its payload is
the bytes that follow; a stream that starts with a frame can be parsed only as this
frame. Cutting the stream elsewhere moves a border in the concatenation and
changes no byte of it. That exactly the over-long is refused follows because a header
at the head of the input is either that of a queued message, which is legal, or the
foreign one, and then the bytes it is decoded from are all those that were sent
(`OversizedIsTooLong`, `NoHeaderYet`).

*Both programs.* `Chatroom` puts two state machines and a network in one step relation, but
each program was already described by kinds of steps, and neither description depends
on who is at the other end. `ChatroomProofs` has the theorems about the client as an
instance (`CP`), with no arbitrary server left, and proves that a step of the server is,
for the sockets of each client, one of `Takes` (reads some of what arrived), `Gives`
(sends some of what is queued) and `Shuts` (closes), and that a step of a client or of the
network leaves the server's variables alone (`Moves`) and either queues one frame or
delivers some. The bounds `MaxFrames` and `MaxReplies` on arbitrary partners play no part.

`RoomInv` is what the server's and the clients' own invariants say, and for each client:

* `Addressed` - all that was sent to it or is queued for it is a frame it expects and no
  line of its own user; the clients' invariant needs it as what a server may write.
* `Incoming` - all that the server has still to parse from it, in its buffer or in the
  kernel, is what the server expects at that place: the hello first and only while the
  server waits for it, the farewell only from a client that has left.
* `Departed` - a stream ends, or the server gives up a connection, only after the
  client has left. Not inductive without `Incoming`: the server also closes on a frame it
  does not like.
* `Carried` - what is on the server's screen, what is on its way and what is in the client's
  buffer are, in this order, the lines on the client's screen. While both run and are
  connected they are all of them (`Complete`); when one has ended something may be
  missing, but only behind all the rest. Without the exact form of `Complete` the
  step that moves lines from one buffer to the next could leave a gap.
* `OnScreen` - what was sent to it is the beginning of the server's screen from its arrival
  on, without its own lines. This is `OneConversation` for streams that have been cut off:
  a client that left, or whose connection was closed, keeps what it has read.
* `Blameless` - the second half of `NoMisunderstanding`.

`SameConversation` is then a chain of three beginnings: what a client shows of what it has
read, of what it was sent (`CP!Heard`), of what the screen shows (`OnScreen`).
`NoMisunderstanding` speaks of a client that fails with nothing against its server: its
server has not gone, reset the connection, or been out of reach, and its own name
can be sent. The proof goes through every way into CONNECTION_ERROR; what excludes a
wrong frame is `Addressed` with `HelloFirst`.

`Company` adds what the room needs besides: that a client's lines are numbered upwards
(`CP!Numbered`, from the client's keyboard), which with `Carried` gives `NextLines`, and
the server's `HostOrder`, `Typing` and `Farewell`. Steps of the clients are stutters of
`Room`: nobody in the room notices them before the server has parsed something.

Each proof has one lemma per group of actions, in the order of the next-state
relation, and a last step that combines them.

*Only model-checked*, on the instances above: liveness. `OutputDrains`, `HangupsNoticed`,
`ClosingEnds`, `QuitEnds`, `EndIsNoticed`, `DepartureNoticed`, `RoomCloses` and
`EverythingArrives` need fairness and ENABLED, which the prover does not treat. The
claims that runs refute have counterexamples in place of proofs.

## What is not modelled

* The characters of names and lines; frames inside `Server` and `Client` are whole
  (see *Data*). There an over-long frame is rejected when it is complete, whereas the
  code rejects it on its header, as `Framing` does; the connection is removed either way.
* The read-ahead of `std::cin` when input is piped: the terminal is modelled line by
  line, as a user types.
* Memory: `out_buffer` of a member that does not read grows without limit in the
  code; runs bound it by the number of frames.
* Names as text: two members may have the same name (INSR.md:499 wants them
  unique; the server does not check).
* SIGPIPE on systems without MSG_NOSIGNAL (`epoll_compat.hpp:32`).
* Prompts, creation of the listening socket, ports and addresses, logging, wording:
  they run in sequence before any connection exists, or print only. The initial
  states of `Server` and `Client` are what they leave behind.
