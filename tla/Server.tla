------------------------------- MODULE Server -------------------------------
(***************************************************************************)
(* The chatroom server (src/src/server/server.cpp with the buffering of    *)
(* src/src/connection/connection.cpp): one thread that waits for a batch   *)
(* of epoll events and handles them one after the other.                   *)
(*                                                                         *)
(* pc is the place of that thread: blocked in epoll_wait ("wait"), in the  *)
(* loop over the reported events ("dispatch"), in the accept loop          *)
(* ("accept"), in the loop that parses what was read from one client       *)
(* ("parse"), past the event loop ("cleanup"), or gone ("exited").  The    *)
(* remote programs run between any two steps.                              *)
(***************************************************************************)
EXTENDS Sockets, FiniteSets, FiniteSetsExt

CONSTANTS
    Fd,             \* descriptors the process may still open for clients
    ListenFd, StdinFd,
    NoFd, None,
    HostNameSizes,  \* lengths the name of the server's user may have
    LineSizes,      \* lengths of the lines the server's user may type
    MaxLines,       \* bound: lines the server's user types
    MaxEvents,      \* MAX_EPOLL_EVENTS
    Interruptible,  \* whether reads, writes and accepts may stop early: a
                    \* read inside a frame, any of them on EINTR
    EpollMayRefuse, \* whether registering a descriptor may fail
    Readers         \* remote ends that never stop reading for good

ASSUME ServerAssumption ==
    /\ None \notin Conn
    /\ NoFd \notin Fd
    /\ ListenFd \notin Fd \cup {NoFd} /\ StdinFd \notin Fd \cup {NoFd}
    /\ ListenFd # StdinFd
    /\ HostNameSizes \subseteq Nat
    /\ LineSizes \subseteq Nat
    /\ MaxLines \in Nat
    /\ MaxEvents \in Nat \ {0}
    /\ Interruptible \in BOOLEAN
    /\ EpollMayRefuse \in BOOLEAN
    /\ Readers \subseteq Conn

VARIABLES
    pc,              \* where the server's only thread is
    conn,            \* the Connection objects
    interest,        \* events epoll watches for, per connection
    batch,           \* reported events that are not handled yet
    reader,          \* the connection whose input is being parsed
    server_closing,
    screen,          \* what the server has printed for its user
    server_name,     \* length of the name the server's user chose
    lines            \* how many lines the server's user has typed

userVars   == <<server_name, lines>>
serverVars == <<pc, conn, interest, batch, reader, server_closing, screen, userVars>>
vars       == <<sockVars, serverVars>>

-----------------------------------------------------------------------------
(* Data.                                                                    *)

(* ConnectionState as the server uses it; "FREED" stands for a connection   *)
(* that has no Connection object (not accepted yet, or deleted).            *)
ConnectionState == {"WAITING_FOR_CLIENT_HELLO", "SENDING_SERVER_HELLO",
                    "ACTIVE", "CLOSED", "CONNECTION_ERROR", "FREED"}

(* bytes_written counts the whole frames of out_buffer that were sent, and  *)
(* name is the length of the peer's name.                                   *)
Connection == [fd            : Fd \cup {NoFd},
               state         : ConnectionState,
               in_buffer     : Seq(Msg),
               out_buffer    : Seq(Msg),
               bytes_written : Nat,
               name          : Nat]

NoConnection == [fd |-> NoFd, state |-> "FREED", in_buffer |-> <<>>,
                 out_buffer |-> <<>>, bytes_written |-> 0, name |-> 0]

EpollFlag == {"EPOLLIN", "EPOLLOUT", "EPOLLRDHUP", "EPOLLHUP"}
ReadOnly  == {"EPOLLIN", "EPOLLRDHUP"}
ReadWrite == {"EPOLLIN", "EPOLLOUT", "EPOLLRDHUP"}
WriteOnly == {"EPOLLOUT", "EPOLLRDHUP"}
Inbound   == {"EPOLLIN", "EPOLLRDHUP", "EPOLLHUP"}

(* owner is the connection the event was reported for.  The program does    *)
(* not have it: it has the descriptor only.                                 *)
Event == [fd    : Fd \cup {NoFd, ListenFd, StdinFd},
          flags : SUBSET EpollFlag,
          owner : Conn \cup {None}]

ServerTypeOK ==
    /\ pc \in {"wait", "dispatch", "accept", "parse", "cleanup", "exited"}
    /\ conn \in [Conn -> Connection]
    /\ interest \in [Conn -> SUBSET EpollFlag]
    /\ batch \in SUBSET Event
    /\ reader \in Conn \cup {None}
    /\ server_closing \in BOOLEAN
    /\ screen \in Seq(Utterance(Speaker))
    /\ server_name \in Nat
    /\ lines \in Nat

TypeOK == SocketsTypeOK /\ ServerTypeOK

Init ==
    /\ SocketsInit
    /\ pc = "wait"
    /\ conn = [c \in Conn |-> NoConnection]
    /\ interest = [c \in Conn |-> {}]
    /\ batch = {}
    /\ reader = None
    /\ server_closing = FALSE
    /\ screen = <<>>
    /\ server_name \in HostNameSizes
    /\ lines = 0

(* server->connections.                                                     *)
connections == {c \in Conn : conn[c].state # "FREED"}

FreeFds == Fd \ {conn[c].fd : c \in connections}

(* get_connection_of: the live connection that holds descriptor f.          *)
get_connection_of(f) == {c \in connections : conn[c].fd = f}

all_connection_buffers_empty_Active(cs) ==
    \A c \in Conn : cs[c].state = "ACTIVE" => cs[c].out_buffer = <<>>
all_connection_buffers_empty(cs) == \A c \in Conn : cs[c].out_buffer = <<>>

-----------------------------------------------------------------------------
(* Queueing messages.  The operators take the connection objects and the    *)
(* interest sets as arguments, because a handler may queue several times.   *)

ChatMessage(who, what, n, size) ==
    [type |-> "CHAT", size |-> size,
     says |-> [who |-> who, what |-> what, n |-> n]]

(* The broadcast of "`name` connected." and its like, about connection c.   *)
Notice(c, what, nameSize) ==
    format_broadcast_message(ServerNameSize,
        ChatMessage(c, what, 0, NoticeSize(what, nameSize)))

ServerHello == [type |-> "SERVER_HELLO", size |-> server_name,
                says |-> [who |-> Host, what |-> "name", n |-> 0]]

CloseMessage == [type |-> "CLOSE_CON", size |-> 0,
                 says |-> [who |-> Host, what |-> "nothing", n |-> 0]]

(* Whom broadcast_message_to_other_clients addresses; sender None is the    *)
(* null pointer, that is, everyone.                                         *)
Recipients_Echo(cs, sender) == {c \in Conn : cs[c].state = "ACTIVE"}
Recipients_Early(cs, sender) ==
    {c \in Conn : c # sender /\ cs[c].state # "FREED"}
Recipients(cs, sender) == {c \in Conn : c # sender /\ cs[c].state = "ACTIVE"}

(* protocol_queue_message for every connection of the set to.               *)
Queue(cs, to, m) ==
    [c \in Conn |-> IF c \in to
                    THEN [cs[c] EXCEPT !.out_buffer = Append(@, m)]
                    ELSE cs[c]]

(* epoll_fd_mod for every connection of the set to.                         *)
Watch(is, to, events) == [c \in Conn |-> IF c \in to THEN events ELSE is[c]]

Broadcast(cs, sender, m) == Queue(cs, Recipients(cs, sender), m)

WatchRecipients_Forgotten(is, cs, sender) == is
WatchRecipients(is, cs, sender) == Watch(is, Recipients(cs, sender), ReadWrite)

(* An over-long message is refused when it is queued for the first          *)
(* recipient; with no recipient nothing is queued and nothing fails.        *)
BroadcastFails_Unchecked(cs, sender, m) == FALSE
BroadcastFails(cs, sender, m) ==
    /\ ~protocol_payload_length_is_legal(m.size)
    /\ Recipients(cs, sender) # {}

(* protocol_queue_message refuses m: the recipient it was tried on first    *)
(* is left in CONNECTION_ERROR and the handler makes the event loop end.    *)
RefuseBroadcast(cs, sender) ==
    /\ \E c \in Recipients(cs, sender) :
         conn' = [cs EXCEPT ![c].state = "CONNECTION_ERROR"]
    /\ pc' = "cleanup"
    /\ UNCHANGED interest

(* remove_connection: out of epoll and of the connection list, closed and   *)
(* deleted.                                                                 *)
remove_connection_Sweeping(c) ==
    LET dead == {d \in connections : d = c \/ fin[d] \/ rst[d]}
    IN  /\ conn'     = [d \in Conn |-> IF d \in dead THEN NoConnection ELSE conn[d]]
        /\ interest' = Watch(interest, dead, {})
        /\ CloseSockets(dead)
remove_connection_Unregistered(c) ==
    /\ conn'     = [conn EXCEPT ![c] = NoConnection]
    /\ UNCHANGED interest
    /\ CloseSockets({c})
remove_connection(c) ==
    /\ conn'     = [conn EXCEPT ![c] = NoConnection]
    /\ interest' = [interest EXCEPT ![c] = {}]
    /\ CloseSockets({c})

-----------------------------------------------------------------------------
(* epoll_wait and the loop over its events.                                 *)

(* Events of the descriptors epoll watches; EPOLLHUP is always reported.    *)
ConnectionEvents ==
    {[fd |-> conn[c].fd, flags |-> Readiness(c) \cap (interest[c] \cup {"EPOLLHUP"}),
      owner |-> c] : c \in connections}

ReadyEvents ==
    {e \in ConnectionEvents : e.flags # {}} \cup
    {e \in {[fd |-> ListenFd, flags |-> {"EPOLLIN"}, owner |-> None]} :
         \E c \in Conn : tcp[c] = "queued"}

(* The server's user may have typed a line by now.                          *)
StdinEvents ==
    {e \in {[fd |-> StdinFd, flags |-> {"EPOLLIN"}, owner |-> None]} :
         lines < MaxLines}

epoll_wait ==
    /\ pc = "wait"
    /\ \E typed \in SUBSET StdinEvents :
         LET ready == ReadyEvents \cup typed
         IN  /\ ready # {}
             /\ batch' \in IF Cardinality(ready) <= MaxEvents
                           THEN {ready} ELSE kSubset(MaxEvents, ready)
    /\ pc' = "dispatch"
    /\ UNCHANGED <<sockVars, conn, interest, reader, server_closing, screen, userVars>>

(* The events that are left once e is handled.                              *)
Rest(e) == batch \ {e}

event_is_accept_client_connection(e) ==
    ~server_closing /\ e.fd = ListenFd /\ "EPOLLIN" \in e.flags

event_is_receive_client_hello(e, c) ==
    /\ ~server_closing
    /\ conn[c].state = "WAITING_FOR_CLIENT_HELLO"
    /\ e.flags \cap Inbound # {}

event_is_send_network_package_Greeted(e, c) ==
    /\ conn[c].state = "ACTIVE"
    /\ conn[c].out_buffer # <<>>
    /\ "EPOLLOUT" \in e.flags
event_is_send_network_package(e, c) ==
    /\ conn[c].state \in {"SENDING_SERVER_HELLO", "ACTIVE"}
    /\ conn[c].out_buffer # <<>>
    /\ "EPOLLOUT" \in e.flags

event_is_read_network_package(e, c) ==
    /\ ~server_closing
    /\ conn[c].state = "ACTIVE"
    /\ e.flags \cap Inbound # {}
    /\ ~event_is_send_network_package(e, c)

event_is_read_stdin(e) ==
    ~server_closing /\ e.fd = StdinFd /\ "EPOLLIN" \in e.flags

(* None of the handlers takes the event.                                    *)
SkipEvent(e) ==
    /\ pc = "dispatch" /\ e \in batch
    /\ ~event_is_accept_client_connection(e)
    /\ ~event_is_read_stdin(e)
    /\ \A c \in get_connection_of(e.fd) :
         /\ ~event_is_receive_client_hello(e, c)
         /\ ~event_is_send_network_package(e, c)
         /\ ~event_is_read_network_package(e, c)
    /\ batch' = Rest(e)
    /\ UNCHANGED <<sockVars, pc, conn, interest, reader, server_closing, screen, userVars>>

EndOfBatch ==
    /\ pc = "dispatch" /\ batch = {}
    /\ pc' = IF server_closing /\ all_connection_buffers_empty(conn)
             THEN "cleanup" ELSE "wait"
    /\ UNCHANGED <<sockVars, conn, interest, batch, reader, server_closing, screen, userVars>>

-----------------------------------------------------------------------------
(* Accepting clients.                                                       *)

handle_accept_client_connection_event(e) ==
    /\ pc = "dispatch" /\ e \in batch
    /\ event_is_accept_client_connection(e)
    /\ batch' = Rest(e)
    /\ pc' = "accept"
    /\ UNCHANGED <<sockVars, conn, interest, reader, server_closing, screen, userVars>>

(* The Connection object of a client that was just accepted.                *)
NewConnection_Stateless(f) == [NoConnection EXCEPT !.fd = f, !.state = "CONNECTING"]
NewConnection(f) ==
    [NoConnection EXCEPT !.fd = f, !.state = "WAITING_FOR_CLIENT_HELLO"]

AcceptOne(c) ==
    /\ pc = "accept" /\ tcp[c] = "queued"
    /\ \E f \in FreeFds : conn' = [conn EXCEPT ![c] = NewConnection(f)]
    /\ tcp' = [tcp EXCEPT ![c] = "accepted"]
    /\ interest' = [interest EXCEPT ![c] = ReadOnly]
    /\ UNCHANGED <<arrived, wire, remoteVars>>
    /\ UNCHANGED <<pc, batch, reader, server_closing, screen, userVars>>

(* EAGAIN, nobody is left in the accept queue, or EINTR.                    *)
AcceptDone ==
    /\ pc = "accept"
    /\ Interruptible \/ \A c \in Conn : tcp[c] # "queued"
    /\ pc' = "dispatch"
    /\ UNCHANGED <<sockVars, conn, interest, batch, reader, server_closing, screen, userVars>>

(* EMFILE: the process has no descriptor left.  Linux looks for one before  *)
(* it looks at the queue, so the queue may be empty.                        *)
AcceptWithoutDescriptor ==
    /\ pc = "accept" /\ FreeFds = {}
    /\ pc' = "cleanup"
    /\ UNCHANGED <<sockVars, conn, interest, batch, reader, server_closing, screen, userVars>>

(* A client of the queue is lost: its socket is closed and the event loop   *)
(* ends.                                                                    *)
AcceptLost(c) ==
    /\ pc = "accept" /\ tcp[c] = "queued"
    /\ CloseSockets({c})
    /\ pc' = "cleanup"
    /\ UNCHANGED <<wire, remoteVars>>
    /\ UNCHANGED <<conn, interest, batch, reader, server_closing, screen, userVars>>

(* ECONNABORTED (the BSD and macOS kernels): the client was reset while it  *)
(* waited in the queue.                                                     *)
AcceptAborted(c) == rst[c] /\ AcceptLost(c)

(* epoll refuses the new descriptor.  Its Connection was pushed to the list *)
(* and is popped from it and deleted by the same round of the accept loop,  *)
(* and nothing looks at the list in between: conn stays as it was.          *)
AcceptNotWatched(c) == EpollMayRefuse /\ FreeFds # {} /\ AcceptLost(c)

-----------------------------------------------------------------------------
(* Reading: connection_read_into_in_buffer and protocol_parse_message.      *)

(* How many of the arrived frames one read completes.                       *)
ReadSizes(c) == IF Interruptible THEN 0 .. Len(arrived[c]) ELSE {Len(arrived[c])}

InputAfter_Overwritten(c, k) == SubSeq(arrived[c], 1, k)
InputAfter(c, k) == conn[c].in_buffer \o SubSeq(arrived[c], 1, k)

ArrivedAfter(c, k) == SubSeq(arrived[c], k + 1, Len(arrived[c]))

(* recv() returned 0: the end of the stream follows the k frames read.      *)
EofAfter_Ignored(c, k) == FALSE
EofAfter(c, k) == fin[c] /\ k = Len(arrived[c])

(* The handshake: the first frame of a client.                              *)

HelloEvent(e, c) ==
    /\ pc = "dispatch" /\ e \in batch
    /\ c \in get_connection_of(e.fd)
    /\ event_is_receive_client_hello(e, c)
    /\ batch' = Rest(e)
    /\ UNCHANGED <<reader, server_closing, screen, userVars>>

AcceptableHello(m) ==
    /\ protocol_payload_length_is_legal(m.size)
    /\ m.type = "CLIENT_HELLO"
    /\ m.size > 0

HelloIncomplete(e, c) ==
    /\ HelloEvent(e, c)
    /\ \E k \in ReadSizes(c) : InputAfter(c, k) = <<>> /\ ~EofAfter(c, k)
    /\ Readable(c)
    /\ UNCHANGED <<sockVars, pc, conn, interest>>

(* The socket failed, the stream ended before a frame, or the first frame   *)
(* is not a usable CLIENT_HELLO.                                            *)
HelloRejected(e, c) ==
    /\ HelloEvent(e, c)
    /\ \/ rst[c]
       \/ \E k \in ReadSizes(c) :
            LET input == InputAfter(c, k)
            IN  IF input = <<>> THEN EofAfter(c, k)
                                ELSE ~AcceptableHello(Head(input))
    /\ remove_connection(c)
    /\ UNCHANGED <<pc, wire, remoteVars>>

(* The first frame of input is parsed and gives c its name.                 *)
Named(c, input) == [conn EXCEPT ![c].in_buffer = Tail(input),
                                ![c].name      = Head(input).size]

(* One frame is parsed; further frames, and the end of the stream that was  *)
(* noted in the state, stay behind.                                         *)
HelloAccepted(e, c) ==
    /\ HelloEvent(e, c) /\ Readable(c)
    /\ \E k \in ReadSizes(c) :
         LET input == InputAfter(c, k)
         IN  /\ input # <<>> /\ AcceptableHello(Head(input))
             /\ arrived' = [arrived EXCEPT ![c] = ArrivedAfter(c, k)]
             /\ IF protocol_payload_length_is_legal(server_name)
                THEN /\ conn' = [Queue(Named(c, input), {c}, ServerHello)
                                   EXCEPT ![c].state = "SENDING_SERVER_HELLO"]
                     /\ interest' = Watch(interest, {c}, ReadWrite)
                     /\ pc' = pc
                ELSE /\ conn' = [Named(c, input) EXCEPT ![c].state = "CONNECTION_ERROR"]
                     /\ pc' = "cleanup"
                     /\ UNCHANGED interest
    /\ UNCHANGED <<tcp, wire, remoteVars>>

(* Input of an active client.                                               *)

ReadEvent(e, c) ==
    /\ pc = "dispatch" /\ e \in batch
    /\ c \in get_connection_of(e.fd)
    /\ event_is_read_network_package(e, c)
    /\ batch' = Rest(e)
    /\ UNCHANGED <<server_closing, screen, userVars>>

ReadFails(e, c) ==
    /\ ReadEvent(e, c) /\ rst[c]
    /\ remove_connection(c)
    /\ UNCHANGED <<pc, reader, wire, remoteVars>>

ReadInput(e, c) ==
    /\ ReadEvent(e, c) /\ Readable(c)
    /\ \E k \in ReadSizes(c) :
         /\ conn' = [conn EXCEPT ![c].in_buffer = InputAfter(c, k),
                                 ![c].state = IF EofAfter(c, k) THEN "CLOSED" ELSE @]
         /\ arrived' = [arrived EXCEPT ![c] = ArrivedAfter(c, k)]
    /\ pc' = "parse" /\ reader' = c
    /\ UNCHANGED <<tcp, wire, remoteVars, interest>>

(* The rounds of the parse loop.                                            *)

Parsing(c) ==
    /\ pc = "parse" /\ c = reader
    /\ reader' = None
    /\ UNCHANGED <<wire, remoteVars, batch, server_closing, userVars>>

ParseNothing(c) ==
    /\ Parsing(c)
    /\ conn[c].in_buffer = <<>> /\ conn[c].state # "CLOSED"
    /\ pc' = "dispatch"
    /\ UNCHANGED <<tcp, arrived, conn, interest, screen>>

(* An over-long frame, a CLOSE_CON with a payload, or any other type but    *)
(* CHAT: the connection is dropped without a word to the room.              *)
ParseRejects(c) ==
    /\ Parsing(c)
    /\ conn[c].in_buffer # <<>>
    /\ LET m == Head(conn[c].in_buffer)
       IN  \/ ~protocol_payload_length_is_legal(m.size)
           \/ m.type = "CLOSE_CON" /\ m.size > 0
           \/ m.type \notin {"CLOSE_CON", "CHAT"}
    /\ remove_connection(c)
    /\ pc' = "dispatch"
    /\ UNCHANGED screen

(* The end of the stream behind the last frame, or a CLOSE_CON, whose       *)
(* successors in the buffer are dropped: announce_client_disconnected, then *)
(* remove_connection.                                                       *)
ParseLeave(c) ==
    /\ Parsing(c)
    /\ IF conn[c].in_buffer = <<>>
       THEN conn[c].state = "CLOSED"
       ELSE LET m == Head(conn[c].in_buffer)
            IN  m.type = "CLOSE_CON" /\ m.size = 0
    /\ LET notice == Notice(c, "disconnected", conn[c].name)
       IN  /\ screen' = Append(screen, notice.says)
           /\ IF BroadcastFails(conn, c, notice)
              THEN RefuseBroadcast(conn, c) /\ UNCHANGED <<tcp, arrived>>
              ELSE /\ conn' = [Broadcast(conn, c, notice) EXCEPT ![c] = NoConnection]
                   /\ interest' = [WatchRecipients(interest, conn, c) EXCEPT ![c] = {}]
                   /\ CloseSockets({c})
                   /\ pc' = "dispatch"

ParseChat(c) ==
    /\ pc = "parse" /\ c = reader
    /\ conn[c].in_buffer # <<>>
    /\ LET m      == Head(conn[c].in_buffer)
           said   == format_broadcast_message(conn[c].name, m)
           popped == [conn EXCEPT ![c].in_buffer = Tail(@)]
       IN  /\ m.type = "CHAT" /\ protocol_payload_length_is_legal(m.size)
           /\ screen' = Append(screen, m.says)
           /\ IF BroadcastFails(popped, c, said)
              THEN RefuseBroadcast(popped, c) /\ reader' = None
              ELSE /\ conn' = Broadcast(popped, c, said)
                   /\ interest' = WatchRecipients(interest, popped, c)
                   /\ UNCHANGED <<pc, reader>>
    /\ UNCHANGED <<sockVars, batch, server_closing, userVars>>

-----------------------------------------------------------------------------
(* Writing: connection_flush_out_buffer and what follows a complete flush.  *)

SendEvent(e, c) ==
    /\ pc = "dispatch" /\ e \in batch
    /\ c \in get_connection_of(e.fd)
    /\ event_is_send_network_package(e, c)
    /\ batch' = Rest(e)
    /\ UNCHANGED <<reader, server_closing, userVars>>

Pending(c) == Len(conn[c].out_buffer) - conn[c].bytes_written

(* EPIPE or ECONNRESET: the handler reports failure to the event loop.      *)
SendFails(e, c) ==
    /\ SendEvent(e, c) /\ rst[c]
    /\ conn' = [conn EXCEPT ![c].state = "CONNECTION_ERROR"]
    /\ pc' = "cleanup"
    /\ UNCHANGED <<sockVars, interest, screen>>

(* send() took k frames of the rest of out_buffer.                          *)
Sends(c, k) ==
    /\ ~rst[c]
    /\ wire' = [wire EXCEPT ![c] = @ \o SubSeq(conn[c].out_buffer,
                                               conn[c].bytes_written + 1,
                                               conn[c].bytes_written + k)]
    /\ UNCHANGED <<tcp, arrived, remoteVars>>

(* The send buffer fills up, perhaps inside the next frame, or EINTR: the   *)
(* rest stays queued.                                                       *)
SendPartial(e, c) ==
    /\ SendEvent(e, c)
    /\ \E k \in 0 .. Pending(c) - 1 :
         /\ k <= SendRoom(c)
         /\ k = 0 => Interruptible \/ SendRoom(c) = 0
         /\ Sends(c, k)
         /\ conn' = [conn EXCEPT ![c].bytes_written = @ + k]
    /\ UNCHANGED <<pc, interest, screen>>

Flushed_NotRewound(c) ==
    [conn EXCEPT ![c].out_buffer = <<>>, ![c].bytes_written = Len(conn[c].out_buffer)]
Flushed(c) == [conn EXCEPT ![c].out_buffer = <<>>, ![c].bytes_written = 0]

SendAll(e, c) ==
    /\ SendEvent(e, c)
    /\ Pending(c) <= SendRoom(c)
    /\ Sends(c, Pending(c))

(* The SERVER_HELLO is out: the connection becomes active and the room,     *)
(* the newcomer included, is told.                                          *)
SendHelloDone(e, c) ==
    /\ SendAll(e, c)
    /\ conn[c].state = "SENDING_SERVER_HELLO"
    /\ LET active == [Flushed(c) EXCEPT ![c].state = "ACTIVE"]
           notice == Notice(c, "connected", conn[c].name)
       IN  /\ screen' = Append(screen, notice.says)
           /\ IF BroadcastFails(active, None, notice)
              THEN RefuseBroadcast(active, None)
              ELSE /\ conn' = Broadcast(active, None, notice)
                   /\ interest' = WatchRecipients(interest, active, None)
                   /\ pc' = pc

SendDone_Watching(e, c) ==
    /\ SendAll(e, c)
    /\ conn[c].state = "ACTIVE"
    /\ conn' = Flushed(c)
    /\ UNCHANGED <<pc, interest, screen>>
SendDone(e, c) ==
    /\ SendAll(e, c)
    /\ conn[c].state = "ACTIVE"
    /\ conn' = Flushed(c)
    /\ interest' = Watch(interest, {c}, ReadOnly)
    /\ UNCHANGED <<pc, screen>>

-----------------------------------------------------------------------------
(* The server's own user.                                                   *)

StdinEvent(e) ==
    /\ pc = "dispatch" /\ e \in batch
    /\ event_is_read_stdin(e)
    /\ batch' = Rest(e)
    /\ lines' = lines + 1
    /\ UNCHANGED <<sockVars, reader, server_name>>

StdinEof(e) ==
    /\ StdinEvent(e)
    /\ pc' = "cleanup"
    /\ UNCHANGED <<conn, interest, server_closing, screen>>

(* An empty line, or one that is too long.                                  *)
StdinIgnored(e) ==
    /\ StdinEvent(e)
    /\ \E size \in LineSizes :
         size = 0 \/ ~protocol_payload_length_is_legal(size)
    /\ UNCHANGED <<pc, conn, interest, server_closing, screen>>

StdinChat(e) ==
    /\ StdinEvent(e)
    /\ \E size \in LineSizes :
         LET line == ChatMessage(Host, "chat", lines + 1, size)
             said == format_broadcast_message(server_name, line)
         IN  /\ size > 0 /\ protocol_payload_length_is_legal(size)
             /\ screen' = Append(screen, line.says)
             /\ IF BroadcastFails(conn, None, said)
                THEN RefuseBroadcast(conn, None)
                ELSE /\ conn' = Broadcast(conn, None, said)
                     /\ interest' = WatchRecipients(interest, conn, None)
                     /\ pc' = pc
    /\ UNCHANGED server_closing

(* "/quit": announce_room_closing (whose notice is never too long), then    *)
(* queue_close_to_all_clients.                                              *)
ClosingNotice ==
    format_broadcast_message(ServerNameSize,
        ChatMessage(Host, "closing", 0, NoticeSize("closing", 0)))

StdinQuit(e) ==
    /\ StdinEvent(e)
    /\ server_closing' = TRUE
    /\ screen' = Append(screen, ClosingNotice.says)
    /\ LET told == Broadcast(conn, None, ClosingNotice)
       IN  /\ conn' = Broadcast(told, None, CloseMessage)
           /\ interest' = Watch(interest, Recipients(told, None), WriteOnly)
    /\ pc' = IF all_connection_buffers_empty(conn') THEN "cleanup" ELSE pc

-----------------------------------------------------------------------------
server_cleanup ==
    /\ pc = "cleanup"
    /\ conn' = [c \in Conn |-> NoConnection]
    /\ interest' = [c \in Conn |-> {}]
    /\ CloseSockets({c \in Conn : Linked(c)})
    /\ batch' = {} /\ reader' = None
    /\ pc' = "exited"
    /\ UNCHANGED <<wire, remoteVars, server_closing, screen, userVars>>

AcceptNext ==
    \/ \E e \in batch : handle_accept_client_connection_event(e)
    \/ \E c \in Conn : AcceptOne(c) \/ AcceptAborted(c) \/ AcceptNotWatched(c)
    \/ AcceptDone
    \/ AcceptWithoutDescriptor

HandshakeNext(e, c) ==
    HelloIncomplete(e, c) \/ HelloRejected(e, c) \/ HelloAccepted(e, c)

ReadNext(e, c) == ReadFails(e, c) \/ ReadInput(e, c)

ParseNext(c) == ParseNothing(c) \/ ParseRejects(c) \/ ParseLeave(c) \/ ParseChat(c)

WriteNext(e, c) ==
    SendFails(e, c) \/ SendPartial(e, c) \/ SendHelloDone(e, c) \/ SendDone(e, c)

StdinNext(e) ==
    StdinEof(e) \/ StdinIgnored(e) \/ StdinChat(e) \/ StdinQuit(e)

ServerNext ==
    \/ epoll_wait
    \/ \E e \in batch : SkipEvent(e)
    \/ EndOfBatch
    \/ AcceptNext
    \/ \E e \in batch, c \in Conn : HandshakeNext(e, c)
    \/ \E e \in batch, c \in Conn : ReadNext(e, c)
    \/ \E c \in Conn : ParseNext(c)
    \/ \E e \in batch, c \in Conn : WriteNext(e, c)
    \/ \E e \in batch : StdinNext(e)
    \/ server_cleanup

(* Remote programs; the listening socket is closed when the server exits.   *)
NetworkNext ==
    /\ pc # "exited"
    /\ \E c \in Conn : RemoteConnect(c) \/ RemoteNext(c)
    /\ UNCHANGED serverVars

Next == ServerNext \/ NetworkNext

Spec == Init /\ [][Next]_vars

(* The server's thread is never preempted for ever, and the programs of     *)
(* Readers go on reading what they are sent.                                *)
FairSpec ==
    /\ Spec
    /\ WF_vars(ServerNext)
    /\ \A c \in Readers : WF_vars(RemoteRead(c) /\ UNCHANGED serverVars)
=============================================================================
