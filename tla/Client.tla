------------------------------- MODULE Client -------------------------------
(***************************************************************************)
(* The chat client (src/src/client/client.cpp with the connecting half of  *)
(* src/src/connection/connection.cpp): one thread that waits for events of *)
(* its socket and of its terminal and handles them one after the other.    *)
(*                                                                         *)
(* client[c] is the program that owns the remote end of TCP connection c   *)
(* of Sockets: what the server writes appears in wire[c], what the client  *)
(* writes in arrived[c].  pc is the place of its thread: before connect()  *)
(* ("start"), blocked in epoll_wait ("wait"), in the loop over the events  *)
(* ("dispatch"), or gone ("exited").  The last part of the module is an    *)
(* arbitrary server; the module Chatroom puts the real one in its place.   *)
(***************************************************************************)
EXTENDS Sockets, FiniteSets, Selection

CONSTANTS
    Interruptible,  \* whether reads and writes may stop early (EINTR, or a
                    \* read inside a frame)
    NameSizes,      \* lengths of the names the user may choose
    TypedSizes,     \* lengths of the lines the user may type
    MaxTyped,       \* bound: lines the user types
    Replies,        \* [type, size] of the frames an arbitrary server may send
    MaxReplies      \* bound: frames it sends

ASSUME ClientAssumption ==
    /\ Interruptible \in BOOLEAN
    /\ NameSizes \subseteq Nat \ {0} /\ NameSizes # {}
    /\ TypedSizes \subseteq Nat
    /\ MaxTyped \in Nat
    /\ Replies \subseteq [type : MessageType, size : Nat]
    /\ MaxReplies \in Nat

VARIABLES
    client,     \* the programs
    hangup      \* how the end of the stream reached c: not, "fin", or "rst",
                \* which is also how a refused connection looks

clientVars == <<client, hangup>>
vars       == <<sockVars, clientVars>>

-----------------------------------------------------------------------------
(* Data.                                                                    *)

(* Before connect() a client has no Connection: state "NONE".  A client     *)
(* that has exited keeps the state in which it ended.                       *)
ConnectionState == {"NONE", "CONNECTING", "SENDING_CLIENT_HELLO",
                    "WAITING_FOR_SERVER_HELLO", "ACTIVE", "CLOSED",
                    "CONNECTION_ERROR"}

EpollFlag == {"EPOLLIN", "EPOLLOUT", "EPOLLRDHUP", "EPOLLHUP", "EPOLLERR"}
ReadOnly  == {"EPOLLIN", "EPOLLRDHUP"}
ReadWrite == {"EPOLLIN", "EPOLLOUT", "EPOLLRDHUP"}
WriteOnly == {"EPOLLOUT", "EPOLLRDHUP"}

Event == [fd : {"socket", "stdin"}, flags : SUBSET EpollFlag]

(* shown is what the user sees of the conversation: his own lines and the   *)
(* broadcasts.  bytes_written counts whole frames.                          *)
Program == [pc            : {"start", "wait", "dispatch", "exited"},
            state         : ConnectionState,
            quitting      : BOOLEAN,
            name          : Nat,
            out_buffer    : Seq(Msg),
            bytes_written : Nat,
            interest      : SUBSET EpollFlag,
            batch         : SUBSET Event,
            shown         : Seq(Utterance(Speaker)),
            typed         : Nat]

ClientTypeOK ==
    /\ SocketsTypeOK
    /\ client \in [Conn -> Program]
    /\ hangup \in [Conn -> {"none", "fin", "rst"}]

(* The user has answered the questions of client_init.                      *)
ClientInit ==
    /\ \E names \in [Conn -> NameSizes] :
         client = [c \in Conn |->
           [pc |-> "start", state |-> "NONE", quitting |-> FALSE, name |-> names[c],
            out_buffer |-> <<>>, bytes_written |-> 0, interest |-> {},
            batch |-> {}, shown |-> <<>>, typed |-> 0]]
    /\ hangup = [c \in Conn |-> "none"]

Exited(c)  == client[c].pc = "exited"
Pending(c) == Len(client[c].out_buffer) - client[c].bytes_written

Hello(c)    == [type |-> "CLIENT_HELLO", size |-> client[c].name,
                says |-> [who |-> c, what |-> "name", n |-> 0]]
Goodbye(c)  == [type |-> "CLOSE_CON", size |-> 0,
                says |-> [who |-> c, what |-> "nothing", n |-> 0]]
Chat(c, size) == [type |-> "CHAT", size |-> size,
                  says |-> [who |-> c, what |-> "chat", n |-> client[c].typed + 1]]

-----------------------------------------------------------------------------
(* What the kernel does with the client's socket.                           *)

(* Frames the send buffer still accepts; a closed server accepts all.       *)
OutRoom(c) == SocketBuf - Len(arrived[c])

Unread(c) == Len(wire[c]) - taken[c]

(* The readiness of the client's socket.  A refused connect() reports an    *)
(* error together with everything else.                                     *)
SocketReadiness(c) ==
    {f \in {"EPOLLIN"}              : Unread(c) > 0 \/ hangup[c] # "none"} \cup
    {f \in {"EPOLLRDHUP"}           : hangup[c] # "none"}                  \cup
    {f \in {"EPOLLHUP", "EPOLLERR"} : hangup[c] = "rst"}                   \cup
    {f \in {"EPOLLOUT"}             : \/ hangup[c] = "rst"
                                      \/ tcp[c] # "none" /\ OutRoom(c) > 0}

(* close() with so many unread frames: input that was not read makes the    *)
(* kernel reset the connection.                                             *)
CloseEnd(c, unread) ==
    /\ fin' = [fin EXCEPT ![c] = @ \/ (Linked(c) /\ unread = 0)]
    /\ rst' = [rst EXCEPT ![c] = @ \/ (Linked(c) /\ unread > 0)]

(* The program ends, leaving its connection in the state st.                *)
Leave(c, st) ==
    client' = [client EXCEPT ![c].pc = "exited", ![c].state = st, ![c].batch = {}]

-----------------------------------------------------------------------------
(* Connecting: client_connect_to_server and the start of the event loop.    *)

Starting(c) == client[c].pc = "start"

(* EINPROGRESS.                                                             *)
ConnectLater(c) ==
    /\ Starting(c)
    /\ client' = [client EXCEPT ![c].pc = "wait", ![c].state = "CONNECTING",
                                ![c].interest = ReadWrite]
    /\ UNCHANGED <<sockVars, hangup>>

(* queue_client_hello and epoll_fd_mod, after a connect() that succeeded.   *)
QueueHello(c, batch) ==
    client' = [client EXCEPT ![c].pc = IF batch = {} THEN "wait" ELSE "dispatch",
                             ![c].batch = batch,
                             ![c].state = "SENDING_CLIENT_HELLO",
                             ![c].out_buffer = Append(@, Hello(c)),
                             ![c].interest = WriteOnly]

(* connect() succeeds at once.  A name that is too long ends the program.   *)
ConnectNow(c) ==
    /\ Starting(c) /\ tcp[c] = "none"
    /\ tcp' = [tcp EXCEPT ![c] = "queued"]
    /\ IF protocol_payload_length_is_legal(client[c].name)
       THEN QueueHello(c, {}) /\ UNCHANGED fin
       ELSE Leave(c, "CONNECTION_ERROR") /\ fin' = [fin EXCEPT ![c] = TRUE]
    /\ UNCHANGED <<arrived, rst, wire, taken, sent, hangup>>

ConnectFails(c) ==
    /\ Starting(c)
    /\ Leave(c, "NONE")
    /\ UNCHANGED <<sockVars, hangup>>

-----------------------------------------------------------------------------
(* epoll_wait and the loop over its events.                                 *)

SocketEvent(c) ==
    [fd |-> "socket",
     flags |-> SocketReadiness(c) \cap (client[c].interest \cup {"EPOLLHUP", "EPOLLERR"})]

StdinReady(c) == {e \in {[fd |-> "stdin", flags |-> {"EPOLLIN"}]} : client[c].typed < MaxTyped}

WaitForEvents(c) ==
    /\ client[c].pc = "wait"
    /\ \E typed \in SUBSET StdinReady(c) :
         LET ready == {e \in {SocketEvent(c)} : e.flags # {}} \cup typed
         IN  /\ ready # {}
             /\ client' = [client EXCEPT ![c].pc = "dispatch", ![c].batch = ready]
    /\ UNCHANGED <<sockVars, hangup>>

(* The events that are left once e is handled, and the place of the thread. *)
Rest(c, e)  == client[c].batch \ {e}
After(c, e) == IF Rest(c, e) = {} THEN "wait" ELSE "dispatch"

event_is_check_connection_success(c, e) ==
    /\ ~client[c].quitting
    /\ e.fd = "socket" /\ client[c].state = "CONNECTING"
    /\ e.flags \cap {"EPOLLIN", "EPOLLOUT", "EPOLLERR", "EPOLLHUP"} # {}

event_is_send_network_message_Active(c, e) ==
    /\ e.fd = "socket"
    /\ client[c].state \in {"SENDING_CLIENT_HELLO", "ACTIVE"}
    /\ client[c].out_buffer # <<>>
    /\ "EPOLLOUT" \in e.flags
event_is_send_network_message(c, e) ==
    /\ e.fd = "socket"
    /\ client[c].quitting \/ client[c].state \in {"SENDING_CLIENT_HELLO", "ACTIVE"}
    /\ client[c].out_buffer # <<>>
    /\ "EPOLLOUT" \in e.flags

event_is_read_network_message(c, e) ==
    /\ ~client[c].quitting
    /\ e.fd = "socket"
    /\ client[c].state \in {"WAITING_FOR_SERVER_HELLO", "ACTIVE"}
    /\ e.flags \cap {"EPOLLIN", "EPOLLRDHUP", "EPOLLHUP"} # {}
    /\ ~event_is_send_network_message(c, e)

event_is_read_stdin(c, e) ==
    ~client[c].quitting /\ e.fd = "stdin" /\ "EPOLLIN" \in e.flags

Dispatched(c, e) == client[c].pc = "dispatch" /\ e \in client[c].batch

(* None of the handlers takes the event.                                    *)
SkipEvent(c, e) ==
    /\ Dispatched(c, e)
    /\ ~event_is_check_connection_success(c, e)
    /\ ~event_is_send_network_message(c, e)
    /\ ~event_is_read_network_message(c, e)
    /\ ~event_is_read_stdin(c, e)
    /\ client' = [client EXCEPT ![c].pc = After(c, e), ![c].batch = Rest(c, e)]
    /\ UNCHANGED <<sockVars, hangup>>

-----------------------------------------------------------------------------
(* handle_connection_success_event.                                         *)

CheckConnection(c, e) ==
    /\ Dispatched(c, e)
    /\ event_is_check_connection_success(c, e)
    /\ UNCHANGED <<tcp, arrived, wire, taken, sent, hangup>>

(* SO_ERROR is set, or the hello is refused for its length.                 *)
ConnectionRefused(c, e) ==
    /\ CheckConnection(c, e)
    /\ hangup[c] = "rst" \/ ~protocol_payload_length_is_legal(client[c].name)
    /\ Leave(c, "CONNECTION_ERROR")
    /\ CloseEnd(c, Unread(c))

ConnectionMade(c, e) ==
    /\ CheckConnection(c, e)
    /\ hangup[c] # "rst" /\ protocol_payload_length_is_legal(client[c].name)
    /\ QueueHello(c, Rest(c, e))
    /\ UNCHANGED <<fin, rst>>

-----------------------------------------------------------------------------
(* handle_send_network_message_event.                                       *)

SendEvent(c, e) ==
    /\ Dispatched(c, e)
    /\ event_is_send_network_message(c, e)
    /\ UNCHANGED <<tcp, wire, taken>>

SendFails(c, e) ==
    /\ SendEvent(c, e) /\ hangup[c] = "rst"
    /\ Leave(c, "CONNECTION_ERROR")
    /\ CloseEnd(c, Unread(c))
    /\ UNCHANGED <<arrived, sent, hangup>>

(* send() took k frames.  The kernel of a server that has closed its end    *)
(* answers them with a reset.                                               *)
Sends(c, k) ==
    /\ hangup[c] # "rst"
    /\ sent' = [sent EXCEPT ![c] = @ + k]
    /\ IF Linked(c)
       THEN /\ arrived' = [arrived EXCEPT ![c] = @ \o
                 SubSeq(client[c].out_buffer, client[c].bytes_written + 1,
                        client[c].bytes_written + k)]
            /\ UNCHANGED hangup
       ELSE /\ hangup' \in {hangup, [hangup EXCEPT ![c] = "rst"]}
            /\ UNCHANGED arrived

Written_Uncounted(program, k) == program
Written(program, k) == [program EXCEPT !.bytes_written = @ + k]

SendPartial(c, e) ==
    /\ SendEvent(c, e)
    /\ \E k \in 0 .. Pending(c) - 1 :
         /\ k <= OutRoom(c)
         /\ k = 0 => Interruptible \/ OutRoom(c) = 0
         /\ Sends(c, k)
         /\ client' = [client EXCEPT
              ![c] = [Written(@, k) EXCEPT !.pc = After(c, e), !.batch = Rest(c, e)]]
    /\ UNCHANGED <<fin, rst>>

SendAll(c, e) ==
    /\ SendEvent(c, e)
    /\ Pending(c) <= OutRoom(c)
    /\ Sends(c, Pending(c))

(* The state in which a complete flush leaves the connection.               *)
Greeted_Swapped(state) ==
    IF state = "SENDING_CLIENT_HELLO" THEN "WAITING_FOR_CLIENT_HELLO" ELSE state
Greeted(state) ==
    IF state = "SENDING_CLIENT_HELLO" THEN "WAITING_FOR_SERVER_HELLO" ELSE state

Flushed_NotRewound(program) == [program EXCEPT !.out_buffer = <<>>]
Flushed(program) == [program EXCEPT !.out_buffer = <<>>, !.bytes_written = 0]

(* Everything is out: the hello is answered next, or the client waits for   *)
(* the next line.                                                           *)
SendDone(c, e) ==
    /\ SendAll(c, e)
    /\ ~client[c].quitting
    /\ client' = [client EXCEPT
         ![c] = [Flushed(@) EXCEPT !.pc = After(c, e), !.batch = Rest(c, e),
                                   !.interest = ReadOnly,
                                   !.state = Greeted(client[c].state)]]
    /\ UNCHANGED <<fin, rst>>

(* shutdown(SHUT_WR), and the program ends.                                 *)
SendGoodbye(c, e) ==
    /\ SendAll(c, e)
    /\ client[c].quitting
    /\ client' = [client EXCEPT
         ![c] = [Flushed(@) EXCEPT !.pc = "exited", !.batch = {}]]
    /\ fin' = [fin EXCEPT ![c] = @ \/ Linked(c)]
    /\ UNCHANGED rst

-----------------------------------------------------------------------------
(* handle_read_network_message_event: all there is is read, then every      *)
(* frame is handled.                                                        *)

ReadSizes(c) == IF Interruptible THEN 0 .. Unread(c) ELSE {Unread(c)}
Input(c, k)  == SubSeq(wire[c], taken[c] + 1, taken[c] + k)

(* recv() returned 0 behind the k frames.                                   *)
Eof_Ignored(c, k) == FALSE
Eof(c, k) == hangup[c] = "fin" /\ k = Unread(c)

(* The type handle_network_message asks of the i-th frame of one read.      *)
Expected_NoHandshake(c, i) == "BROADCAST"
Expected(c, i) ==
    IF i = 1 /\ client[c].state = "WAITING_FOR_SERVER_HELLO"
    THEN "SERVER_HELLO" ELSE "BROADCAST"

(* The frames on which the loop ends the program.  Once the end of the      *)
(* stream was read the state is CLOSED, in which no frame is expected.      *)
Stops(c, k) ==
    {i \in 1 .. k : \/ Eof(c, k)
                    \/ ~protocol_payload_length_is_legal(Input(c, k)[i].size)
                    \/ Input(c, k)[i].type # Expected(c, i)}

Prints_One(c, frames) ==
    LET told == Only(frames, Broadcasts)
    IN  IF told = <<>> THEN client[c].shown ELSE Append(client[c].shown, told[1].says)
Prints(c, frames) == client[c].shown \o Says(Only(frames, Broadcasts))

ReadEvent(c, e) ==
    /\ Dispatched(c, e)
    /\ event_is_read_network_message(c, e)
    /\ UNCHANGED <<tcp, arrived, wire, sent, hangup>>

Reads(c, k) == taken' = [taken EXCEPT ![c] = @ + k]

ReadFails(c, e) ==
    /\ ReadEvent(c, e) /\ hangup[c] = "rst"
    /\ Leave(c, "CONNECTION_ERROR")
    /\ CloseEnd(c, Unread(c))
    /\ UNCHANGED taken

(* Every frame is expected.  The first of all makes the client active.      *)
ReadFrames(c, e) ==
    /\ ReadEvent(c, e) /\ hangup[c] # "rst"
    /\ \E k \in ReadSizes(c) :
         /\ Stops(c, k) = {} /\ ~Eof(c, k)
         /\ Reads(c, k)
         /\ client' = [client EXCEPT
              ![c].pc = After(c, e), ![c].batch = Rest(c, e),
              ![c].state = IF k > 0 THEN "ACTIVE" ELSE @,
              ![c].shown = Prints(c, Input(c, k))]
    /\ UNCHANGED <<fin, rst>>

(* A frame, or the end of the stream behind no frame, ends the program.     *)
(* Only a CLOSE_CON that comes by itself is a good end.                     *)
ReadEnds(c, e) ==
    /\ ReadEvent(c, e) /\ hangup[c] # "rst"
    /\ \E k \in ReadSizes(c) :
         /\ Reads(c, k)
         /\ CloseEnd(c, Unread(c) - k)
         /\ \/ k = 0 /\ Eof(c, k) /\ Leave(c, "CLOSED")
            \/ \E i \in Stops(c, k) :
                 /\ \A j \in Stops(c, k) : i <= j
                 /\ client' = [client EXCEPT
                      ![c].pc = "exited", ![c].batch = {},
                      ![c].state =
                        IF /\ ~Eof(c, k) /\ Expected(c, i) = "BROADCAST"
                           /\ Input(c, k)[i].type = "CLOSE_CON"
                           /\ Input(c, k)[i].size = 0
                        THEN "CLOSED" ELSE "CONNECTION_ERROR",
                      ![c].shown = Prints(c, Input(c, i - 1))]

-----------------------------------------------------------------------------
(* handle_read_stdin_event.                                                 *)

StdinEvent(c, e) ==
    /\ Dispatched(c, e)
    /\ event_is_read_stdin(c, e)
    /\ UNCHANGED <<tcp, arrived, wire, taken, sent, hangup>>

(* The end of the user's input, or "/quit" before the connection is made.   *)
StdinLeaves(c, e) ==
    /\ StdinEvent(c, e)
    /\ Leave(c, client[c].state)
    /\ CloseEnd(c, Unread(c))

(* The line is handled and the loop goes on.                                *)
Typed_Unwatched(c, e, events) ==
    [client EXCEPT ![c].pc = After(c, e), ![c].batch = Rest(c, e),
                   ![c].typed = @ + 1]
Typed(c, e, events) ==
    [client EXCEPT ![c].pc = After(c, e), ![c].batch = Rest(c, e),
                   ![c].typed = @ + 1, ![c].interest = events]

(* An empty line, one that is too long, or one typed before the room has    *)
(* been entered.                                                            *)
StdinIgnored(c, e) ==
    /\ StdinEvent(c, e)
    /\ \E size \in TypedSizes :
         \/ size = 0 \/ ~protocol_payload_length_is_legal(size)
         \/ client[c].state # "ACTIVE"
    /\ client' = Typed(c, e, client[c].interest)
    /\ UNCHANGED <<fin, rst>>

StdinChat(c, e) ==
    /\ StdinEvent(c, e)
    /\ client[c].state = "ACTIVE"
    /\ \E size \in TypedSizes :
         /\ size > 0 /\ protocol_payload_length_is_legal(size)
         /\ client' = [Typed(c, e, ReadWrite) EXCEPT
                         ![c].out_buffer = Append(@, Chat(c, size)),
                         ![c].shown = Append(@, Chat(c, size).says)]
    /\ UNCHANGED <<fin, rst>>

(* handle_quit_command.                                                     *)
StdinQuit(c, e) ==
    /\ StdinEvent(c, e)
    /\ client[c].state # "CONNECTING"
    /\ client' = [Typed(c, e, WriteOnly) EXCEPT
                    ![c].out_buffer = Append(@, Goodbye(c)),
                    ![c].quitting = TRUE]
    /\ UNCHANGED <<fin, rst>>

-----------------------------------------------------------------------------
(* The network between the two programs.                                    *)

(* The handshake of a connect() that was in progress completes, or fails.   *)
Connecting(c) ==
    client[c].pc # "exited" /\ client[c].state = "CONNECTING" /\ hangup[c] = "none"

Established(c) ==
    /\ Connecting(c) /\ RemoteConnect(c)
    /\ UNCHANGED clientVars

Refused(c) ==
    /\ Connecting(c) /\ tcp[c] = "none"
    /\ hangup' = [hangup EXCEPT ![c] = "rst"]
    /\ UNCHANGED <<sockVars, client>>

(* What reaches a closed socket is answered with a reset.                   *)
AnsweredByReset(c) ==
    /\ Exited(c) /\ Linked(c) /\ ~rst[c] /\ Unread(c) > 0
    /\ rst' = [rst EXCEPT ![c] = TRUE]
    /\ UNCHANGED <<tcp, arrived, fin, wire, taken, sent, clientVars>>

ConnectNext(c) == ConnectNow(c) \/ ConnectLater(c) \/ ConnectFails(c)

SendNext(c, e) ==
    SendFails(c, e) \/ SendPartial(c, e) \/ SendDone(c, e) \/ SendGoodbye(c, e)

ReadNext(c, e) == ReadFails(c, e) \/ ReadFrames(c, e) \/ ReadEnds(c, e)

StdinNext(c, e) ==
    StdinLeaves(c, e) \/ StdinIgnored(c, e) \/ StdinChat(c, e) \/ StdinQuit(c, e)

(* client_event_loop.                                                       *)
LoopNext(c) ==
    \/ WaitForEvents(c)
    \/ \E e \in client[c].batch :
         \/ SkipEvent(c, e)
         \/ ConnectionRefused(c, e) \/ ConnectionMade(c, e)
         \/ SendNext(c, e)
         \/ ReadNext(c, e)
         \/ StdinNext(c, e)

ClientNext(c) == ConnectNext(c) \/ LoopNext(c)

NetworkNext(c) == Established(c) \/ Refused(c) \/ AnsweredByReset(c)

-----------------------------------------------------------------------------
(* An arbitrary server.                                                     *)

ServerSends(c) ==
    /\ Linked(c) /\ hangup[c] = "none" /\ ~rst[c]
    /\ Len(wire[c]) < MaxReplies /\ Unread(c) < SocketBuf
    /\ \E f \in Replies :
         wire' = [wire EXCEPT ![c] = Append(@,
            [type |-> f.type, size |-> f.size,
             says |-> [who |-> Host, what |-> TopicOf(f.type), n |-> Len(@) + 1]])]
    /\ UNCHANGED <<tcp, arrived, fin, rst, taken, sent, clientVars>>

ServerReads(c) ==
    /\ Linked(c) /\ arrived[c] # <<>>
    /\ arrived' = [arrived EXCEPT ![c] = Tail(@)]
    /\ UNCHANGED <<tcp, fin, rst, wire, taken, sent, clientVars>>

(* How the end of the server's socket looks to the client: what the server  *)
(* has not read makes its kernel reset the connection.                      *)
EndOf(c) == IF arrived[c] # <<>> THEN "rst" ELSE "fin"

ServerCloses(c) ==
    /\ Linked(c)
    /\ CloseSockets({c})
    /\ \E end \in {EndOf(c), "rst"} : hangup' = [hangup EXCEPT ![c] = end]
    /\ UNCHANGED <<fin, rst, wire, taken, sent, client>>

ServerNext(c) == ServerSends(c) \/ ServerReads(c) \/ ServerCloses(c)

-----------------------------------------------------------------------------
Init == SocketsInit /\ ClientInit

Next == \E c \in Conn : ClientNext(c) \/ NetworkNext(c) \/ ServerNext(c)

Spec == Init /\ [][Next]_vars

(* Reads and writes that no signal cuts short.                              *)
ReadsAll(c) ==
    \E e \in client[c].batch : ReadNext(c, e) /\ taken'[c] = Len(wire[c])

WritesAll(c) ==
    \E e \in client[c].batch :
        SendNext(c, e) /\ sent'[c] - sent[c] \in {Pending(c), OutRoom(c)}

(* The client's thread runs on when it can and is not interrupted in every  *)
(* call, and a server that has not closed the connection goes on reading.   *)
FairSpec ==
    /\ Spec
    /\ \A c \in Conn :
         /\ WF_vars(ClientNext(c)) /\ WF_vars(ServerReads(c))
         /\ SF_vars(ReadsAll(c))   /\ SF_vars(WritesAll(c))
=============================================================================
