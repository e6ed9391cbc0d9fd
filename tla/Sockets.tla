------------------------------ MODULE Sockets -------------------------------
(***************************************************************************)
(* The operating system's side of the server: the TCP connections that     *)
(* remote programs open to it.  None of this code is in the repository; it *)
(* is modelled from the system calls src/src/connection/connection.cpp and *)
(* src/src/server/server.cpp make and from the errno values they test.     *)
(*                                                                         *)
(* An element of Conn is one TCP connection from its arrival to its end,   *)
(* so a descriptor number can be reused while a Conn never is.             *)
(*                                                                         *)
(* The remote program is arbitrary: it sends any frame of Frames in any    *)
(* order, may shut its sending side down, may die or close with unread     *)
(* data (a RST reaches the server), and reads when it likes.               *)
(***************************************************************************)
EXTENDS Protocol

CONSTANTS
    Conn,       \* TCP connections that may be opened to the server
    Host,       \* the speaker that stands for the server's own user
    Frames,     \* [type, size] of the frames a remote program may send
    Hangups,    \* how a remote end may go away: "fin" (in good order), "rst"
    MaxFrames,  \* bound: frames a remote program sends on one connection
    SocketBuf   \* bound: frames the kernel buffers in one direction

Speaker == Conn \cup {Host}
Msg     == Message(Speaker)

(* The frames that carry what is said in the room, and the utterances that  *)
(* are lines somebody typed.                                                *)
Broadcasts   == {m \in Msg : m.type = "BROADCAST"}
ChatLines(c) == [who : {c}, what : {"chat"}, n : Nat]

ASSUME SocketsAssumption ==
    /\ Host \notin Conn
    /\ Frames \subseteq [type : MessageType, size : Nat]
    /\ Hangups \subseteq {"fin", "rst"}
    /\ MaxFrames \in Nat
    /\ SocketBuf \in Nat \ {0}

VARIABLES
    tcp,      \* the server's end: not opened, in the accept queue, accepted, closed
    arrived,  \* received by the kernel, not yet read by the server
    fin,      \* the remote end has shut its sending side down
    rst,      \* the connection was reset by the remote end
    wire,     \* every frame the kernel has taken from the server's send()
    taken,    \* how many frames of wire the remote program has read
    sent      \* how many frames the remote program has sent

remoteVars == <<fin, rst, taken, sent>>
sockVars   == <<tcp, arrived, fin, rst, wire, taken, sent>>

SocketsTypeOK ==
    /\ tcp     \in [Conn -> {"none", "queued", "accepted", "closed"}]
    /\ arrived \in [Conn -> Seq(Msg)]
    /\ fin     \in [Conn -> BOOLEAN]
    /\ rst     \in [Conn -> BOOLEAN]
    /\ wire    \in [Conn -> Seq(Msg)]
    /\ taken   \in [Conn -> Nat]
    /\ sent    \in [Conn -> Nat]

SocketsInit ==
    /\ tcp     = [c \in Conn |-> "none"]
    /\ arrived = [c \in Conn |-> <<>>]
    /\ fin     = [c \in Conn |-> FALSE]
    /\ rst     = [c \in Conn |-> FALSE]
    /\ wire    = [c \in Conn |-> <<>>]
    /\ taken   = [c \in Conn |-> 0]
    /\ sent    = [c \in Conn |-> 0]

-----------------------------------------------------------------------------
(* What the kernel answers to send() and to epoll_wait().                   *)

(* Frames the send buffer of c still accepts.                               *)
SendRoom(c) == SocketBuf - (Len(wire[c]) - taken[c])

(* The readiness of a socket, as tcp_poll() reports it.                     *)
Readiness(c) ==
    {f \in {"EPOLLIN"}    : arrived[c] # <<>> \/ fin[c] \/ rst[c]} \cup
    {f \in {"EPOLLRDHUP"} : fin[c] \/ rst[c]}                      \cup
    {f \in {"EPOLLHUP"}   : rst[c]}                                \cup
    {f \in {"EPOLLOUT"}   : SendRoom(c) > 0 \/ rst[c]}

Linked(c) == tcp[c] \in {"queued", "accepted"}

(* Whether recv() still returns what has arrived: always, unless the        *)
(* connection was reset, and also then when the end of the stream had come  *)
(* in before the reset, on Linux; elsewhere the error comes first.          *)
Readable(c) == rst[c] => fin[c]

(* close(): what the server has not read is lost.                           *)
CloseSockets(cs) ==
    /\ tcp'     = [c \in Conn |-> IF c \in cs THEN "closed" ELSE tcp[c]]
    /\ arrived' = [c \in Conn |-> IF c \in cs THEN <<>> ELSE arrived[c]]

-----------------------------------------------------------------------------
(* The remote programs.                                                     *)

(* The three-way handshake completes: c waits in the accept queue.          *)
RemoteConnect(c) ==
    /\ tcp[c] = "none"
    /\ tcp' = [tcp EXCEPT ![c] = "queued"]
    /\ UNCHANGED <<arrived, fin, rst, wire, taken, sent>>

TopicOf(type) ==
    CASE type \in {"CLIENT_HELLO", "SERVER_HELLO"} -> "name"
      [] type = "CLOSE_CON"                        -> "nothing"
      [] OTHER                                     -> "chat"

RemoteSend(c) ==
    /\ Linked(c) /\ ~fin[c] /\ ~rst[c]
    /\ sent[c] < MaxFrames
    /\ Len(arrived[c]) < SocketBuf
    /\ \E f \in Frames :
         arrived' = [arrived EXCEPT ![c] = Append(@,
            [type |-> f.type, size |-> f.size,
             says |-> [who |-> c, what |-> TopicOf(f.type), n |-> sent[c] + 1]])]
    /\ sent' = [sent EXCEPT ![c] = @ + 1]
    /\ UNCHANGED <<tcp, fin, rst, wire, taken>>

RemoteShutdown(c) ==
    /\ "fin" \in Hangups
    /\ Linked(c) /\ ~fin[c] /\ ~rst[c]
    /\ fin' = [fin EXCEPT ![c] = TRUE]
    /\ UNCHANGED <<tcp, arrived, rst, wire, taken, sent>>

RemoteReset(c) ==
    /\ "rst" \in Hangups
    /\ Linked(c) /\ ~rst[c]
    /\ rst' = [rst EXCEPT ![c] = TRUE]
    /\ UNCHANGED <<tcp, arrived, fin, wire, taken, sent>>

(* What is read once the server has closed its end changes nothing for it.  *)
RemoteRead(c) ==
    /\ Linked(c) /\ ~rst[c]
    /\ taken[c] < Len(wire[c])
    /\ taken' = [taken EXCEPT ![c] = @ + 1]
    /\ UNCHANGED <<tcp, arrived, fin, rst, wire, sent>>

RemoteNext(c) ==
    \/ RemoteSend(c)
    \/ RemoteShutdown(c)
    \/ RemoteReset(c)
    \/ RemoteRead(c)
=============================================================================
