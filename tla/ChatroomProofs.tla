--------------------------- MODULE ChatroomProofs ---------------------------
(***************************************************************************)
(* Proofs about the two programs together: the screens of all programs     *)
(* show one conversation, the lines of a client arrive, and neither program*)
(* finds fault with the other, whatever the names, the lines, the buffers  *)
(* and the interleaving are.                                               *)
(***************************************************************************)
EXTENDS Chatroom, ServerRoomProofs

(* The clients, with what was proved about them for every server.           *)
CP == INSTANCE ClientProofs WITH Replies <- {}, MaxReplies <- 0

-----------------------------------------------------------------------------
(* The definitions of the two instances and of this module are the same.    *)
LEMMA Assumptions == CP!ClientAssumption /\ CP!SocketsAssumption
  BY ChatroomAssumption, ServerAssumption, SocketsAssumption
     DEF CP!ClientAssumption, CP!SocketsAssumption, CP!MessageType, MessageType

LEMMA SameWords ==
    /\ CP!Speaker = Speaker /\ CP!Msg = Msg /\ CP!Broadcasts = Broadcasts
    /\ CP!Utterance(Speaker) = Utterance(Speaker)
    /\ \A c : CP!ChatLines(c) = ChatLines(c) /\ CP!Linked(c) = Linked(c)
    /\ \A s, S : CP!Only(s, S) = Only(s, S)
    /\ \A s : CP!Says(s) = Says(s)
    /\ \A n : CP!protocol_payload_length_is_legal(n) = protocol_payload_length_is_legal(n)
    /\ CP!SocketsTypeOK <=> SocketsTypeOK
    /\ CP!SocketsInit <=> SocketsInit
  BY DEF
     MessageType, CP!MessageType, MAX_PAYLOAD_SIZE, CP!MAX_PAYLOAD_SIZE,
     protocol_payload_length_is_legal, CP!protocol_payload_length_is_legal,
     Topic, CP!Topic, Utterance, CP!Utterance, Message, CP!Message, Speaker,
     CP!Speaker, Msg, CP!Msg, Broadcasts, CP!Broadcasts, ChatLines,
     CP!ChatLines, Linked, CP!Linked, Only, CP!Only, Says, CP!Says,
     SocketsTypeOK, CP!SocketsTypeOK, SocketsInit, CP!SocketsInit

LEMMA SameClient ==
    /\ Client!ClientInit => CP!ClientInit
    /\ \A c : Client!Exited(c) <=> CP!Exited(c)
  BY DEF Client!ClientInit, CP!ClientInit, Client!Exited, CP!Exited

LEMMA SameLists ==
    ASSUME NEW c, NEW s, NEW t
    PROVE  /\ Client!Own(c) = CP!Own(c) /\ Client!Others(c) = CP!Others(c)
           /\ Client!IsPrefix(s, t) <=> CP!IsPrefix(s, t)
  BY DEF
     Client!Topic, CP!Topic, Client!Utterance, CP!Utterance, Client!Speaker,
     CP!Speaker, Client!ChatLines, CP!ChatLines, Client!Only, CP!Only,
     Client!Own, CP!Own, Client!Others, CP!Others, Client!IsPrefix, CP!IsPrefix

LEMMA SameProgram ==
    ASSUME NEW c \in Conn, Client!ClientNext(c)
    PROVE  CP!ClientNext(c)
  BY ZenonT(60) DEF
     Client!MessageType, CP!MessageType, Client!MAX_PAYLOAD_SIZE,
     CP!MAX_PAYLOAD_SIZE, Client!protocol_payload_length_is_legal,
     CP!protocol_payload_length_is_legal, Client!Topic, CP!Topic,
     Client!Utterance, CP!Utterance, Client!Message, CP!Message,
     Client!Speaker, CP!Speaker, Client!Msg, CP!Msg, Client!Broadcasts,
     CP!Broadcasts, Client!sockVars, CP!sockVars, Client!Linked, CP!Linked,
     Client!Only, CP!Only, Client!Says, CP!Says, Client!ReadOnly, CP!ReadOnly,
     Client!ReadWrite, CP!ReadWrite, Client!WriteOnly, CP!WriteOnly,
     Client!Pending, CP!Pending, Client!Hello, CP!Hello, Client!Goodbye,
     CP!Goodbye, Client!Chat, CP!Chat, Client!OutRoom, CP!OutRoom,
     Client!Unread, CP!Unread, Client!SocketReadiness, CP!SocketReadiness,
     Client!CloseEnd, CP!CloseEnd, Client!Leave, CP!Leave, Client!Starting,
     CP!Starting, Client!ConnectLater, CP!ConnectLater, Client!QueueHello,
     CP!QueueHello, Client!ConnectNow, CP!ConnectNow, Client!ConnectFails,
     CP!ConnectFails, Client!SocketEvent, CP!SocketEvent, Client!StdinReady,
     CP!StdinReady, Client!WaitForEvents, CP!WaitForEvents, Client!Rest,
     CP!Rest, Client!After, CP!After, Client!event_is_check_connection_success,
     CP!event_is_check_connection_success,
     Client!event_is_send_network_message, CP!event_is_send_network_message,
     Client!event_is_read_network_message, CP!event_is_read_network_message,
     Client!event_is_read_stdin, CP!event_is_read_stdin, Client!Dispatched,
     CP!Dispatched, Client!SkipEvent, CP!SkipEvent, Client!CheckConnection,
     CP!CheckConnection, Client!ConnectionRefused, CP!ConnectionRefused,
     Client!ConnectionMade, CP!ConnectionMade, Client!SendEvent, CP!SendEvent,
     Client!SendFails, CP!SendFails, Client!Sends, CP!Sends, Client!Written,
     CP!Written, Client!SendPartial, CP!SendPartial, Client!SendAll,
     CP!SendAll, Client!Greeted, CP!Greeted, Client!Flushed, CP!Flushed,
     Client!SendDone, CP!SendDone, Client!SendGoodbye, CP!SendGoodbye,
     Client!ReadSizes, CP!ReadSizes, Client!Input, CP!Input, Client!Eof,
     CP!Eof, Client!Expected, CP!Expected, Client!Stops, CP!Stops,
     Client!Prints, CP!Prints, Client!ReadEvent, CP!ReadEvent, Client!Reads,
     CP!Reads, Client!ReadFails, CP!ReadFails, Client!ReadFrames,
     CP!ReadFrames, Client!ReadEnds, CP!ReadEnds, Client!StdinEvent,
     CP!StdinEvent, Client!StdinLeaves, CP!StdinLeaves, Client!Typed, CP!Typed,
     Client!StdinIgnored, CP!StdinIgnored, Client!StdinChat, CP!StdinChat,
     Client!StdinQuit, CP!StdinQuit, Client!ConnectNext, CP!ConnectNext,
     Client!SendNext, CP!SendNext, Client!ReadNext, CP!ReadNext,
     Client!StdinNext, CP!StdinNext, Client!LoopNext, CP!LoopNext,
     Client!ClientNext, CP!ClientNext

LEMMA SameNetwork ==
    ASSUME NEW c \in Conn, Client!NetworkNext(c)
    PROVE  CP!NetworkNext(c)
  BY DEF
     Client!sockVars, CP!sockVars, Client!Linked, CP!Linked,
     Client!RemoteConnect, CP!RemoteConnect, Client!clientVars, CP!clientVars,
     Client!Exited, CP!Exited, Client!Unread, CP!Unread, Client!Connecting,
     CP!Connecting, Client!Established, CP!Established, Client!Refused,
     CP!Refused, Client!AnsweredByReset, CP!AnsweredByReset,
     Client!NetworkNext, CP!NetworkNext

-----------------------------------------------------------------------------
(* The clients' steps, as the server sees them.                             *)

(* Nothing was said by the client c, or sent.                               *)
Fresh(c) ==
    CP!Own(c) = <<>> /\ CP!Unsent(c) = <<>> /\ sent[c] = 0 /\ arrived[c] = <<>>

(* A step of the client c, or of the network below it.                      *)
Moves(c) ==
    /\ UNCHANGED serverVars
    /\ \A d \in Conn : wire'[d] = wire[d]
    /\ \A d \in Conn \ {c} :
         /\ client'[d] = client[d] /\ hangup'[d] = hangup[d]
         /\ arrived'[d] = arrived[d] /\ sent'[d] = sent[d]
         /\ tcp'[d] = tcp[d] /\ fin'[d] = fin[d] /\ rst'[d] = rst[d]
    /\ Linked(c) => Linked(c)'
    /\ CP!Exited(c) => CP!Exited(c)'
    /\ client'[c].name = client[c].name
    /\ tcp'[c] # tcp[c] =>
         /\ Outside(c) /\ Outside(c)' /\ Fresh(c)
         /\ arrived'[c] = arrived[c] /\ sent'[c] = sent[c]
    /\ (fin'[c] = fin[c] /\ rst'[c] = rst[c]) \/ CP!Exited(c)'
    /\ hangup'[c] \in {hangup[c], "rst"}
    /\ \/ \E s \in Seq(Msg) : CP!Delivers(c, s) /\ (CP!Exited(c) => s = <<>>)
       \/ \E m \in Msg : CP!Queues(c, m)

(* The invariant of the clients.                                            *)
Clients == CP!ClientInv /\ \A c \in Conn : CP!Outgoing(c)

LEMMA Fields ==
    ASSUME Clients, NEW c \in Conn
    PROVE  /\ CP!ClientTypeOK /\ CP!Bounds(c) /\ CP!Stage(c) /\ CP!Outgoing(c)
           /\ CP!Own(c) \in Seq(Utterance(Speaker)) /\ CP!Unsent(c) \in Seq(Msg)
<1>1. CP!ClientTypeOK /\ CP!Bounds(c) /\ CP!Stage(c) /\ CP!Outgoing(c)
  BY DEF Clients, CP!ClientInv
<1>2. CP!Unsent(c) \in Seq(CP!Msg)  BY <1>1, Assumptions, CP!UnsentShape
<1>3. client[c].shown \in Seq(CP!Utterance(CP!Speaker))
  BY <1>1, Assumptions, CP!ClientTypes DEF CP!Program
<1>4. client[c].shown \in Seq(Utterance(Speaker))  BY <1>3, SameWords
<1>5. CP!Own(c) = Only(client[c].shown, ChatLines(c))  BY SameWords DEF CP!Own
<1>6. CP!Own(c) \in Seq(Utterance(Speaker))  BY <1>4, <1>5, OnlyType
<1> QED  BY <1>1, <1>2, <1>6, SameWords

LEMMA FreshIs ==
    ASSUME Clients, NEW c \in Conn, ~Linked(c),
           client[c].pc = "start" \/ (CP!Running(c) /\ client[c].state = "CONNECTING")
    PROVE  Fresh(c)
<1>1. /\ client[c].out_buffer = <<>> /\ client[c].bytes_written = 0
      /\ client[c].shown = <<>> /\ sent[c] = 0 /\ arrived[c] = <<>>
  BY Fields, SameWords DEF CP!Stage, CP!Bounds
<1>2. CP!Own(c) = <<>>  BY <1>1, SameWords, OnlyEmpty DEF CP!Own
<1>3. CP!Unsent(c) = SubSeq(<<>>, 1, 0)  BY <1>1 DEF CP!Unsent
<1>4. SubSeq(<<>>, 1, 0) = <<>>  OBVIOUS
<1> QED  BY <1>1, <1>2, <1>3, <1>4 DEF Fresh

LEMMA ClientsKept ==
    ASSUME Clients, NEW c \in Conn, CP!ClientNext(c) \/ CP!NetworkNext(c)
    PROVE  CP!ClientInv'
<1>1. CP!Next  BY DEF CP!Next
<1> QED  BY <1>1, Assumptions, CP!ClientInvStep DEF Clients

LEMMA ProgramMoves ==
    ASSUME Clients, NEW c \in Conn, ClientStep(c)
    PROVE  Moves(c) /\ Clients'
<1>1. CP!ClientNext(c) /\ UNCHANGED serverVars  BY SameProgram DEF ClientStep
<1>2. CP!ClientTypeOK /\ CP!Bounds(c) /\ CP!Stage(c) /\ CP!Outgoing(c)  BY Fields
<1>3. CP!ProgramStep(c)  BY <1>1, <1>2, Assumptions, CP!ProgramSteps
<1>4. ~CP!Exited(c) /\ CP!Ends(c)  BY <1>1, <1>2, Assumptions, CP!ClientEnds
<1>5. /\ CP!Outgoing(c)'
      /\ \/ \E s \in Seq(Msg) : CP!Delivers(c, s)
         \/ \E m \in Msg : CP!Queues(c, m)
  BY <1>1, <1>2, Assumptions, CP!Speech, SameWords DEF Clients
<1>6. \A d \in Conn : wire'[d] = wire[d]  BY <1>3, Assumptions, CP!ProgramListens
<1>7. \A d \in Conn \ {c} :
         /\ client'[d] = client[d] /\ hangup'[d] = hangup[d]
         /\ arrived'[d] = arrived[d] /\ sent'[d] = sent[d]
         /\ tcp'[d] = tcp[d] /\ fin'[d] = fin[d] /\ rst'[d] = rst[d]
  BY <1>3, <1>4 DEF CP!ProgramStep, CP!Alone, CP!UpSame, CP!Ends
<1>8. Linked(c) => Linked(c)'  BY <1>3 DEF CP!ProgramStep, CP!Linked, Linked
<1>9. ASSUME tcp'[c] # tcp[c]
      PROVE  /\ Outside(c) /\ Outside(c)' /\ Fresh(c)
             /\ arrived'[c] = arrived[c] /\ sent'[c] = sent[c]
  <2>1. /\ tcp[c] = "none" /\ tcp'[c] = "queued" /\ CP!UpSame(c)
        /\ client[c].pc = "start" \/ (CP!Running(c) /\ client[c].state = "CONNECTING")
    BY <1>4, <1>9 DEF CP!Ends
  <2>2. Fresh(c)  BY <2>1, FreshIs DEF Linked
  <2> QED  BY <2>1, <2>2 DEF Outside, CP!UpSame
<1>10. Moves(c)
  BY <1>1, <1>4, <1>5, <1>6, <1>7, <1>8, <1>9 DEF Moves, CP!Ends, CP!Exited
<1>11. \A d \in Conn \ {c} : CP!Outgoing(d)'
  BY <1>7 DEF Clients, CP!Outgoing, CP!Exited, CP!Proper
<1> QED  BY <1>1, <1>5, <1>10, <1>11, ClientsKept DEF Clients

LEMMA NetworkMoves ==
    ASSUME Clients, NEW c \in Conn, NetworkStep(c)
    PROVE  Moves(c) /\ Clients'
<1>1. CP!NetworkNext(c) /\ UNCHANGED serverVars  BY SameNetwork DEF NetworkStep
<1>2. CP!ClientTypeOK /\ CP!Bounds(c) /\ CP!Stage(c) /\ CP!Outgoing(c)  BY Fields
<1>3. UNCHANGED <<client, arrived, wire, taken, sent>> /\ CP!Ends(c)
  BY <1>1, <1>2, Assumptions, CP!NetworkEnds
<1>4. CP!Delivers(c, <<>>)
  <2>1. PICK u \in Seq(Msg) : u = CP!Unsent(c)  BY Fields
  <2>2. PICK a \in Seq(Msg) : a = arrived[c]
    BY <1>2, Assumptions, CP!ClientTypes, SameWords
  <2>3. PICK n \in Nat : n = sent[c]  BY <1>2, Assumptions, CP!ClientTypes
  <2>4. <<>> \o u = u /\ a \o <<>> = a /\ n + Len(<<>>) = n /\ 1 .. Len(<<>>) = {}
    OBVIOUS
  <2>5. CP!Unsent(c)' = u /\ CP!Own(c)' = CP!Own(c)
    BY <1>3, <2>1 DEF CP!Unsent, CP!Own
  <2> QED  BY <1>3, <2>1, <2>2, <2>3, <2>4, <2>5, SameWords DEF CP!Delivers
<1>5. \A d \in Conn \ {c} : tcp'[d] = tcp[d] /\ fin'[d] = fin[d] /\ rst'[d] = rst[d]
                             /\ hangup'[d] = hangup[d]
  BY <1>1, <1>2, <1>3
     DEF CP!NetworkNext, CP!Established, CP!RemoteConnect, CP!Refused,
         CP!AnsweredByReset, CP!Ends, CP!sockVars, CP!ClientTypeOK, CP!SocketsTypeOK
<1>6. Linked(c) => Linked(c)'  BY <1>3 DEF CP!Ends, Linked
<1>7. ASSUME tcp'[c] # tcp[c]
      PROVE  Outside(c) /\ Outside(c)' /\ Fresh(c)
  <2>1. /\ tcp[c] = "none" /\ tcp'[c] = "queued"
        /\ client[c].pc = "start" \/ (CP!Running(c) /\ client[c].state = "CONNECTING")
    BY <1>3, <1>7 DEF CP!Ends
  <2>2. Fresh(c)  BY <2>1, FreshIs DEF Linked
  <2> QED  BY <2>1, <2>2 DEF Outside
<1>8. <<>> \in Seq(Msg)  OBVIOUS
<1>9. /\ \A d \in Conn : wire'[d] = wire[d]
      /\ \A d \in Conn : client'[d] = client[d] /\ arrived'[d] = arrived[d]
                          /\ sent'[d] = sent[d]
      /\ CP!Exited(c) => CP!Exited(c)'
      /\ (fin'[c] = fin[c] /\ rst'[c] = rst[c]) \/ CP!Exited(c)'
      /\ hangup'[c] \in {hangup[c], "rst"}
  BY <1>3 DEF CP!Ends, CP!Exited
<1>10. Moves(c)
  BY <1>1, <1>4, <1>5, <1>6, <1>7, <1>8, <1>9 DEF Moves
<1>11. \A d \in Conn : CP!Outgoing(d)'
  BY <1>9 DEF Clients, CP!Outgoing, CP!Exited, CP!Proper
<1> QED  BY <1>1, <1>10, <1>11, ClientsKept DEF Clients

-----------------------------------------------------------------------------
(* The server's steps, as the clients see them.                             *)

(* The server reads what has arrived, or leaves the connection alone.       *)
Takes(d) ==
    /\ wire'[d] = wire[d]
    /\ tcp'[d] = tcp[d] \/ (tcp[d] = "queued" /\ tcp'[d] = "accepted")
    /\ \E k \in 0 .. Len(arrived[d]) :
         arrived'[d] = SubSeq(arrived[d], k + 1, Len(arrived[d]))

(* It sends k frames of the output.                                         *)
Gives(d) ==
    /\ Running /\ conn[d].state \in {"SENDING_SERVER_HELLO", "ACTIVE"}
    /\ tcp'[d] = tcp[d] /\ arrived'[d] = arrived[d]
    /\ \E k \in 0 .. Pending(d) :
         wire'[d] = wire[d] \o SubSeq(conn[d].out_buffer, conn[d].bytes_written + 1,
                                      conn[d].bytes_written + k)

(* It closes the connection.                                                *)
Shuts(d) ==
    /\ wire'[d] = wire[d] /\ arrived'[d] = <<>> /\ tcp'[d] = "closed"
    /\ Running' => conn[d].state # "FREED" /\ conn'[d].state = "FREED"

Serves(d) ==
    /\ Takes(d) \/ Gives(d) \/ Shuts(d)
    /\ Running' /\ conn'[d].state = "FREED" => conn[d].state = "FREED" \/ Shuts(d)
    /\ fin'[d] = fin[d] /\ rst'[d] = rst[d] /\ taken'[d] = taken[d] /\ sent'[d] = sent[d]

LEMMA Untouched ==
    ASSUME TypeOK, NEW d \in Conn, wire'[d] = wire[d], arrived'[d] = arrived[d],
           tcp'[d] = tcp[d] \/ (tcp[d] = "queued" /\ tcp'[d] = "accepted")
    PROVE  Takes(d)
<1>1. PICK a \in Seq(Msg) : a = arrived[d]  BY DEF TypeOK, SocketsTypeOK
<1>2. SubSeq(a, 0 + 1, Len(a)) = a /\ 0 \in 0 .. Len(a)  OBVIOUS
<1> QED  BY <1>1, <1>2 DEF Takes

(* No connection is closed.                                                 *)
LEMMA ServesOn ==
    ASSUME TypeOK, UNCHANGED <<wire, arrived, remoteVars>>,
           \A d \in Conn : tcp'[d] = tcp[d] \/ (tcp[d] = "queued" /\ tcp'[d] = "accepted"),
           ~Running' \/ \A d \in Conn : conn'[d].state = "FREED" => conn[d].state = "FREED"
    PROVE  \A d \in Conn : Serves(d)
<1>1. ASSUME NEW d \in Conn PROVE Serves(d)
  <2>1. Takes(d)  BY Untouched
  <2> QED  BY <2>1 DEF Serves, remoteVars
<1> QED  BY <1>1

(* The connections cs are closed.                                           *)
LEMMA ServesLast ==
    ASSUME TypeOK, NEW cs, CloseSockets(cs), UNCHANGED <<wire, remoteVars>>,
           \/ ~Running'
           \/ \A d \in Conn :
                IF d \in cs THEN conn[d].state # "FREED" /\ conn'[d].state = "FREED"
                ELSE conn'[d].state = "FREED" => conn[d].state = "FREED"
    PROVE  \A d \in Conn : Serves(d)
<1>1. ASSUME NEW d \in Conn, d \in cs PROVE Serves(d)
  <2>1. Shuts(d)  BY <1>1 DEF Shuts, CloseSockets
  <2> QED  BY <2>1 DEF Serves, remoteVars
<1>2. ASSUME NEW d \in Conn, d \notin cs PROVE Serves(d)
  <2>1. Takes(d)  BY <1>2, Untouched DEF CloseSockets
  <2> QED  BY <1>2, <2>1 DEF Serves, remoteVars
<1> QED  BY <1>1, <1>2

LEMMA LoopServes ==
    ASSUME TypeOK, epoll_wait \/ (\E e \in batch : SkipEvent(e)) \/ EndOfBatch
    PROVE  \A d \in Conn : Serves(d)
<1>1. UNCHANGED <<sockVars, conn>>  BY DEF epoll_wait, SkipEvent, EndOfBatch
<1> QED  BY <1>1, ServesOn DEF sockVars, remoteVars

LEMMA AcceptServes ==
    ASSUME TypeOK, AcceptNext
    PROVE  \A d \in Conn : Serves(d)
<1>1. CASE \/ \E e \in batch : handle_accept_client_connection_event(e)
           \/ AcceptDone \/ AcceptWithoutDescriptor
  <2>1. UNCHANGED <<sockVars, conn>>
    BY <1>1 DEF handle_accept_client_connection_event, AcceptDone, AcceptWithoutDescriptor
  <2> QED  BY <2>1, ServesOn DEF sockVars, remoteVars
<1>2. ASSUME NEW c \in Conn, AcceptOne(c) PROVE \A d \in Conn : Serves(d)
  <2>1. PICK f \in FreeFds : conn' = [conn EXCEPT ![c] = NewConnection(f)]
    BY <1>2 DEF AcceptOne
  <2>2. NewConnection(f).state = "WAITING_FOR_CLIENT_HELLO"
    BY DEF NewConnection, NoConnection
  <2>3. \A d \in Conn : conn'[d].state = "FREED" => conn[d].state = "FREED"
    BY <2>1, <2>2 DEF TypeOK, ServerTypeOK
  <2>4. UNCHANGED <<wire, arrived, remoteVars>> /\ tcp[c] = "queued"
        /\ tcp' = [tcp EXCEPT ![c] = "accepted"]
    BY <1>2 DEF AcceptOne
  <2>5. \A d \in Conn : tcp'[d] = tcp[d] \/ (tcp[d] = "queued" /\ tcp'[d] = "accepted")
    BY <2>4 DEF TypeOK, SocketsTypeOK
  <2> QED  BY <2>3, <2>4, <2>5, ServesOn
<1>3. ASSUME NEW c \in Conn, AcceptAborted(c) \/ AcceptNotWatched(c)
      PROVE  \A d \in Conn : Serves(d)
  <2>1. CloseSockets({c}) /\ pc' = "cleanup" /\ UNCHANGED <<wire, remoteVars>>
    BY <1>3 DEF AcceptAborted, AcceptNotWatched, AcceptLost
  <2> QED  BY <2>1, ServesLast DEF Running
<1> QED  BY <1>1, <1>2, <1>3 DEF AcceptNext

LEMMA RemoveServes ==
    ASSUME TypeOK, NEW c \in Conn, remove_connection(c), conn[c].state # "FREED",
           UNCHANGED <<wire, remoteVars>>
    PROVE  \A d \in Conn : Serves(d)
<1>1. CloseSockets({c}) /\ conn' = [conn EXCEPT ![c] = NoConnection]
  BY DEF remove_connection
<1>2. \A d \in Conn :
        IF d \in {c} THEN conn[d].state # "FREED" /\ conn'[d].state = "FREED"
        ELSE conn'[d].state = "FREED" => conn[d].state = "FREED"
  BY <1>1, Deleted DEF TypeOK, ServerTypeOK
<1> QED  BY <1>1, <1>2, ServesLast

(* Input of one connection is read; its object is not deleted.              *)
LEMMA ReadServes ==
    ASSUME TypeOK, NEW c \in Conn, NEW k \in ReadSizes(c),
           arrived' = [arrived EXCEPT ![c] = ArrivedAfter(c, k)],
           UNCHANGED <<tcp, wire, remoteVars>>,
           ~Running' \/ \A d \in Conn : conn'[d].state = "FREED" => conn[d].state = "FREED"
    PROVE  \A d \in Conn : Serves(d)
<1>1. arrived \in [Conn -> Seq(Msg)]  BY DEF TypeOK, SocketsTypeOK
<1>2. k \in 0 .. Len(arrived[c])  BY <1>1 DEF ReadSizes
<1>3. Takes(c)  BY <1>1, <1>2 DEF Takes, ArrivedAfter
<1>4. \A d \in Conn \ {c} : Takes(d)  BY <1>1, Untouched
<1> QED  BY <1>3, <1>4 DEF Serves, remoteVars

LEMMA HandshakeServes ==
    ASSUME TypeOK, NEW e \in batch, NEW c \in Conn, HandshakeNext(e, c)
    PROVE  \A d \in Conn : Serves(d)
<1> USE DEF HelloEvent
<1>1. CASE HelloIncomplete(e, c)
  BY <1>1, ServesOn DEF HelloIncomplete, sockVars, remoteVars
<1>2. CASE HelloRejected(e, c)
  <2>1. conn[c].state # "FREED"
    BY <1>2 DEF HelloRejected, get_connection_of, connections
  <2> QED  BY <1>2, <2>1, RemoveServes DEF HelloRejected
<1>3. CASE HelloAccepted(e, c)
  <2>1. PICK k \in ReadSizes(c) :
           /\ arrived' = [arrived EXCEPT ![c] = ArrivedAfter(c, k)]
           /\ IF protocol_payload_length_is_legal(server_name)
              THEN conn' = [Queue(Named(c, InputAfter(c, k)), {c}, ServerHello)
                              EXCEPT ![c].state = "SENDING_SERVER_HELLO"]
              ELSE pc' = "cleanup"
    BY <1>3 DEF HelloAccepted
  <2>2. UNCHANGED <<tcp, wire, remoteVars>>  BY <1>3 DEF HelloAccepted
  <2>3. ASSUME protocol_payload_length_is_legal(server_name), NEW d \in Conn
        PROVE  conn'[d].state = "FREED" => conn[d].state = "FREED"
    <3>1. PICK q : q = Queue(Named(c, InputAfter(c, k)), {c}, ServerHello)  OBVIOUS
    <3>2. conn' = [q EXCEPT ![c].state = "SENDING_SERVER_HELLO"]  BY <2>1, <2>3, <3>1
    <3>3. q = [x \in Conn |-> q[x]]  BY <3>1 DEF Queue
    <3>4. CASE d # c
      <4>1. q[d] = conn[d]
        BY <3>1, <3>4 DEF Queue, Named, TypeOK, ServerTypeOK
      <4> QED  BY <3>2, <3>3, <3>4, <4>1
    <3>5. CASE d = c
      <4>1. conn[c] \in Connection /\ conn \in [Conn -> Connection]
        BY DEF TypeOK, ServerTypeOK
      <4>2. q[c] = [[conn[c] EXCEPT !.in_buffer = Tail(InputAfter(c, k)),
                                    !.name = Head(InputAfter(c, k)).size]
                      EXCEPT !.out_buffer = Append(@, ServerHello)]
        BY <3>1, <4>1 DEF Queue, Named
      <4>3. conn'[c].state = "SENDING_SERVER_HELLO"
        BY <3>2, <3>3, <4>1, <4>2 DEF Connection
      <4> QED  BY <3>5, <4>3
    <3> QED  BY <3>4, <3>5
  <2>4. ~Running' \/ \A d \in Conn : conn'[d].state = "FREED" => conn[d].state = "FREED"
    BY <2>1, <2>3 DEF Running
  <2> QED  BY <2>1, <2>2, <2>4, ReadServes
<1> QED  BY <1>1, <1>2, <1>3 DEF HandshakeNext

LEMMA InputServes ==
    ASSUME TypeOK, NEW e \in batch, NEW c \in Conn, ReadNext(e, c)
    PROVE  \A d \in Conn : Serves(d)
<1> USE DEF ReadEvent
<1>1. CASE ReadFails(e, c)
  <2>1. conn[c].state # "FREED"
    BY <1>1 DEF ReadFails, get_connection_of, connections
  <2> QED  BY <1>1, <2>1, RemoveServes DEF ReadFails
<1>2. CASE ReadInput(e, c)
  <2>1. PICK k \in ReadSizes(c) :
           /\ conn' = [conn EXCEPT ![c].in_buffer = InputAfter(c, k),
                                   ![c].state = IF EofAfter(c, k) THEN "CLOSED" ELSE @]
           /\ arrived' = [arrived EXCEPT ![c] = ArrivedAfter(c, k)]
    BY <1>2 DEF ReadInput
  <2>2. UNCHANGED <<tcp, wire, remoteVars>>  BY <1>2 DEF ReadInput
  <2>3. \A d \in Conn : conn'[d].state = "FREED" => conn[d].state = "FREED"
    BY <2>1 DEF TypeOK, ServerTypeOK, Connection
  <2> QED  BY <2>1, <2>2, <2>3, ReadServes
<1> QED  BY <1>1, <1>2 DEF ReadNext

LEMMA ParseServes ==
    ASSUME TypeOK, Places, NEW c \in Conn, ParseNext(c)
    PROVE  \A d \in Conn : Serves(d)
<1>0. conn \in [Conn -> Connection]  BY DEF TypeOK, ServerTypeOK
<1>1. conn[c].state # "FREED" /\ UNCHANGED <<wire, remoteVars>>
  BY DEF Places, ParseNext, ParseNothing, ParseRejects, ParseLeave, ParseChat, Parsing,
         sockVars, remoteVars
<1>2. CASE ParseNothing(c)
  BY <1>1, <1>2, ServesOn DEF ParseNothing
<1>3. CASE ParseRejects(c)
  BY <1>1, <1>3, RemoveServes DEF ParseRejects
<1>4. CASE ParseLeave(c)
  <2>1. PICK m : m = Notice(c, "disconnected", conn[c].name)  OBVIOUS
  <2>2. CASE BroadcastFails(conn, c, m)
    <3>1. pc' = "cleanup" /\ UNCHANGED <<tcp, arrived>>
      BY <1>4, <2>1, <2>2 DEF ParseLeave, RefuseBroadcast
    <3> QED  BY <1>1, <3>1, ServesOn DEF Running
  <2>3. CASE ~BroadcastFails(conn, c, m)
    <3>1. /\ conn' = [Broadcast(conn, c, m) EXCEPT ![c] = NoConnection]
          /\ CloseSockets({c})
      BY <1>4, <2>1, <2>3 DEF ParseLeave
    <3>2. PICK b : b = Broadcast(conn, c, m)  OBVIOUS
    <3>3. b = [x \in Conn |-> b[x]]  BY <3>2 DEF Broadcast, Queue
    <3>4. \A d \in Conn : b[d].state = conn[d].state  BY <1>0, <3>2, BroadcastKeeps
    <3>5. \A d \in Conn :
            IF d \in {c} THEN conn[d].state # "FREED" /\ conn'[d].state = "FREED"
            ELSE conn'[d].state = "FREED" => conn[d].state = "FREED"
      BY <1>1, <3>1, <3>2, <3>3, <3>4, Deleted
    <3> QED  BY <1>1, <3>1, <3>5, ServesLast
  <2> QED  BY <2>2, <2>3
<1>5. CASE ParseChat(c)
  <2>1. PICK popped, said :
           /\ popped = [conn EXCEPT ![c].in_buffer = Tail(@)]
           /\ said = format_broadcast_message(conn[c].name, Head(conn[c].in_buffer))
    OBVIOUS
  <2>2. UNCHANGED <<tcp, arrived>>  BY <1>5 DEF ParseChat, sockVars
  <2>3. CASE BroadcastFails(popped, c, said)
    <3>1. pc' = "cleanup"  BY <1>5, <2>1, <2>3 DEF ParseChat, RefuseBroadcast
    <3> QED  BY <1>1, <2>2, <3>1, ServesOn DEF Running
  <2>4. CASE ~BroadcastFails(popped, c, said)
    <3>1. conn' = Broadcast(popped, c, said)  BY <1>5, <2>1, <2>4 DEF ParseChat
    <3>2. conn[c].in_buffer # <<>>  BY <1>5 DEF ParseChat
    <3>3. conn[c].in_buffer \in Seq(Msg)  BY <1>0 DEF Connection
    <3>4. Tail(conn[c].in_buffer) \in Seq(Msg)  BY <3>2, <3>3
    <3>5. popped \in [Conn -> Connection] /\ \A d \in Conn : popped[d].state = conn[d].state
      BY <1>0, <2>1, <3>4 DEF Connection
    <3>6. \A d \in Conn : conn'[d].state = conn[d].state  BY <3>1, <3>5, BroadcastKeeps
    <3> QED  BY <1>1, <2>2, <3>6, ServesOn
  <2> QED  BY <2>3, <2>4
<1> QED  BY <1>2, <1>3, <1>4, <1>5 DEF ParseNext

(* Frames are sent on one connection.                                       *)
LEMMA SendsServe ==
    ASSUME TypeOK, EventDiscipline, Greeting, NEW e \in batch, NEW c \in Conn, SendEvent(e, c),
           NEW k \in 0 .. Pending(c), Sends(c, k),
           ~Running' \/ \A d \in Conn : conn'[d].state = "FREED" => conn[d].state = "FREED"
    PROVE  \A d \in Conn : Serves(d)
<1>1. Running /\ conn[c].state \in {"SENDING_SERVER_HELLO", "ACTIVE"}
  BY DEF SendEvent, event_is_send_network_package, Running
<1>2. /\ UNCHANGED <<tcp, arrived, remoteVars>>
      /\ wire' = [wire EXCEPT ![c] = @ \o SubSeq(conn[c].out_buffer,
                    conn[c].bytes_written + 1, conn[c].bytes_written + k)]
  BY DEF Sends
<1>3. wire \in [Conn -> Seq(Msg)]  BY DEF TypeOK, SocketsTypeOK
<1>4. Gives(c)  BY <1>1, <1>2, <1>3 DEF Gives
<1>5. \A d \in Conn \ {c} : Takes(d)  BY <1>2, <1>3, Untouched
<1> QED  BY <1>2, <1>4, <1>5 DEF Serves, remoteVars

LEMMA WriteServes ==
    ASSUME TypeOK, EventDiscipline, Greeting, NEW e \in batch, NEW c \in Conn, WriteNext(e, c)
    PROVE  \A d \in Conn : Serves(d)
<1>0. conn \in [Conn -> Connection] /\ conn[c] \in Connection
  BY DEF TypeOK, ServerTypeOK
<1>1. CASE SendFails(e, c)
  BY <1>1, ServesOn DEF SendFails, Running, sockVars, remoteVars
<1>2. Pending(c) \in Nat
  <2>1. PICK o, b : o = conn[c].out_buffer /\ b = conn[c].bytes_written  OBVIOUS
  <2>2. o \in Seq(Msg) /\ b \in Nat /\ b <= Len(o) /\ Len(o) \in Nat
    BY <1>0, <2>1 DEF Connection, Greeting, Good
  <2> QED  BY <2>1, <2>2 DEF Pending
<1>3. Pending(c) \in 0 .. Pending(c)  BY <1>2
<1>4. CASE SendPartial(e, c)
  <2>1. PICK k \in 0 .. Pending(c) - 1 :
           Sends(c, k) /\ conn' = [conn EXCEPT ![c].bytes_written = @ + k]
    BY <1>4 DEF SendPartial
  <2>2. k \in 0 .. Pending(c)  BY <1>2
  <2>3. \A d \in Conn : conn'[d].state = conn[d].state  BY <1>0, <2>1 DEF Connection
  <2> QED  BY <1>4, <2>1, <2>2, <2>3, SendsServe DEF SendPartial
<1>5. CASE SendHelloDone(e, c)
  <2>1. PICK active, m :
           /\ active = [Flushed(c) EXCEPT ![c].state = "ACTIVE"]
           /\ m = Notice(c, "connected", conn[c].name)
    OBVIOUS
  <2>2. Sends(c, Pending(c)) /\ SendEvent(e, c)  BY <1>5 DEF SendHelloDone, SendAll
  <2>3. CASE BroadcastFails(active, None, m)
    <3>1. pc' = "cleanup"  BY <1>5, <2>1, <2>3 DEF SendHelloDone, RefuseBroadcast
    <3> QED  BY <1>3, <2>2, <3>1, SendsServe DEF Running
  <2>4. CASE ~BroadcastFails(active, None, m)
    <3>1. conn' = Broadcast(active, None, m)  BY <1>5, <2>1, <2>4 DEF SendHelloDone
    <3>2. /\ active \in [Conn -> Connection]
          /\ \A d \in Conn : active[d].state = "FREED" => conn[d].state = "FREED"
      <4>1. PICK f : f = Flushed(c)  OBVIOUS
      <4>2. f \in [Conn -> Connection] /\ \A d \in Conn \ {c} : f[d] = conn[d]
        BY <4>1, FlushedType DEF Flushed, TypeOK, ServerTypeOK
      <4>3. [f[c] EXCEPT !.state = "ACTIVE"] \in Connection
        BY <4>2 DEF Connection, ConnectionState
      <4>4. active = [f EXCEPT ![c] = [f[c] EXCEPT !.state = "ACTIVE"]]  BY <2>1, <4>1
      <4>5. active[c].state = "ACTIVE"  BY <4>2, <4>4 DEF Connection
      <4> QED  BY <4>2, <4>3, <4>4, <4>5
    <3>3. \A d \in Conn : conn'[d].state = "FREED" => conn[d].state = "FREED"
      BY <3>1, <3>2, BroadcastKeeps
    <3> QED  BY <1>3, <2>2, <3>3, SendsServe
  <2> QED  BY <2>3, <2>4
<1>6. CASE SendDone(e, c)
  <2>1. conn' = Flushed(c) /\ Sends(c, Pending(c)) /\ SendEvent(e, c)
    BY <1>6 DEF SendDone, SendAll
  <2>2. \A d \in Conn : conn'[d].state = conn[d].state
    BY <1>0, <2>1 DEF Flushed, Connection
  <2> QED  BY <1>3, <2>1, <2>2, SendsServe
<1> QED  BY <1>1, <1>4, <1>5, <1>6 DEF WriteNext

LEMMA UserServes ==
    ASSUME TypeOK, NEW e \in batch, StdinNext(e)
    PROVE  \A d \in Conn : Serves(d)
<1>0. conn \in [Conn -> Connection]  BY DEF TypeOK, ServerTypeOK
<1>1. UNCHANGED sockVars
  BY DEF StdinNext, StdinEof, StdinIgnored, StdinChat, StdinQuit, StdinEvent
<1>2. ~Running' \/ \A d \in Conn : conn'[d].state = "FREED" => conn[d].state = "FREED"
  <2>1. CASE StdinEof(e) \/ StdinIgnored(e)
    BY <2>1 DEF StdinEof, StdinIgnored, Running
  <2>2. CASE StdinChat(e)
    <3>1. PICK m : IF BroadcastFails(conn, None, m) THEN RefuseBroadcast(conn, None)
                   ELSE conn' = Broadcast(conn, None, m)
      BY <2>2 DEF StdinChat
    <3> QED  BY <1>0, <3>1, BroadcastKeeps DEF RefuseBroadcast, Running
  <2>3. CASE StdinQuit(e)
    <3>1. PICK told : told = Broadcast(conn, None, ClosingNotice)  OBVIOUS
    <3>2. conn' = Broadcast(told, None, CloseMessage)  BY <2>3, <3>1 DEF StdinQuit
    <3>3. \A d \in Conn : told[d].state = conn[d].state  BY <1>0, <3>1, BroadcastKeeps
    <3>4. told \in [Conn -> Connection]
      BY <1>0, <3>1, Remarks, BroadcastType
    <3> QED  BY <3>2, <3>3, <3>4, BroadcastKeeps
  <2> QED  BY <2>1, <2>2, <2>3 DEF StdinNext
<1> QED  BY <1>1, <1>2, ServesOn DEF sockVars, remoteVars

LEMMA ServerServes ==
    ASSUME TypeOK, EventDiscipline, Greeting, Places, ServerNext \/ UNCHANGED vars
    PROVE  \A d \in Conn : Serves(d)
<1>1. CASE UNCHANGED vars
  BY <1>1, ServesOn DEF vars, sockVars, serverVars, remoteVars
<1>2. CASE server_cleanup
  <2>1. /\ CloseSockets({c \in Conn : Linked(c)}) /\ pc' = "exited"
        /\ UNCHANGED <<wire, remoteVars>>
    BY <1>2 DEF server_cleanup
  <2> QED  BY <2>1, ServesLast DEF Running
<1> QED
  BY <1>1, <1>2, LoopServes, AcceptServes, HandshakeServes, InputServes, ParseServes,
     WriteServes, UserServes DEF ServerNext

-----------------------------------------------------------------------------
(* Beginnings of conversations.                                             *)
Starts(s, t) == \E r \in Seq(Utterance(Speaker)) : t = s \o r

LEMMA StartsSame ==
    ASSUME NEW s \in Seq(Utterance(Speaker))
    PROVE  Starts(s, s) /\ Starts(<<>>, s)
<1>1. <<>> \in Seq(Utterance(Speaker)) /\ s = s \o <<>> /\ s = <<>> \o s  OBVIOUS
<1> QED  BY <1>1 DEF Starts

LEMMA StartsGrows ==
    ASSUME NEW s \in Seq(Utterance(Speaker)), NEW t \in Seq(Utterance(Speaker)),
           Starts(s, t), NEW u \in Utterance(Speaker)
    PROVE  Starts(s, Append(t, u))
<1>1. PICK r \in Seq(Utterance(Speaker)) : t = s \o r  BY DEF Starts
<1>2. s \o Append(r, u) = Append(s \o r, u)  BY ConcatAppend
<1>3. Append(r, u) \in Seq(Utterance(Speaker))  OBVIOUS
<1> QED  BY <1>1, <1>2, <1>3 DEF Starts

LEMMA StartsShorter ==
    ASSUME NEW s \in Seq(Utterance(Speaker)), NEW x \in Seq(Utterance(Speaker)),
           NEW t \in Seq(Utterance(Speaker)), Starts(s \o x, t)
    PROVE  Starts(s, t)
<1>1. PICK r \in Seq(Utterance(Speaker)) : t = (s \o x) \o r  BY DEF Starts
<1>2. t = s \o (x \o r) /\ x \o r \in Seq(Utterance(Speaker))
  BY <1>1, ConcatAssociative, ConcatProperties
<1> QED  BY <1>2 DEF Starts

LEMMA StartsThrough ==
    ASSUME NEW s \in Seq(Utterance(Speaker)), NEW t \in Seq(Utterance(Speaker)), NEW w,
           Starts(s, t), Starts(t, w)
    PROVE  Starts(s, w)
<1>1. PICK r \in Seq(Utterance(Speaker)) : t = s \o r  BY DEF Starts
<1>2. PICK q \in Seq(Utterance(Speaker)) : w = t \o q  BY DEF Starts
<1>3. (s \o r) \o q = s \o (r \o q) /\ r \o q \in Seq(Utterance(Speaker))
  BY ConcatAssociative, ConcatProperties, SMTT(30)
<1> QED  BY <1>1, <1>2, <1>3 DEF Starts

LEMMA StartsIsPrefix ==
    ASSUME NEW s \in Seq(Utterance(Speaker)), NEW t \in Seq(Utterance(Speaker))
    PROVE  Starts(s, t) <=> CP!IsPrefix(s, t)
<1> DEFINE U == Utterance(Speaker)
<1> HIDE DEF U
<1>0. s \in Seq(U) /\ t \in Seq(U)  BY DEF U
<1>1. ASSUME NEW r \in Seq(U), t = s \o r
      PROVE  CP!IsPrefix(s, t)
  <2>1. Len(s) <= Len(t) /\ Len(s) \in 0 .. Len(s)  BY <1>0, <1>1
  <2>2. SubSeq(t, 1, Len(s)) = SubSeq(s, 1, Len(s))
    BY <1>0, <1>1, <2>1, StartOfConcat
  <2> QED  BY <2>1, <2>2 DEF CP!IsPrefix
<1>2. ASSUME CP!IsPrefix(s, t)
      PROVE  \E r \in Seq(U) : t = s \o r
  <2>1. Len(s) <= Len(t) /\ SubSeq(s, 1, Len(s)) = SubSeq(t, 1, Len(s))
    BY <1>2 DEF CP!IsPrefix
  <2>2. PICK m \in Nat, k \in Nat : m = Len(s) /\ m + k = Len(t)
    <3>1. Len(s) \in Nat /\ Len(t) - Len(s) \in Nat
          /\ Len(s) + (Len(t) - Len(s)) = Len(t)
      BY <1>0, <2>1
    <3> QED  BY <3>1
  <2>3. SubSeq(t, 1, m + k) = SubSeq(t, 1, m) \o SubSeq(t, m + 1, m + k)
    <3>1. m + k <= Len(t)  BY <2>2
    <3> QED  BY <1>0, <3>1, StartSplits
  <2>4. SubSeq(t, 1, Len(t)) = t /\ SubSeq(s, 1, Len(s)) = s  BY <1>0
  <2>5. SubSeq(t, m + 1, m + k) \in Seq(U)
    <3>1. m + k <= Len(t)  BY <2>2
    <3> QED  BY <1>0, <3>1, PieceShape
  <2> QED  BY <2>1, <2>2, <2>3, <2>4, <2>5
<1> QED  BY <1>1, <1>2 DEF Starts, U

(* The lines of c among what the frames s say.                              *)
LinesIn(c, s) == Only(Says(s), ChatLines(c))

LEMMA LinesType ==
    ASSUME NEW c, NEW s \in Seq(Msg)
    PROVE  Says(s) \in Seq(Utterance(Speaker)) /\ LinesIn(c, s) \in Seq(Utterance(Speaker))
<1>1. \A m \in Msg : m.says \in Utterance(Speaker)  BY Spoken
<1>2. Says(s) \in Seq(Utterance(Speaker))  BY <1>1, SaysType
<1> QED  BY <1>2, OnlyType DEF LinesIn

LEMMA LinesConcat ==
    ASSUME NEW c, NEW s \in Seq(Msg), NEW t \in Seq(Msg)
    PROVE  LinesIn(c, s \o t) = LinesIn(c, s) \o LinesIn(c, t)
<1>1. \A m \in Msg : m.says \in Utterance(Speaker)  BY Spoken
<1>2. Says(s \o t) = Says(s) \o Says(t)  BY <1>1, SaysConcat
<1>3. Says(s) \in Seq(Utterance(Speaker)) /\ Says(t) \in Seq(Utterance(Speaker))
  BY LinesType
<1> QED  BY <1>2, <1>3, OnlyConcat DEF LinesIn

LEMMA LinesAppend ==
    ASSUME NEW c, NEW s \in Seq(Msg), NEW m \in Msg
    PROVE  LinesIn(c, Append(s, m)) = IF m.says \in ChatLines(c)
                                      THEN Append(LinesIn(c, s), m.says) ELSE LinesIn(c, s)
<1>1. \A x \in Msg : x.says \in Utterance(Speaker)  BY Spoken
<1>2. Says(Append(s, m)) = Append(Says(s), m.says)  BY <1>1, SaysAppend
<1>3. PICK v \in Seq(Utterance(Speaker)), u \in Utterance(Speaker) :
         v = Says(s) /\ u = m.says
  BY <1>1, LinesType
<1>4. Only(Append(v, u), ChatLines(c)) = IF u \in ChatLines(c)
        THEN Append(Only(v, ChatLines(c)), u) ELSE Only(v, ChatLines(c))
  BY OnlyAppend
<1> QED  BY <1>2, <1>3, <1>4 DEF LinesIn

LEMMA LinesNone == ASSUME NEW c PROVE LinesIn(c, <<>>) = <<>>
<1>1. Says(<<>>) = <<>>  BY DEF Says
<1> QED  BY <1>1, OnlyEmpty DEF LinesIn

(* The first frame taken off.                                               *)
LEMMA LinesTail ==
    ASSUME NEW c, NEW s \in Seq(Msg), s # <<>>, NEW x \in Seq(Utterance(Speaker))
    PROVE  x \o LinesIn(c, s) = (IF Head(s).says \in ChatLines(c)
                                 THEN Append(x, Head(s).says) ELSE x) \o LinesIn(c, Tail(s))
<1>1. PICK h \in Msg, t \in Seq(Msg) : h = Head(s) /\ t = Tail(s) /\ s = <<h>> \o t
  <2>1. Head(s) \in Msg /\ Tail(s) \in Seq(Msg)  BY HeadTailProperties
  <2>2. PICK h \in Msg, t \in Seq(Msg) : h = Head(s) /\ t = Tail(s)  BY <2>1
  <2>3. s = <<h>> \o t  BY <2>2
  <2> QED  BY <2>2, <2>3
<1>2. <<h>> = Append(<<>>, h) /\ <<h>> \in Seq(Msg) /\ <<>> \in Seq(Msg)  OBVIOUS
<1>3. LinesIn(c, s) = LinesIn(c, <<h>>) \o LinesIn(c, t)
  <2>1. PICK y \in Seq(Msg) : y = <<h>>  BY <1>2
  <2>2. LinesIn(c, y \o t) = LinesIn(c, y) \o LinesIn(c, t)  BY LinesConcat
  <2> QED  BY <1>1, <2>1, <2>2
<1>4. LinesIn(c, <<h>>) = IF h.says \in ChatLines(c)
                          THEN Append(<<>>, h.says) ELSE <<>>
  <2>1. LinesIn(c, Append(<<>>, h)) = IF h.says \in ChatLines(c)
          THEN Append(LinesIn(c, <<>>), h.says) ELSE LinesIn(c, <<>>)
    BY <1>2, LinesAppend
  <2> QED  BY <1>2, <2>1, LinesNone
<1>5. PICK v \in Seq(Utterance(Speaker)), l \in Seq(Utterance(Speaker)) :
         v = LinesIn(c, <<h>>) /\ l = LinesIn(c, t)
  BY <1>2, LinesType
<1>6. x \o (v \o l) = (x \o v) \o l  BY ConcatAssociative, SMTT(30)
<1>7. h.says \in Utterance(Speaker)  BY Spoken
<1>8. x \o v = IF h.says \in ChatLines(c) THEN Append(x, h.says) ELSE x
  <2>1. x \o <<>> = x /\ <<>> \in Seq(Utterance(Speaker))  OBVIOUS
  <2>2. x \o Append(<<>>, h.says) = Append(x \o <<>>, h.says)
    BY <1>7, <2>1, ConcatAppend
  <2> QED  BY <1>4, <1>5, <2>1, <2>2
<1> QED  BY <1>1, <1>3, <1>5, <1>6, <1>8

-----------------------------------------------------------------------------
(* The inductive invariant.                                                 *)

(* The server has not parsed the hello of c.                                *)
Ungreeted(c) == Outside(c) \/ conn[c].state = "WAITING_FOR_CLIENT_HELLO"

(* Whatever the server tells c is a frame that c expects, and never a line  *)
(* of its own user.                                                         *)
Fit(c, m) ==
    /\ m.says \notin ChatLines(c)
    /\ m.type \in {"SERVER_HELLO", "BROADCAST"} \/ (m.type = "CLOSE_CON" /\ m.size = 0)

AllFit(c, s) == \A i \in 1 .. Len(s) : Fit(c, s[i])

Addressed(c) == AllFit(c, wire[c]) /\ (Running => AllFit(c, Stream(c)))

(* Whatever the server has still to parse is a frame that it expects: the   *)
(* hello first, once, and the farewell only from a client that has left.    *)
Incoming(c) ==
    Running =>
        /\ \A i \in 1 .. Len(Unparsed(c)) :
             /\ CP!Proper(c, Unparsed(c)[i])
             /\ Unparsed(c)[i].type = "CLIENT_HELLO" <=> Ungreeted(c) /\ i = 1
             /\ Unparsed(c)[i].type = "CLOSE_CON" => CP!Exited(c)
        /\ Linked(c) => IF Ungreeted(c) THEN Len(Unparsed(c)) = sent[c] ELSE sent[c] > 0

(* A stream ends, and the server closes a connection, only after its client *)
(* has left.                                                                *)
Departed(c) ==
    /\ fin[c] \/ rst[c] => CP!Exited(c)
    /\ Running /\ (tcp[c] = "closed" \/ conn[c].state = "CLOSED") => CP!Exited(c)

(* Every line of c is on the server's screen, on its way, or still in the   *)
(* buffer of c, as long as both run; what was lost was behind all others.   *)
Complete(c) ==
    CP!Own(c) = (ChatsOf(c) \o LinesIn(c, Unparsed(c))) \o LinesIn(c, CP!Unsent(c))

Carried(c) ==
    /\ Starts(ChatsOf(c), CP!Own(c))
    /\ Running => Starts(ChatsOf(c) \o LinesIn(c, Unparsed(c)), CP!Own(c))
    /\ Running /\ ~CP!Exited(c) /\ Linked(c) => Complete(c)

(* Whatever was sent to c is on the screen, from the arrival of c on.       *)
WordsTo(c) == Says(Only(wire[c], Broadcasts))

Shown(c, words) ==
    \E i \in At(c, "connected") :
        Starts(words, Only(SubSeq(screen, i, Len(screen)), Utterance(Speaker) \ ChatLines(c)))

OnScreen(c) == WordsTo(c) # <<>> => Shown(c, WordsTo(c))

(* The second promise of NoMisunderstanding.                                *)
Blameless(c) ==
    client[c].state = "CONNECTION_ERROR" =>
        hangup[c] # "none" \/ ~protocol_payload_length_is_legal(client[c].name)

ServerPart == Base /\ FramesAreLegal /\ Silence /\ OneConversation

RoomInv ==
    /\ ServerPart
    /\ Clients
    /\ \A c \in Conn : /\ Addressed(c) /\ Incoming(c) /\ Departed(c)
                       /\ Carried(c) /\ OnScreen(c) /\ Blameless(c)

LEMMA Shapes ==
    ASSUME RoomInv, NEW c \in Conn
    PROVE  /\ TypeOK /\ EventDiscipline /\ Greeting /\ Places
           /\ Unparsed(c) \in Seq(Msg) /\ Stream(c) \in Seq(Msg) /\ wire[c] \in Seq(Msg)
           /\ arrived[c] \in Seq(Msg) /\ conn[c].in_buffer \in Seq(Msg)
           /\ CP!Own(c) \in Seq(Utterance(Speaker)) /\ CP!Unsent(c) \in Seq(Msg)
           /\ ChatsOf(c) \in Seq(Utterance(Speaker))
           /\ sent[c] \in Nat /\ screen \in Seq(Utterance(Speaker))
<1>1. TypeOK /\ EventDiscipline /\ Greeting /\ Places  BY DEF RoomInv, ServerPart, Base
<1>2. Clients  BY DEF RoomInv
<1>3. sent[c] \in Nat /\ screen \in Seq(Utterance(Speaker))
  BY <1>1 DEF TypeOK, SocketsTypeOK, ServerTypeOK
<1> QED  BY <1>1, <1>2, <1>3, Objects, HeardType, Fields, ChatsType

LEMMA RoomSpeakers ==
    ASSUME RoomInv
    PROVE  Speakers
<1> SUFFICES ASSUME Running, NEW c \in Conn, NEW i \in 1 .. Len(Unparsed(c))
             PROVE  /\ Unparsed(c)[i].says.who = c
                    /\ Unparsed(c)[i].type = "CHAT" => Unparsed(c)[i].says.what = "chat"
  BY DEF Speakers
<1> QED  BY DEF RoomInv, Incoming, CP!Proper

(* The frame that is parsed next.                                           *)
LEMMA NextFrame ==
    ASSUME RoomInv, Running, NEW c \in Conn, Unparsed(c) # <<>>
    PROVE  /\ Head(Unparsed(c)) \in Msg /\ CP!Proper(c, Head(Unparsed(c)))
           /\ Head(Unparsed(c)).type = "CLIENT_HELLO" <=> Ungreeted(c)
           /\ Head(Unparsed(c)).type = "CLOSE_CON" => CP!Exited(c)
           /\ Head(Unparsed(c)).says \in ChatLines(c) <=> Head(Unparsed(c)).type = "CHAT"
<1>1. PICK s \in Seq(Msg) : s = Unparsed(c)  BY Shapes
<1>2. s # <<>>  BY <1>1
<1>3. Len(s) \in Nat /\ 1 \in 1 .. Len(s) /\ Head(s) = s[1]  BY <1>2
<1>4. Head(s) \in Msg  BY <1>2, HeadTailProperties
<1>5. /\ CP!Proper(c, Head(s))
      /\ Head(s).type = "CLIENT_HELLO" <=> Ungreeted(c)
      /\ Head(s).type = "CLOSE_CON" => CP!Exited(c)
  BY <1>1, <1>3 DEF RoomInv, Incoming
<1>6. Head(s).says \in Utterance(Speaker)  BY <1>4, Spoken
<1>7. Head(s).says \in ChatLines(c) <=> Head(s).type = "CHAT"
  BY <1>5, <1>6 DEF CP!Proper, ChatLines, Utterance
<1> QED  BY <1>1, <1>4, <1>5, <1>7

-----------------------------------------------------------------------------
(* The server's steps.                                                      *)

(* What a step of the server is known to be.                                *)
Steps == RoomStep /\ client' = client /\ (\A d \in Conn : Serves(d)) /\ ServerPart'

LEMMA ServerSteps ==
    ASSUME RoomInv, ServerStep \/ UNCHANGED allVars
    PROVE  /\ Steps
           /\ hangup' \in [Conn -> {"none", "fin", "rst"}]
           /\ \A d \in Conn : hangup'[d] = hangup[d] \/ hangup'[d] # "none"
<1>1. ServerNext \/ UNCHANGED vars
  BY DEF ServerStep, allVars, vars
<1>2. [Next]_vars  BY <1>1 DEF Next
<1>3. /\ TypeOK /\ EventDiscipline /\ Greeting /\ Places
      /\ FramesAreLegal /\ Silence /\ OneConversation
  BY DEF RoomInv, ServerPart, Base
<1>4. TypeOK'  BY <1>2, <1>3, TypeStep
<1>5. EventDiscipline'  BY <1>2, <1>3, <1>4, EventStep
<1>6. Greeting'  BY <1>2, <1>3, <1>4, GreetStep
<1>7. RoomStep /\ Places'  BY <1>2, <1>3, <1>4, StepKinds
<1>8. FramesAreLegal'  BY <1>2, <1>3, SendStep
<1>9. Silence' /\ OneConversation'
  BY <1>3, <1>7, RoomSpeakers, SilenceStep, ConversationStep DEF Base
<1>10. \A d \in Conn : Serves(d)  BY <1>1, <1>3, ServerServes
<1>11. client' = client  BY DEF ServerStep, allVars, clientVars
<1>12. hangup \in [Conn -> {"none", "fin", "rst"}]
  BY DEF RoomInv, Clients, CP!ClientInv, CP!ClientTypeOK
<1>13. /\ hangup' \in [Conn -> {"none", "fin", "rst"}]
       /\ \A d \in Conn : hangup'[d] = hangup[d] \/ hangup'[d] # "none"
  <2>1. CASE ServerStep
    <3>1. \A d \in Conn : hangup'[d] \in HangupAfter(d)  BY <2>1 DEF ServerStep
    <3>2. \A d \in Conn : hangup'[d] = hangup[d] \/ hangup'[d] # "none"
      BY <3>1 DEF HangupAfter
    <3> QED  BY <2>1, <3>2 DEF ServerStep
  <2>2. CASE UNCHANGED allVars
    BY <1>12, <2>2 DEF allVars, clientVars
  <2> QED  BY <2>1, <2>2
<1> QED
  BY <1>4, <1>5, <1>6, <1>7, <1>8, <1>9, <1>10, <1>11, <1>13 DEF Steps, ServerPart, Base

(* What the server sends was queued for c before.                           *)
LEMMA WireStep ==
    ASSUME RoomInv, Steps, NEW d \in Conn
    PROVE  /\ wire'[d] \in Seq(Msg)
           /\ \/ wire'[d] = wire[d]
              \/ /\ Running /\ conn[d].state \in {"SENDING_SERVER_HELLO", "ACTIVE"}
                 /\ tcp'[d] = tcp[d] /\ arrived'[d] = arrived[d]
                 /\ \E p \in Seq(Msg), r \in Seq(Msg) :
                      wire'[d] = wire[d] \o p /\ Stream(d) = wire'[d] \o r
<1>1. wire'[d] \in Seq(Msg)
  BY DEF Steps, ServerPart, Base, TypeOK, SocketsTypeOK
<1>2. CASE Gives(d)
  <2>1. PICK k \in 0 .. Pending(d) :
           wire'[d] = wire[d] \o SubSeq(conn[d].out_buffer, conn[d].bytes_written + 1,
                                        conn[d].bytes_written + k)
    BY <1>2 DEF Gives
  <2>2. conn[d] \in Connection /\ Good(wire[d], conn[d])  BY Shapes, Objects
  <2>3. PICK o, b, w : o = conn[d].out_buffer /\ b = conn[d].bytes_written /\ w = wire[d]
    OBVIOUS
  <2>4. o \in Seq(Msg) /\ b \in Nat /\ b <= Len(o) /\ Len(o) \in Nat /\ w \in Seq(Msg)
    BY <2>2, <2>3, Shapes DEF Connection, Good
  <2>5. PICK n \in Nat : n = Len(o) - b
    <3>1. Len(o) - b \in Nat  BY <2>4
    <3> QED  BY <3>1
  <2>6. k \in 0 .. n /\ b + n = Len(o)  BY <2>3, <2>4, <2>5 DEF Pending
  <2>7. PICK p, r : p = SubSeq(o, b + 1, b + k) /\ r = SubSeq(o, b + k + 1, b + n)  OBVIOUS
  <2>8. SubSeq(o, b + 1, b + n) = p \o r
    <3>1. b + n <= Len(o)  BY <2>4, <2>6
    <3> QED  BY <2>4, <2>6, <2>7, <3>1, PieceSplits
  <2>9. p \in Seq(Msg) /\ r \in Seq(Msg)
    <3>1. k \in Nat /\ b + k <= Len(o) /\ b + k \in Nat /\ n - k \in Nat
          /\ b + k + (n - k) <= Len(o) /\ b + k + (n - k) = b + n
      BY <2>4, <2>6
    <3>2. PICK m \in Nat, j \in Nat : m = b + k /\ j = n - k  BY <3>1
    <3>3. m + j <= Len(o) /\ m + j = b + n  BY <3>1, <3>2
    <3>4. SubSeq(o, m + 1, m + j) \in Seq(Msg)  BY <2>4, <3>3, PieceShape
    <3>5. p \in Seq(Msg)  BY <2>4, <2>7, <3>1, PieceShape
    <3> QED  BY <2>7, <3>2, <3>3, <3>4, <3>5
  <2>10. Stream(d) = w \o (p \o r)  BY <2>3, <2>6, <2>8 DEF Stream
  <2>11. w \o (p \o r) = (w \o p) \o r
    <3>1. w \in Seq(Msg) /\ p \in Seq(Msg) /\ r \in Seq(Msg)  BY <2>4, <2>9
    <3>2. (w \o p) \o r = w \o (p \o r)  BY <3>1, ConcatAssociative
    <3> QED  BY <3>2
  <2> QED  BY <1>1, <1>2, <2>1, <2>3, <2>7, <2>9, <2>10, <2>11 DEF Gives
<1>3. CASE ~Gives(d)
  BY <1>1, <1>3 DEF Steps, Serves, Takes, Shuts
<1> QED  BY <1>2, <1>3

LEMMA AllFitParts ==
    ASSUME NEW c, NEW s \in Seq(Msg), NEW t \in Seq(Msg), AllFit(c, s \o t)
    PROVE  AllFit(c, s) /\ AllFit(c, t)
<1>1. ASSUME NEW i \in 1 .. Len(s) PROVE Fit(c, s[i])
  <2>1. i \in 1 .. Len(s \o t) /\ (s \o t)[i] = s[i]  OBVIOUS
  <2> QED  BY <2>1 DEF AllFit
<1>2. ASSUME NEW i \in 1 .. Len(t) PROVE Fit(c, t[i])
  <2>1. Len(s) + i \in 1 .. Len(s \o t) /\ (s \o t)[Len(s) + i] = t[i]  OBVIOUS
  <2> QED  BY <2>1 DEF AllFit
<1> QED  BY <1>1, <1>2 DEF AllFit

LEMMA AllFitAppend ==
    ASSUME NEW c, NEW s \in Seq(Msg), NEW m \in Msg, AllFit(c, s), Fit(c, m)
    PROVE  AllFit(c, Append(s, m))
<1> SUFFICES ASSUME NEW i \in 1 .. Len(Append(s, m)) PROVE Fit(c, Append(s, m)[i])
  BY DEF AllFit
<1>1. \/ i \in 1 .. Len(s) /\ Append(s, m)[i] = s[i]
      \/ Append(s, m)[i] = m
  OBVIOUS
<1> QED  BY <1>1 DEF AllFit

(* The clients' invariant allows whatever the server does.                  *)
LEMMA ClientsServed ==
    ASSUME RoomInv, Steps, hangup' \in [Conn -> {"none", "fin", "rst"}]
    PROVE  Clients'
<1>1. CP!ClientTypeOK /\ \A d \in Conn : CP!Outgoing(d)
  BY DEF RoomInv, Clients, CP!ClientInv
<1>2. CP!ClientTypeOK'
  <2>1. SocketsTypeOK'  BY DEF Steps, ServerPart, Base, TypeOK
  <2>2. CP!SocketsTypeOK'  BY <2>1, SameWords DEF CP!SocketsTypeOK, SocketsTypeOK
  <2>3. client' \in [Conn -> CP!Program]  BY <1>1 DEF Steps, CP!ClientTypeOK
  <2> QED  BY <2>2, <2>3 DEF CP!ClientTypeOK
<1>3. ASSUME NEW d \in Conn PROVE CP!Keeps(d)
  <2>1. client'[d] = client[d] /\ taken'[d] = taken[d] /\ sent'[d] = sent[d]
    BY DEF Steps, Serves
  <2>2. CASE Takes(d)
    BY <2>1, <2>2 DEF Takes, CP!Keeps, CP!ClientKind, CP!IsHeard, CP!DownSame, CP!Linked
  <2>3. CASE Shuts(d)
    BY <2>1, <2>3 DEF Shuts, CP!Keeps, CP!IsDropped, CP!DownSame
  <2>4. CASE ~Takes(d) /\ ~Shuts(d)
    <3>1. Gives(d)  BY <2>4 DEF Steps, Serves
    <3>2. Running /\ tcp'[d] = tcp[d] /\ arrived'[d] = arrived[d]  BY <3>1 DEF Gives
    <3>3. PICK p \in Seq(Msg) : wire'[d] = wire[d] \o p /\ AllFit(d, p)
      <4>1. CASE wire'[d] = wire[d]
        <5>1. wire[d] \o <<>> = wire[d] /\ <<>> \in Seq(Msg)  BY Shapes
        <5>2. AllFit(d, <<>>)  BY DEF AllFit
        <5> QED  BY <4>1, <5>1, <5>2
      <4>2. CASE wire'[d] # wire[d]
        <5>1. PICK p \in Seq(Msg), r \in Seq(Msg) :
                 wire'[d] = wire[d] \o p /\ Stream(d) = wire'[d] \o r
          BY <4>2, WireStep
        <5>2. AllFit(d, (wire[d] \o p) \o r)  BY <3>2, <5>1 DEF RoomInv, Addressed
        <5>3. wire[d] \o p \in Seq(Msg) /\ wire[d] \in Seq(Msg)
          BY <5>1, WireStep, Shapes
        <5>4. AllFit(d, wire[d] \o p)  BY <5>2, <5>3, AllFitParts
        <5>5. AllFit(d, p)  BY <5>3, <5>4, AllFitParts
        <5> QED  BY <5>1, <5>5
      <4> QED  BY <4>1, <4>2
    <3>4. \A i \in 1 .. Len(p) : p[i].says \notin CP!ChatLines(d)
      BY <3>3, SameWords DEF AllFit, Fit
    <3> QED
      BY <2>1, <3>2, <3>3, <3>4, SameWords
         DEF CP!Keeps, CP!ClientKind, CP!IsTold, CP!UpSame, CP!Linked
  <2> QED  BY <2>2, <2>3, <2>4
<1>4. CP!ClientInv'
  BY <1>2, <1>3, Assumptions, CP!ClientInvKept DEF RoomInv, Clients
<1>5. ASSUME NEW d \in Conn PROVE CP!Outgoing(d)'
  BY <1>1 DEF Steps, Serves, CP!Outgoing, CP!Exited, CP!Proper
<1> QED  BY <1>4, <1>5 DEF Clients

-----------------------------------------------------------------------------
(* What becomes of the input of a client in a step of the server.           *)

(* A line on the screen that is not one of c.                               *)
LEMMA NotSaidBy ==
    ASSUME TypeOK, TypeOK', NEW u, screen' = Append(screen, u)
    PROVE  /\ u \in Utterance(Speaker)
           /\ \A c \in Conn : u.who # c \/ u.what # "chat" => ChatsOf(c)' = ChatsOf(c)
           /\ \A c \in Conn : u.who = c /\ u.what = "chat" =>
                                ChatsOf(c)' = Append(ChatsOf(c), u)
<1>1. screen \in Seq(Utterance(Speaker)) /\ screen' \in Seq(Utterance(Speaker))
  BY DEF TypeOK, ServerTypeOK
<1>2. PICK s, t : s = screen /\ t = screen'  OBVIOUS
<1>3. t = Append(s, u) /\ s \in Seq(Utterance(Speaker)) /\ t \in Seq(Utterance(Speaker))
  BY <1>1, <1>2
<1>4. Len(s) \in Nat /\ Len(t) = Len(s) + 1 /\ t[Len(s) + 1] = u  BY <1>3
<1>5. Len(s) + 1 \in 1 .. Len(t)  BY <1>4
<1>6. t[Len(s) + 1] \in Utterance(Speaker)  BY <1>3, <1>5, ElementOfSeq
<1>7. u \in Utterance(Speaker)  BY <1>4, <1>6
<1> QED  BY <1>7, ScreenGrows

(* Nothing of it was parsed.                                                *)
Rests(c) ==
    /\ Unparsed(c)' = Unparsed(c) /\ ChatsOf(c)' = ChatsOf(c)
    /\ Ungreeted(c)' <=> Ungreeted(c)
    /\ conn'[c].state = "CLOSED" => conn[c].state = "CLOSED" \/ fin[c]
    /\ conn'[c].state = "FREED" => conn[c].state = "FREED"

(* The hello was parsed, or a line.                                         *)
Opens(c) ==
    /\ Unparsed(c) # <<>> /\ Unparsed(c)' = Tail(Unparsed(c)) /\ ChatsOf(c)' = ChatsOf(c)
    /\ Head(Unparsed(c)).type = "CLIENT_HELLO"
    /\ ~Ungreeted(c)' /\ conn'[c].state \notin {"CLOSED", "FREED"}

Voices(c) ==
    /\ Unparsed(c) # <<>> /\ Unparsed(c)' = Tail(Unparsed(c))
    /\ Head(Unparsed(c)).type = "CHAT"
    /\ ChatsOf(c)' = Append(ChatsOf(c), Head(Unparsed(c)).says)
    /\ ~Ungreeted(c) /\ ~Ungreeted(c)' /\ conn'[c].state = conn[c].state

(* The connection was deleted.                                              *)
Loses(c) ==
    /\ Unparsed(c)' = <<>> /\ ChatsOf(c)' = ChatsOf(c) /\ CP!Exited(c)
    /\ conn'[c].state = "FREED" /\ ~Linked(c)'

LEMMA StaysRests ==
    ASSUME NEW c \in Conn, Stays(c), ChatsOf(c)' = ChatsOf(c)
    PROVE  Rests(c)
  BY DEF Stays, Rests, Ungreeted

LEMMA Typed ==
    ASSUME RoomInv, Steps
    PROVE  TypeOK /\ TypeOK' /\ Places /\ Places' /\ Base
  BY DEF RoomInv, Steps, ServerPart, Base

(* The deletion of the connection of c.                                     *)
LEMMA DeletedLoses ==
    ASSUME RoomInv, Steps, Running', NEW c \in Conn, conn[c].state # "FREED",
           conn'[c].state = "FREED", Unparsed(c)' = <<>>, ChatsOf(c)' = ChatsOf(c),
           CP!Exited(c)
    PROVE  Loses(c)
<1>1. Shuts(c)  BY DEF Steps, Serves
<1>2. ~Linked(c)'  BY <1>1 DEF Shuts, Linked
<1> QED  BY <1>2 DEF Loses

(* The server has nothing against a client that has not left.               *)
LEMMA FaultyLeft ==
    ASSUME RoomInv, Running, NEW c \in Conn, Faulty(c),
           conn[c].state \in {"WAITING_FOR_CLIENT_HELLO", "ACTIVE", "CLOSED"}
    PROVE  CP!Exited(c)
<1>1. CASE fin[c] \/ rst[c]  BY <1>1 DEF RoomInv, Departed
<1>2. CASE Unparsed(c) # <<>> /\ ~Usable(c, Head(Unparsed(c)))
  <2>1. PICK m : m = Head(Unparsed(c))  OBVIOUS
  <2>2. /\ CP!Proper(c, m) /\ ~Usable(c, m)
        /\ m.type = "CLIENT_HELLO" <=> Ungreeted(c)
        /\ m.type = "CLOSE_CON" => CP!Exited(c)
    BY <1>2, <2>1, NextFrame
  <2>3. protocol_payload_length_is_legal(m.size)  BY <2>2, SameWords DEF CP!Proper
  <2>4. CASE conn[c].state = "WAITING_FOR_CLIENT_HELLO"
    <3>1. m.type = "CLIENT_HELLO"  BY <2>2, <2>4 DEF Ungreeted
    <3>2. m.size \in NameSizes  BY <2>2, <3>1 DEF CP!Proper
    <3>3. NameSizes \subseteq Nat \ {0}  BY ChatroomAssumption
    <3>4. \A n \in Nat \ {0} : n > 0  OBVIOUS
    <3>5. m.size > 0  BY <3>2, <3>3, <3>4
    <3> QED  BY <2>2, <2>3, <2>4, <3>1, <3>5 DEF Usable, AcceptableHello
  <2>5. CASE conn[c].state # "WAITING_FOR_CLIENT_HELLO"
    <3>1. ~Outside(c)  BY Shapes, Inside
    <3>2. m.type # "CLIENT_HELLO"  BY <2>2, <2>5, <3>1 DEF Ungreeted
    <3> QED  BY <2>2, <2>3, <2>5, <3>2 DEF Usable, CP!Proper
  <2> QED  BY <2>4, <2>5
<1> QED  BY <1>1, <1>2 DEF Faulty

LEMMA CalmKinds ==
    ASSUME RoomInv, Steps, Running', UNCHANGED screen,
           Idles \/ \E a \in Conn : Accepts(a) \/ Drops(a) \/ Greets(a) \/ ReadsFrom(a),
           NEW c \in Conn
    PROVE  Rests(c) \/ Opens(c) \/ Loses(c)
<1>1. ChatsOf(c)' = ChatsOf(c)  BY ChatsSame
<1>2. CASE Stays(c)  BY <1>1, <1>2, StaysRests
<1>3. CASE Accepts(c)  BY <1>1, <1>3 DEF Accepts, Rests, Ungreeted
<1>4. CASE Greets(c)  BY <1>1, <1>4 DEF Greets, Opens, Ungreeted
<1>5. CASE ReadsFrom(c)  BY <1>1, <1>5 DEF ReadsFrom, Rests, Ungreeted
<1>6. CASE Drops(c)
  <2>1. Running /\ conn[c].state # "FREED" /\ CP!Exited(c)
    BY <1>6, FaultyLeft DEF Drops, GoesOn
  <2> QED  BY <1>1, <1>6, <2>1, DeletedLoses DEF Drops
<1> QED
  BY <1>2, <1>3, <1>4, <1>5, <1>6 DEF Idles, Accepts, Drops, Greets, ReadsFrom

LEMMA EntersKind ==
    ASSUME RoomInv, Steps, NEW a \in Conn, Enters(a), NEW c \in Conn
    PROVE  Rests(c)
<1>1. PICK m \in Broadcasts : /\ m.says = [who |-> a, what |-> "connected", n |-> 0]
                              /\ screen' = Append(screen, m.says)
  BY DEF Enters
<1>2. ChatsOf(c)' = ChatsOf(c)  BY <1>1, Typed, NotSaidBy
<1>3. CASE c = a  BY <1>2, <1>3 DEF Enters, Rests, Ungreeted
<1> QED  BY <1>2, <1>3, StaysRests DEF Enters

LEMMA SpeaksKind ==
    ASSUME RoomInv, Steps, NEW a \in Conn, Speaks(a), NEW c \in Conn
    PROVE  Rests(c) \/ Voices(c)
<1>1. PICK m \in Broadcasts : /\ m.says = Head(Unparsed(a)).says
                              /\ screen' = Append(screen, m.says)
  BY DEF Speaks
<1>2. conn[a].state \in {"ACTIVE", "CLOSED"} /\ Running /\ Unparsed(a) # <<>>
  BY Typed DEF Speaks, Places, GoesOn
<1>3. m.says.who = a /\ m.says.what = "chat"
  BY <1>1, <1>2, Typed, RoomSpeakers, SomebodySpeaks DEF Speaks
<1>4. CASE c = a
  <2>1. ChatsOf(a)' = Append(ChatsOf(a), m.says)  BY <1>1, <1>3, Typed, NotSaidBy
  <2> QED  BY <1>1, <1>2, <1>4, <2>1 DEF Speaks, Voices, Ungreeted
<1>5. CASE c # a
  <2>1. ChatsOf(c)' = ChatsOf(c)  BY <1>1, <1>3, <1>5, Typed, NotSaidBy
  <2> QED  BY <1>5, <2>1, StaysRests DEF Speaks
<1> QED  BY <1>4, <1>5

LEMMA LeavesKind ==
    ASSUME RoomInv, Steps, NEW a \in Conn, Leaves(a), NEW c \in Conn
    PROVE  Rests(c) \/ Loses(c)
<1>1. PICK m \in Broadcasts : /\ m.says = [who |-> a, what |-> "disconnected", n |-> 0]
                              /\ screen' = Append(screen, m.says)
  BY DEF Leaves
<1>2. ChatsOf(c)' = ChatsOf(c)  BY <1>1, Typed, NotSaidBy
<1>3. CASE c = a
  <2>1. conn[c].state # "FREED" /\ Running /\ Running'
    BY <1>3, Typed DEF Leaves, Places, GoesOn
  <2>2. CP!Exited(c)
    BY <1>3, <2>1, NextFrame DEF Leaves, RoomInv, Departed
  <2> QED  BY <1>2, <1>3, <2>1, <2>2, DeletedLoses DEF Leaves
<1> QED  BY <1>2, <1>3, StaysRests DEF Leaves

LEMMA HostKind ==
    ASSUME RoomInv, Steps, HostSpeaks \/ Closes, NEW c \in Conn
    PROVE  Rests(c)
<1>1. PICK u : screen' = Append(screen, u) /\ u.who = Host
  BY Remarks DEF HostSpeaks, Closes
<1>2. u.who # c  BY <1>1, SocketsAssumption
<1>3. ChatsOf(c)' = ChatsOf(c)  BY <1>1, <1>2, Typed, NotSaidBy
<1> QED  BY <1>3, StaysRests DEF HostSpeaks, Closes

(* The server itself sends nothing on a client's part.                      *)
LEMMA NotSent ==
    ASSUME RoomInv, Steps, NEW a \in Conn
    PROVE  ~Sent(a)
<1>1. sent'[a] = sent[a] /\ sent[a] \in Nat  BY Shapes DEF Steps, Serves
<1> QED  BY <1>1 DEF Sent

LEMMA InputKinds ==
    ASSUME RoomInv, Steps, Running', NEW c \in Conn
    PROVE  Running /\ (Rests(c) \/ Opens(c) \/ Voices(c) \/ Loses(c))
<1>1. Running /\ ~Stops /\ ~Exits  BY Loop DEF Steps, Stops, Exits, Running
<1>2. CASE \/ Idles
           \/ \E a \in Conn : Accepts(a) \/ Drops(a) \/ Greets(a) \/ ReadsFrom(a)
  <2>1. UNCHANGED screen
    BY <1>2 DEF Idles, Accepts, Drops, Greets, ReadsFrom, Calm
  <2> QED  BY <1>1, <1>2, <2>1, CalmKinds
<1> QED
  BY <1>1, <1>2, EntersKind, SpeaksKind, LeavesKind, HostKind, NotSent DEF Steps, RoomStep
(* What becomes of the output.                                              *)
LEMMA NotOwn ==
    ASSUME NEW m \in Broadcasts, NEW c, m.says.who # c \/ m.says.what # "chat"
    PROVE  m \in Msg /\ Fit(c, m)
BY DEF Broadcasts, Fit, ChatLines

LEMMA OwnMessages ==
    ASSUME TypeOK, NEW c \in Conn
    PROVE  /\ ServerHello \in Msg /\ Fit(c, ServerHello)
           /\ CloseMessage \in Msg /\ Fit(c, CloseMessage)
           /\ ClosingNotice \in Broadcasts /\ ClosingNotice \in Msg /\ Fit(c, ClosingNotice)
<1>1. /\ ServerHello.type = "SERVER_HELLO" /\ ServerHello.says.who = Host
      /\ CloseMessage.type = "CLOSE_CON" /\ CloseMessage.size = 0
      /\ CloseMessage.says.who = Host
  BY DEF ServerHello, CloseMessage
<1>2. Fit(c, ServerHello) /\ Fit(c, CloseMessage)
  BY <1>1, SocketsAssumption DEF Fit, ChatLines
<1>3. ClosingNotice \in Broadcasts /\ ClosingNotice.says.what # "chat"  BY Remarks
<1> QED  BY <1>2, <1>3, Remarks, NotOwn

(* At most two messages are queued, or the connection is deleted.           *)
Told1(c) == \E m \in Msg : Fit(c, m) /\ Stream(c)' = Append(Stream(c), m)
Told2(c) == \E m, n \in Msg : /\ Fit(c, m) /\ Fit(c, n)
                              /\ Stream(c)' = Append(Append(Stream(c), m), n)
OutputStep(c) ==
    Stream(c)' = Stream(c) \/ Told1(c) \/ Told2(c) \/ Stream(c)' = wire'[c]

LEMMA DeletedStream ==
    ASSUME RoomInv, Steps, NEW c \in Conn, conn'[c].state = "FREED"
    PROVE  Stream(c)' = wire'[c]
<1>1. conn'[c] = NoConnection  BY Typed DEF Places
<1>2. wire'[c] \in Seq(Msg)  BY WireStep
<1>3. SubSeq(<<>>, 0 + 1, Len(<<>>)) = <<>>  OBVIOUS
<1>4. wire'[c] \o <<>> = wire'[c]  BY <1>2, ConcatEmptySeq
<1> QED  BY <1>1, <1>3, <1>4, Deleted DEF Stream

LEMMA OutputKinds ==
    ASSUME RoomInv, Steps, Running', NEW c \in Conn
    PROVE  OutputStep(c)
<1>1. ~Stops /\ ~Exits  BY DEF Stops, Exits, Running
<1>2. CASE Hushed  BY <1>2 DEF Hushed, OutputStep
<1>3. ASSUME NEW a \in Conn, Drops(a) PROVE OutputStep(c)
  BY <1>3, DeletedStream DEF Drops, OutputStep
<1>4. ASSUME NEW a \in Conn, Greets(a) PROVE OutputStep(c)
  BY <1>4, Typed, OwnMessages DEF Greets, Reaches, OutputStep, Told1
<1>5. ASSUME NEW a \in Conn, Enters(a) PROVE OutputStep(c)
  <2>1. PICK m \in Broadcasts : /\ m.says = [who |-> a, what |-> "connected", n |-> 0]
                                /\ Reaches(Active \cup {a}, m)
    BY <1>5 DEF Enters
  <2>2. m \in Msg /\ Fit(c, m)  BY <2>1, NotOwn
  <2> QED  BY <2>1, <2>2 DEF Reaches, OutputStep, Told1
<1>6. ASSUME NEW a \in Conn, Speaks(a) PROVE OutputStep(c)
  <2>1. PICK m \in Broadcasts : /\ m.says = Head(Unparsed(a)).says
                                /\ Reaches(Active \ {a}, m)
    BY <1>6 DEF Speaks
  <2>2. conn[a].state \in {"ACTIVE", "CLOSED"} /\ Running /\ Unparsed(a) # <<>>
    BY <1>6, Typed DEF Speaks, Places, GoesOn
  <2>3. m.says.who = a
    BY <2>1, <2>2, Typed, RoomSpeakers, SomebodySpeaks
  <2>4. CASE c \notin Active \ {a}  BY <2>1, <2>4 DEF Reaches, OutputStep
  <2>5. CASE c \in Active \ {a}
    <3>1. m \in Msg /\ Fit(c, m)  BY <2>3, <2>5, NotOwn
    <3> QED  BY <2>1, <2>5, <3>1 DEF Reaches, OutputStep, Told1
  <2> QED  BY <2>4, <2>5
<1>7. ASSUME NEW a \in Conn, Leaves(a) PROVE OutputStep(c)
  <2>1. PICK m \in Broadcasts :
          /\ m.says = [who |-> a, what |-> "disconnected", n |-> 0]
          /\ \A d \in Conn \ {a} :
               Stream(d)' = IF d \in Active THEN Append(Stream(d), m) ELSE Stream(d)
    BY <1>7 DEF Leaves
  <2>2. m \in Msg /\ Fit(c, m)  BY <2>1, NotOwn
  <2>3. CASE c = a  BY <1>7, <2>3, DeletedStream DEF Leaves, OutputStep
  <2>4. CASE c # a  BY <2>1, <2>2, <2>4 DEF OutputStep, Told1
  <2> QED  BY <2>3, <2>4
<1>8. CASE HostSpeaks
  <2>1. PICK m \in Broadcasts : /\ m.says.who = Host /\ Reaches(Active, m)
    BY <1>8 DEF HostSpeaks
  <2>2. m \in Msg /\ Fit(c, m)  BY <2>1, NotOwn, SocketsAssumption
  <2> QED  BY <2>1, <2>2 DEF Reaches, OutputStep, Told1
<1>9. CASE Closes
  BY <1>9, Typed, OwnMessages DEF Closes, OutputStep, Told2
<1> QED
  BY <1>1, <1>2, <1>3, <1>4, <1>5, <1>6, <1>7, <1>8, <1>9, NotSent
     DEF Steps, RoomStep, Idles, Accepts, ReadsFrom

LEMMA AddressedStep ==
    ASSUME RoomInv, Steps, NEW c \in Conn
    PROVE  Addressed(c)'
<1>1. AllFit(c, wire'[c])
  <2>1. CASE wire'[c] = wire[c]  BY <2>1 DEF RoomInv, Addressed
  <2>2. CASE wire'[c] # wire[c]
    <3>1. PICK r \in Seq(Msg) : Running /\ Stream(c) = wire'[c] \o r  BY <2>2, WireStep
    <3>2. AllFit(c, wire'[c] \o r)  BY <3>1 DEF RoomInv, Addressed
    <3> QED  BY <3>2, WireStep, AllFitParts
  <2> QED  BY <2>1, <2>2
<1>2. ASSUME Running' PROVE AllFit(c, Stream(c)')
  <2>1. Running /\ OutputStep(c)  BY <1>2, Loop, OutputKinds DEF Steps
  <2>2. AllFit(c, Stream(c)) /\ Stream(c) \in Seq(Msg)
    BY <2>1, Shapes DEF RoomInv, Addressed
  <2>3. PICK s \in Seq(Msg) : s = Stream(c)  BY <2>2
  <2>4. ASSUME NEW m \in Msg, Fit(c, m)
        PROVE  Append(s, m) \in Seq(Msg) /\ AllFit(c, Append(s, m))
    BY <2>2, <2>3, <2>4, AllFitAppend
  <2>5. CASE Told2(c)
    <3>1. PICK m \in Msg, n \in Msg : /\ Fit(c, m) /\ Fit(c, n)
                                      /\ Stream(c)' = Append(Append(s, m), n)
      BY <2>3, <2>5 DEF Told2
    <3>2. Append(s, m) \in Seq(Msg) /\ AllFit(c, Append(s, m))  BY <2>4, <3>1
    <3>3. AllFit(c, Append(Append(s, m), n))  BY <3>1, <3>2, AllFitAppend
    <3> QED  BY <3>1, <3>3
  <2> QED  BY <1>1, <2>1, <2>2, <2>3, <2>4, <2>5 DEF OutputStep, Told1
<1>3. Addressed(c)' <=> AllFit(c, wire'[c]) /\ (Running' => AllFit(c, Stream(c)'))
  BY DEF Addressed, AllFit, Fit, ChatLines
<1> QED  BY <1>1, <1>2, <1>3

(* The rest of the invariant, for the server's steps.                       *)
LEMMA SameProgramOf ==
    ASSUME client' = client, NEW c \in Conn
    PROVE  /\ CP!Own(c)' = CP!Own(c) /\ CP!Unsent(c)' = CP!Unsent(c)
           /\ CP!Exited(c)' <=> CP!Exited(c)
           /\ client'[c] = client[c]
  BY DEF CP!Own, CP!Unsent, CP!Exited

LEMMA LinkedBefore ==
    ASSUME Steps, NEW c \in Conn, Linked(c)'
    PROVE  Linked(c)
  BY DEF Steps, Serves, Takes, Gives, Shuts, Linked

(* A frame was parsed.                                                      *)
LEMMA IncomingTail ==
    ASSUME RoomInv, Running, NEW c \in Conn, Unparsed(c) # <<>>,
           NEW i \in 1 .. Len(Tail(Unparsed(c)))
    PROVE  /\ CP!Proper(c, Tail(Unparsed(c))[i])
           /\ Tail(Unparsed(c))[i].type # "CLIENT_HELLO"
           /\ Tail(Unparsed(c))[i].type = "CLOSE_CON" => CP!Exited(c)
<1>1. PICK s \in Seq(Msg) : s = Unparsed(c)  BY Shapes
<1>2. s # <<>> /\ i \in 1 .. Len(Tail(s))  BY <1>1
<1>3. /\ Len(Tail(s)) = Len(s) - 1 /\ Len(s) \in Nat
      /\ \A j \in 1 .. Len(Tail(s)) : Tail(s)[j] = s[j + 1]
  BY <1>2, HeadTailProperties
<1>4. i + 1 \in 1 .. Len(s) /\ Tail(s)[i] = s[i + 1] /\ i + 1 # 1  BY <1>2, <1>3
<1>5. /\ CP!Proper(c, s[i + 1])
      /\ s[i + 1].type = "CLIENT_HELLO" <=> Ungreeted(c) /\ i + 1 = 1
      /\ s[i + 1].type = "CLOSE_CON" => CP!Exited(c)
  BY <1>1, <1>4 DEF RoomInv, Incoming
<1> QED  BY <1>1, <1>4, <1>5

LEMMA IncomingStep ==
    ASSUME RoomInv, Steps, NEW c \in Conn
    PROVE  Incoming(c)'
<1> SUFFICES ASSUME Running' PROVE Incoming(c)'  BY DEF Incoming
<1>1. Running /\ (Rests(c) \/ Opens(c) \/ Voices(c) \/ Loses(c))  BY InputKinds
<1>2. /\ CP!Exited(c)' <=> CP!Exited(c)
      /\ sent'[c] = sent[c] /\ (Linked(c)' => Linked(c))
  BY SameProgramOf, LinkedBefore DEF Steps, Serves
<1>3. ASSUME NEW m PROVE CP!Proper(c, m)' <=> CP!Proper(c, m)
  BY DEF CP!Proper
<1>4. CASE Rests(c)
  BY <1>1, <1>2, <1>4 DEF Rests, Incoming, RoomInv, CP!Proper
<1>5. CASE Opens(c) \/ Voices(c)
  <2>1. Unparsed(c) # <<>> /\ Unparsed(c)' = Tail(Unparsed(c)) /\ ~Ungreeted(c)'
    BY <1>5 DEF Opens, Voices
  <2>2. Linked(c) => sent[c] > 0
    <3>1. Unparsed(c) \in Seq(Msg)  BY Shapes
    <3>2. Len(Unparsed(c)) > 0  BY <2>1, <3>1
    <3> QED  BY <1>1, <3>2 DEF RoomInv, Incoming
  <2>3. ASSUME NEW i \in 1 .. Len(Unparsed(c)')
        PROVE  /\ CP!Proper(c, Unparsed(c)'[i])
               /\ Unparsed(c)'[i].type # "CLIENT_HELLO"
               /\ Unparsed(c)'[i].type = "CLOSE_CON" => CP!Exited(c)
    BY <1>1, <2>1, <2>3, IncomingTail
  <2> QED  BY <1>2, <2>1, <2>2, <2>3 DEF Incoming, CP!Proper
<1>6. CASE Loses(c)
  BY <1>6 DEF Loses, Incoming
<1> QED  BY <1>1, <1>4, <1>5, <1>6

LEMMA DepartedStep ==
    ASSUME RoomInv, Steps, NEW c \in Conn
    PROVE  Departed(c)'
<1>1. /\ CP!Exited(c)' <=> CP!Exited(c)
      /\ fin'[c] = fin[c] /\ rst'[c] = rst[c]
  BY SameProgramOf DEF Steps, Serves
<1>2. (fin'[c] \/ rst'[c] => CP!Exited(c)')  BY <1>1 DEF RoomInv, Departed
<1>3. ASSUME Running', tcp'[c] = "closed" \/ conn'[c].state = "CLOSED"
      PROVE  CP!Exited(c)
  <2>1. Running /\ (Rests(c) \/ Opens(c) \/ Voices(c) \/ Loses(c))  BY <1>3, InputKinds
  <2>2. CASE conn'[c].state = "CLOSED"
    BY <2>1, <2>2 DEF Rests, Opens, Voices, Loses, RoomInv, Departed
  <2>3. CASE tcp'[c] = "closed"
    <3>1. CASE tcp[c] = "closed"  BY <2>1, <3>1 DEF RoomInv, Departed
    <3>2. CASE tcp[c] # "closed"
      <4>1. Shuts(c)  BY <2>3, <3>2 DEF Steps, Serves, Takes, Gives
      <4>2. conn[c].state # "FREED" /\ conn'[c].state = "FREED"  BY <1>3, <4>1 DEF Shuts
      <4> QED  BY <2>1, <4>2 DEF Rests, Opens, Voices, Loses
    <3> QED  BY <3>1, <3>2
  <2> QED  BY <1>3, <2>2, <2>3
<1>4. Departed(c)' <=> /\ fin'[c] \/ rst'[c] => CP!Exited(c)'
                       /\ Running' /\ (tcp'[c] = "closed" \/ conn'[c].state = "CLOSED")
                            => CP!Exited(c)'
  BY DEF Departed
<1> QED  BY <1>1, <1>2, <1>3, <1>4

(* At most the frame that is parsed next comes to the screen.               *)
LEMMA SaidBy ==
    ASSUME RoomInv, Steps, NEW c \in Conn
    PROVE  \/ ChatsOf(c)' = ChatsOf(c)
           \/ /\ Running /\ Unparsed(c) # <<>>
              /\ Head(Unparsed(c)).says \in ChatLines(c)
              /\ ChatsOf(c)' = Append(ChatsOf(c), Head(Unparsed(c)).says)
<1>1. CASE Running'
  <2>1. Running /\ (Rests(c) \/ Opens(c) \/ Voices(c) \/ Loses(c))  BY <1>1, InputKinds
  <2>2. CASE Voices(c)
    <3>1. Head(Unparsed(c)).says \in ChatLines(c)  BY <2>1, <2>2, NextFrame DEF Voices
    <3> QED  BY <2>1, <2>2, <3>1 DEF Voices
  <2> QED  BY <2>1, <2>2 DEF Rests, Opens, Loses
<1>2. CASE ~Running'
  <2>1. Idles \/ Stops \/ Exits
    <3>1. RoomStep /\ ~GoesOn  BY <1>2 DEF Steps, GoesOn
    <3>2. \A a \in Conn : ~Sent(a)  BY NotSent
    <3> QED
      BY <3>1, <3>2 DEF RoomStep, HostSpeaks, Closes, Accepts, Drops, Greets, ReadsFrom,
                        Enters, Speaks, Leaves
  <2>2. CASE screen' = screen  BY <2>2, ChatsSame
  <2>3. CASE screen' # screen
    <3>1. PICK u : Utters(u) /\ screen' = Append(screen, u)
      BY <2>1, <2>3 DEF Idles, Stops, Exits
    <3>2. Running  BY <2>1, <2>3 DEF Idles, Stops, Exits
    <3>3. CASE u.who # c \/ u.what # "chat"  BY <3>1, <3>3, Typed, NotSaidBy
    <3>4. CASE u.who = c /\ u.what = "chat"
      <4>1. PICK a \in Conn : /\ conn[a].state \in {"ACTIVE", "CLOSED"}
                              /\ Unparsed(a) # <<>> /\ Head(Unparsed(a)).type = "CHAT"
                              /\ u = Head(Unparsed(a)).says
        BY <3>1, <3>4, SocketsAssumption DEF Utters
      <4>2. a = c  BY <3>2, <3>4, <4>1, Typed, RoomSpeakers, SomebodySpeaks
      <4>3. u \in ChatLines(c)  BY <3>2, <4>1, <4>2, NextFrame
      <4>4. ChatsOf(c)' = Append(ChatsOf(c), u)  BY <3>1, <3>4, Typed, NotSaidBy
      <4> QED  BY <3>2, <4>1, <4>2, <4>3, <4>4
    <3> QED  BY <3>3, <3>4
  <2> QED  BY <2>2, <2>3
<1> QED  BY <1>1, <1>2

(* What has reached the server, and what is on its way there.               *)
Conveyed(c) == ChatsOf(c) \o LinesIn(c, Unparsed(c))

LEMMA ConveyedType ==
    ASSUME RoomInv, NEW c \in Conn
    PROVE  /\ Conveyed(c) \in Seq(Utterance(Speaker))
           /\ LinesIn(c, Unparsed(c)) \in Seq(Utterance(Speaker))
<1>1. LinesIn(c, Unparsed(c)) \in Seq(Utterance(Speaker))  BY Shapes, LinesType
<1>2. ChatsOf(c) \in Seq(Utterance(Speaker))  BY Shapes
<1> QED  BY <1>1, <1>2, ConcatProperties DEF Conveyed

LEMMA SpokenAssociative ==
    ASSUME NEW f \in Seq(Utterance(Speaker)), NEW g \in Seq(Utterance(Speaker)),
           NEW h \in Seq(Utterance(Speaker))
    PROVE  (f \o g) \o h = f \o (g \o h)
<1>1. PICK U : U = Utterance(Speaker)  OBVIOUS
<1>2. f \in Seq(U) /\ g \in Seq(U) /\ h \in Seq(U)  BY <1>1
<1> QED  BY <1>2, ConcatAssociative

(* What arrives comes behind what was there.                                *)
LEMMA ConveyedGrows ==
    ASSUME RoomInv, NEW c \in Conn, NEW s \in Seq(Msg),
           Unparsed(c)' = Unparsed(c) \o s, ChatsOf(c)' = ChatsOf(c)
    PROVE  Conveyed(c)' = Conveyed(c) \o LinesIn(c, s)
<1>1. PICK u \in Seq(Msg), x \in Seq(Utterance(Speaker)) : u = Unparsed(c) /\ x = ChatsOf(c)
  BY Shapes
<1>2. PICK lu \in Seq(Utterance(Speaker)), ls \in Seq(Utterance(Speaker)) :
        lu = LinesIn(c, u) /\ ls = LinesIn(c, s)
  BY LinesType
<1>3. (x \o lu) \o ls = x \o (lu \o ls)  BY SpokenAssociative
<1>4. LinesIn(c, u \o s) = lu \o ls  BY <1>2, LinesConcat
<1>5. Conveyed(c) = x \o lu  BY <1>1, <1>2 DEF Conveyed
<1>6. Conveyed(c)' = x \o LinesIn(c, u \o s)
  BY <1>1 DEF Conveyed, LinesIn, ChatLines
<1> QED  BY <1>2, <1>3, <1>4, <1>5, <1>6

LEMMA ConveyedStep ==
    ASSUME RoomInv, Steps, Running', NEW c \in Conn, ~Loses(c)
    PROVE  Conveyed(c)' = Conveyed(c)
<1>1. Running /\ (Rests(c) \/ Opens(c) \/ Voices(c))  BY InputKinds
<1>2. Conveyed(c)' = ChatsOf(c)' \o LinesIn(c, Unparsed(c)')
  BY DEF Conveyed, LinesIn, ChatLines
<1>3. CASE Rests(c)  BY <1>2, <1>3 DEF Rests, Conveyed
<1>4. CASE Opens(c) \/ Voices(c)
  <2>1. Unparsed(c) # <<>> /\ Unparsed(c)' = Tail(Unparsed(c))
    BY <1>4 DEF Opens, Voices
  <2>2. Head(Unparsed(c)).says \in ChatLines(c) <=> Head(Unparsed(c)).type = "CHAT"
    BY <1>1, <2>1, NextFrame
  <2>3. ChatsOf(c)' = IF Head(Unparsed(c)).says \in ChatLines(c)
                      THEN Append(ChatsOf(c), Head(Unparsed(c)).says) ELSE ChatsOf(c)
    BY <1>4, <2>2 DEF Opens, Voices
  <2>4. PICK s \in Seq(Msg), x \in Seq(Utterance(Speaker)) :
          s = Unparsed(c) /\ x = ChatsOf(c)
    BY Shapes
  <2>5. s # <<>>  BY <2>1, <2>4
  <2>6. x \o LinesIn(c, s) = (IF Head(s).says \in ChatLines(c)
                              THEN Append(x, Head(s).says) ELSE x) \o LinesIn(c, Tail(s))
    BY <2>5, LinesTail
  <2> QED  BY <1>2, <2>1, <2>3, <2>4, <2>6 DEF Conveyed
<1> QED  BY <1>1, <1>3, <1>4

LEMMA ChatsStart ==
    ASSUME RoomInv, Steps, NEW c \in Conn
    PROVE  Starts(ChatsOf(c)', CP!Own(c))
<1>1. Starts(ChatsOf(c), CP!Own(c)) /\ (Running => Starts(Conveyed(c), CP!Own(c)))
  BY DEF RoomInv, Carried, Conveyed
<1>2. CASE ChatsOf(c)' = ChatsOf(c)  BY <1>1, <1>2
<1>3. CASE /\ Running /\ Unparsed(c) # <<>>
           /\ Head(Unparsed(c)).says \in ChatLines(c)
           /\ ChatsOf(c)' = Append(ChatsOf(c), Head(Unparsed(c)).says)
  <2>1. PICK s \in Seq(Msg), x \in Seq(Utterance(Speaker)), t \in Seq(Utterance(Speaker)) :
          s = Unparsed(c) /\ x = ChatsOf(c) /\ t = CP!Own(c)
    BY Shapes
  <2>2. s # <<>> /\ Head(s).says \in ChatLines(c) /\ ChatsOf(c)' = Append(x, Head(s).says)
    BY <1>3, <2>1
  <2>3. x \o LinesIn(c, s) = (IF Head(s).says \in ChatLines(c)
                              THEN Append(x, Head(s).says) ELSE x) \o LinesIn(c, Tail(s))
    BY <2>2, LinesTail
  <2>4. Starts(x \o LinesIn(c, s), t)  BY <1>1, <1>3, <2>1 DEF Conveyed
  <2>5. Starts(Append(x, Head(s).says) \o LinesIn(c, Tail(s)), t)  BY <2>2, <2>3, <2>4
  <2>6. Head(s) \in Msg /\ Tail(s) \in Seq(Msg)  BY <2>2, HeadTailProperties
  <2>7. Head(s).says \in Utterance(Speaker)  BY <2>6, Spoken
  <2>8. /\ Append(x, Head(s).says) \in Seq(Utterance(Speaker))
        /\ LinesIn(c, Tail(s)) \in Seq(Utterance(Speaker))
    <3>1. Append(x, Head(s).says) \in Seq(Utterance(Speaker))  BY <2>7
    <3>2. LinesIn(c, Tail(s)) \in Seq(Utterance(Speaker))  BY <2>6, LinesType
    <3> QED  BY <3>1, <3>2
  <2>9. Starts(Append(x, Head(s).says), t)  BY <2>5, <2>8, StartsShorter
  <2> QED  BY <2>1, <2>2, <2>9
<1> QED  BY <1>2, <1>3, SaidBy

LEMMA CarriedIs ==
    ASSUME NEW c
    PROVE  /\ Complete(c) <=> CP!Own(c) = Conveyed(c) \o LinesIn(c, CP!Unsent(c))
           /\ Complete(c)' <=> CP!Own(c)' = Conveyed(c)' \o LinesIn(c, CP!Unsent(c)')
           /\ Carried(c) <=>
                /\ Starts(ChatsOf(c), CP!Own(c))
                /\ Running => Starts(Conveyed(c), CP!Own(c))
                /\ Running /\ ~CP!Exited(c) /\ Linked(c) => Complete(c)
           /\ Carried(c)' <=>
                /\ Starts(ChatsOf(c)', CP!Own(c)')
                /\ Running' => Starts(Conveyed(c)', CP!Own(c)')
                /\ Running' /\ ~CP!Exited(c)' /\ Linked(c)' => Complete(c)'
<1>1. Conveyed(c)' = ChatsOf(c)' \o LinesIn(c, Unparsed(c)')
  BY DEF Conveyed, LinesIn, ChatLines
<1> QED  BY <1>1 DEF Conveyed, Complete, Carried, LinesIn, ChatLines, Starts, Speaker,
                     Utterance, Topic

LEMMA CarriedStep ==
    ASSUME RoomInv, Steps, NEW c \in Conn
    PROVE  Carried(c)'
<1>1. /\ CP!Own(c)' = CP!Own(c) /\ CP!Unsent(c)' = CP!Unsent(c)
      /\ CP!Exited(c)' <=> CP!Exited(c)
  BY SameProgramOf DEF Steps
<1>2. Starts(ChatsOf(c)', CP!Own(c)')  BY <1>1, ChatsStart
<1>3. Carried(c)  BY DEF RoomInv
<1>4. ASSUME Running' PROVE Starts(Conveyed(c)', CP!Own(c)')
  <2>1. Running  BY <1>4, InputKinds
  <2>2. CASE Loses(c)
    <3>1. Conveyed(c)' = ChatsOf(c)' \o LinesIn(c, <<>>)
      BY <2>2 DEF Loses, Conveyed, LinesIn, ChatLines
    <3>2. PICK x \in Seq(Utterance(Speaker)) : x = ChatsOf(c)'
      BY <2>2, Shapes DEF Loses
    <3>3. x \o <<>> = x  BY ConcatEmptySeq
    <3> QED  BY <1>2, <3>1, <3>2, <3>3, LinesNone
  <2>3. CASE ~Loses(c)  BY <1>1, <1>3, <1>4, <2>1, <2>3, ConveyedStep, CarriedIs
  <2> QED  BY <2>2, <2>3
<1>5. ASSUME Running', ~CP!Exited(c)', Linked(c)' PROVE Complete(c)'
  <2>1. Running /\ Linked(c)  BY <1>5, InputKinds, LinkedBefore
  <2>2. ~Loses(c)  BY <1>1, <1>5 DEF Loses
  <2> QED  BY <1>1, <1>3, <1>5, <2>1, <2>2, ConveyedStep, CarriedIs
<1> QED  BY <1>2, <1>4, <1>5, CarriedIs

(* What was sent to c is on the screen.                                     *)
LEMMA ScreenSteps ==
    ASSUME RoomInv, Steps
    PROVE  screen' = screen \/ \E u \in Utterance(Speaker) : screen' = Append(screen, u)
<1>1. screen' = screen \/ \E u : screen' = Append(screen, u)
  BY DEF Steps, RoomStep, Idles, HostSpeaks, Closes, Stops, Exits, Accepts, Drops, Greets,
         ReadsFrom, Enters, Speaks, Leaves, Sent, Calm
<1> QED  BY <1>1, Typed, NotSaidBy

LEMMA ShownStays ==
    ASSUME TypeOK, NEW c \in Conn, NEW words \in Seq(Utterance(Speaker)), Shown(c, words),
           screen' = screen \/ \E u \in Utterance(Speaker) : screen' = Append(screen, u)
    PROVE  \E i \in At(c, "connected")' :
             Starts(words, Only(SubSeq(screen', i, Len(screen')),
                                Utterance(Speaker) \ ChatLines(c)))
<1> DEFINE S == Utterance(Speaker) \ ChatLines(c)
<1>1. PICK i \in At(c, "connected") : Starts(words, Only(SubSeq(screen, i, Len(screen)), S))
  BY DEF Shown
<1>2. i \in At(c, "connected")'  BY <1>1, PlacesStay
<1>3. CASE screen' = screen  BY <1>1, <1>2, <1>3
<1>4. CASE \E u \in Utterance(Speaker) : screen' = Append(screen, u)
  <2>1. PICK u \in Utterance(Speaker) : screen' = Append(screen, u)  BY <1>4
  <2>2. PICK s \in Seq(Utterance(Speaker)) : s = screen  BY DEF TypeOK, ServerTypeOK
  <2>3. i \in 1 .. Len(s) /\ Len(s) \in Nat  BY <1>1, <2>2 DEF At
  <2>4. i \in 1 .. Len(s) + 1 /\ screen' = Append(s, u) /\ Len(screen') = Len(s) + 1
    BY <2>1, <2>2, <2>3
  <2>5. PICK t : t = Only(SubSeq(s, i, Len(s)), S)  OBVIOUS
  <2>6. Only(SubSeq(Append(s, u), i, Len(s) + 1), S) = IF u \in S THEN Append(t, u) ELSE t
    <3> HIDE DEF S
    <3> QED  BY <2>4, <2>5, Later
  <2>7. t \in Seq(Utterance(Speaker))
    <3>1. SubSeq(s, i, Len(s)) \in Seq(Utterance(Speaker))  BY <2>3
    <3> HIDE DEF S
    <3> QED  BY <2>5, <3>1, OnlyType
  <2>8. Starts(words, t)  BY <1>1, <2>2, <2>5
  <2>9. Starts(words, IF u \in S THEN Append(t, u) ELSE t)  BY <2>7, <2>8, StartsGrows
  <2>10. Starts(words, Only(SubSeq(screen', i, Len(screen')), S))
    BY <2>4, <2>6, <2>9
  <2> QED  BY <1>2, <2>10
<1> QED  BY <1>3, <1>4

(* What has been sent is the beginning of what will be.                     *)
LEMMA WordsOfStream ==
    ASSUME NEW w \in Seq(Msg), NEW r \in Seq(Msg)
    PROVE  /\ Says(Only(w, Broadcasts)) \in Seq(Utterance(Speaker))
           /\ Says(Only(w \o r, Broadcasts)) \in Seq(Utterance(Speaker))
           /\ Starts(Says(Only(w, Broadcasts)), Says(Only(w \o r, Broadcasts)))
<1>1. PICK x, y : x = Only(w, Broadcasts) /\ y = Only(r, Broadcasts)  OBVIOUS
<1>2. x \in Seq(Msg) /\ y \in Seq(Msg)  BY <1>1, OnlyType
<1>3. Only(w \o r, Broadcasts) = x \o y  BY <1>1, OnlyConcat
<1>4. Says(x \o y) = Says(x) \o Says(y)  BY <1>2, Spoken, SaysConcat
<1>5. Says(x) \in Seq(Utterance(Speaker)) /\ Says(y) \in Seq(Utterance(Speaker))
  BY <1>2, Spoken, SaysType
<1>6. PICK a \in Seq(Utterance(Speaker)), b \in Seq(Utterance(Speaker)) :
        a = Says(x) /\ b = Says(y)
  BY <1>5
<1>7. a \o b \in Seq(Utterance(Speaker))  BY ConcatProperties
<1> QED  BY <1>1, <1>3, <1>4, <1>6, <1>7 DEF Starts

LEMMA StartOfNothing ==
    ASSUME NEW a \in Seq(Utterance(Speaker)), Starts(a, <<>>)
    PROVE  a = <<>>
<1>1. PICK b \in Seq(Utterance(Speaker)) : <<>> = a \o b  BY DEF Starts
<1>2. Len(a \o b) = Len(a) + Len(b) /\ Len(a) \in Nat /\ Len(b) \in Nat
  BY ConcatProperties
<1>3. Len(a \o b) = 0  BY <1>1
<1>4. Len(a) = 0  BY <1>2, <1>3
<1> QED  BY <1>4

LEMMA SentIsShown ==
    ASSUME RoomInv, Steps, NEW c \in Conn, wire'[c] # wire[c],
           NEW w, w = WordsTo(c)', w # <<>>
    PROVE  Shown(c, w)
<1>1. PICK r \in Seq(Msg) : /\ Running /\ conn[c].state \in {"SENDING_SERVER_HELLO", "ACTIVE"}
                            /\ Stream(c) = wire'[c] \o r
  BY WireStep
<1>2. PICK v \in Seq(Msg) : v = wire'[c]  BY WireStep
<1>3. w = Says(Only(v, Broadcasts))
  BY <1>2 DEF WordsTo, Broadcasts, Msg, Message, Speaker, Utterance, Topic, MessageType
<1>4. PICK h : h = Heard(c)  OBVIOUS
<1>5. h = Says(Only(v \o r, Broadcasts))  BY <1>1, <1>2, <1>4 DEF Heard
<1>6. w \in Seq(Utterance(Speaker)) /\ Starts(w, h)  BY <1>3, <1>5, WordsOfStream
<1>7. CASE conn[c].state = "SENDING_SERVER_HELLO"
  <2>1. h = <<>>  BY <1>1, <1>4, <1>7 DEF RoomInv, ServerPart, Silence, Silent
  <2> QED  BY <1>6, <2>1, StartOfNothing
<1>8. CASE conn[c].state = "ACTIVE"
  <2>1. PICK i \in At(c, "connected") :
          h = Only(SubSeq(screen, i, Len(screen)), Utterance(Speaker) \ ChatLines(c))
    BY <1>1, <1>4, <1>8 DEF RoomInv, ServerPart, OneConversation
  <2> QED  BY <1>6, <2>1 DEF Shown
<1> QED  BY <1>1, <1>7, <1>8

LEMMA OnScreenStep ==
    ASSUME RoomInv, Steps, NEW c \in Conn
    PROVE  OnScreen(c)'
<1> SUFFICES ASSUME WordsTo(c)' # <<>> PROVE Shown(c, WordsTo(c))'  BY DEF OnScreen
<1>1. PICK w : w = WordsTo(c)'  OBVIOUS
<1>2. Shown(c, w)
  <2>1. CASE wire'[c] = wire[c]
    <3>1. WordsTo(c)' = WordsTo(c)
      BY <2>1 DEF WordsTo, Broadcasts, Msg, Message, Speaker, Utterance, Topic, MessageType
    <3> QED  BY <1>1, <3>1 DEF RoomInv, OnScreen
  <2> QED  BY <1>1, <2>1, SentIsShown
<1>3. w \in Seq(Utterance(Speaker))
  <2>1. wire'[c] \in Seq(Msg) /\ <<>> \in Seq(Msg)  BY WireStep
  <2>2. Says(Only(wire'[c], Broadcasts)) \in Seq(Utterance(Speaker))
    BY <2>1, WordsOfStream
  <2>3. w = Says(Only(wire'[c], Broadcasts))
    BY <1>1 DEF WordsTo, Broadcasts, Msg, Message, Speaker, Utterance, Topic, MessageType
  <2> QED  BY <2>2, <2>3
<1>4. \E i \in At(c, "connected")' :
        Starts(w, Only(SubSeq(screen', i, Len(screen')), Utterance(Speaker) \ ChatLines(c)))
  BY <1>2, <1>3, Typed, ScreenSteps, ShownStays
<1> QED
  BY <1>1, <1>4 DEF Shown, Starts, ChatLines, Utterance, Speaker, Topic

LEMMA BlamelessStep ==
    ASSUME RoomInv, Steps, NEW c \in Conn,
           hangup'[c] = hangup[c] \/ hangup'[c] # "none"
    PROVE  Blameless(c)'
<1>1. client' = client /\ Blameless(c)  BY DEF RoomInv, Steps
<1> QED  BY <1>1 DEF Blameless, protocol_payload_length_is_legal, MAX_PAYLOAD_SIZE

LEMMA ServerKeeps ==
    ASSUME RoomInv, ServerStep \/ UNCHANGED allVars
    PROVE  RoomInv'
<1>1. /\ Steps /\ hangup' \in [Conn -> {"none", "fin", "rst"}]
      /\ \A d \in Conn : hangup'[d] = hangup[d] \/ hangup'[d] # "none"
  BY ServerSteps
<1>2. Clients'  BY <1>1, ClientsServed
<1>3. ServerPart'  BY <1>1 DEF Steps
<1> QED
  BY <1>1, <1>2, <1>3, AddressedStep, IncomingStep, DepartedStep, CarriedStep, OnScreenStep,
     BlamelessStep
     DEF RoomInv

-----------------------------------------------------------------------------
(* The clients' steps, and those of the network.                            *)
LEMMA MovesApart ==
    ASSUME RoomInv, NEW c \in Conn, Moves(c), NEW d \in Conn
    PROVE  /\ pc' = pc /\ conn' = conn /\ screen' = screen /\ wire'[d] = wire[d]
           /\ (Running' <=> Running) /\ (Outside(d)' <=> Outside(d))
           /\ (Ungreeted(d)' <=> Ungreeted(d))
           /\ Stream(d)' = Stream(d) /\ Heard(d)' = Heard(d) /\ ChatsOf(d)' = ChatsOf(d)
<1>1. /\ pc' = pc /\ conn' = conn /\ screen' = screen /\ wire'[d] = wire[d]
      /\ d # c => tcp'[d] = tcp[d]
      /\ tcp'[c] # tcp[c] => Outside(c) /\ Outside(c)'
  BY DEF Moves, serverVars
<1>2. Stream(d)' = Stream(d)  BY <1>1 DEF Stream
<1>3. Heard(d)' = Heard(d)  BY <1>2, HeardSame
<1>4. ChatsOf(d)' = ChatsOf(d)  BY <1>1, ChatsSame
<1>5. (Running' <=> Running) /\ (Outside(d)' <=> Outside(d))
  BY <1>1 DEF Running, Outside
<1> QED  BY <1>1, <1>2, <1>3, <1>4, <1>5 DEF Ungreeted

LEMMA ServerPartMoves ==
    ASSUME RoomInv, NEW c \in Conn, Moves(c), Clients'
    PROVE  ServerPart'
<1>1. /\ TypeOK /\ EventDiscipline /\ Greeting /\ Places
      /\ FramesAreLegal /\ Silence /\ OneConversation
  BY DEF RoomInv, ServerPart, Base
<1>2. UNCHANGED serverVars  BY DEF Moves
<1>3. SocketsTypeOK'
  <2>1. CP!SocketsTypeOK'  BY DEF Clients, CP!ClientInv, CP!ClientTypeOK
  <2> QED  BY <2>1, SameWords DEF CP!SocketsTypeOK, SocketsTypeOK
<1>4. TypeOK'
  BY <1>1, <1>2, <1>3 DEF TypeOK, ServerTypeOK, serverVars, userVars
<1>5. wire' = wire
  BY <1>1, <1>3 DEF Moves, TypeOK, SocketsTypeOK
<1>6. /\ pc' = pc /\ conn' = conn /\ screen' = screen /\ batch' = batch /\ reader' = reader
      /\ server_closing' = server_closing
      /\ connections' = connections
  BY <1>2 DEF serverVars, connections
<1>7. /\ \A d \in Conn : (Outside(d)' <=> Outside(d)) /\ Heard(d)' = Heard(d)
      /\ Running' <=> Running
  BY MovesApart
<1>8. \A d \in Conn : tcp'[d] \in {"none", "queued"} => tcp[d] \in {"none", "queued"}
  BY <1>7 DEF Outside
<1>9. EventDiscipline'
  BY <1>1, <1>6, <1>7, <1>8 DEF EventDiscipline, LiveDescriptors, EventOwners
<1>10. Greeting'  BY <1>1, <1>5, <1>6, <1>8 DEF Greeting
<1>11. Places'  BY <1>1, <1>6, <1>7 DEF Places
<1>12. FramesAreLegal'
  BY <1>1, <1>5, <1>6
     DEF FramesAreLegal, LegalMsg, Msg, Message, Speaker, Utterance, Topic, MessageType
<1>13. Silence'  BY <1>1, <1>6, <1>7 DEF Silence, Silent
<1>14. OneConversation'
  BY <1>1, <1>6, <1>7 DEF OneConversation, At, ChatLines, Utterance, Speaker, Topic
<1> QED
  BY <1>4, <1>9, <1>10, <1>11, <1>12, <1>13, <1>14 DEF ServerPart, Base

(* What the server tells does not change.                                   *)
LEMMA ToldMoves ==
    ASSUME RoomInv, NEW c \in Conn, Moves(c), NEW d \in Conn
    PROVE  Addressed(d)' /\ OnScreen(d)'
<1>1. /\ screen' = screen /\ wire'[d] = wire[d]
      /\ (Running' <=> Running) /\ Stream(d)' = Stream(d)
      /\ Addressed(d) /\ OnScreen(d)
  BY MovesApart DEF RoomInv
<1>2. Addressed(d)'  BY <1>1 DEF Addressed, AllFit, Fit, ChatLines
<1>3. OnScreen(d)'
  BY <1>1 DEF OnScreen, WordsTo, Shown, At, Starts, Broadcasts, Msg, Message, Speaker,
              Utterance, Topic, MessageType, ChatLines
<1> QED  BY <1>2, <1>3

(* The other clients stay as they are.                                      *)
LEMMA OthersMove ==
    ASSUME RoomInv, NEW c \in Conn, Moves(c), NEW d \in Conn \ {c}
    PROVE  Incoming(d)' /\ Departed(d)' /\ Carried(d)' /\ Blameless(d)'
<1>1. /\ client'[d] = client[d] /\ hangup'[d] = hangup[d]
      /\ arrived'[d] = arrived[d] /\ sent'[d] = sent[d]
      /\ tcp'[d] = tcp[d] /\ fin'[d] = fin[d] /\ rst'[d] = rst[d]
  BY DEF Moves
<1>2. /\ conn' = conn /\ (Running' <=> Running) /\ (Ungreeted(d)' <=> Ungreeted(d))
      /\ ChatsOf(d)' = ChatsOf(d)
  BY MovesApart
<1>3. /\ Unparsed(d)' = Unparsed(d) /\ CP!Own(d)' = CP!Own(d)
      /\ CP!Unsent(d)' = CP!Unsent(d) /\ (CP!Exited(d)' <=> CP!Exited(d))
      /\ (Linked(d)' <=> Linked(d))
  BY <1>1, <1>2 DEF Unparsed, CP!Own, CP!Unsent, CP!Exited, Linked
<1>4. Incoming(d) /\ Departed(d) /\ Carried(d) /\ Blameless(d)  BY DEF RoomInv
<1>5. Incoming(d)'  BY <1>1, <1>2, <1>3, <1>4 DEF Incoming, CP!Proper
<1>6. Departed(d)'  BY <1>1, <1>2, <1>3, <1>4 DEF Departed
<1>7. Carried(d)'
  <2>1. Conveyed(d)' = Conveyed(d)  BY <1>2, <1>3 DEF Conveyed, LinesIn, ChatLines
  <2> QED  BY <1>2, <1>3, <1>4, <2>1, CarriedIs
<1>8. Blameless(d)'
  BY <1>1, <1>4 DEF Blameless, protocol_payload_length_is_legal, MAX_PAYLOAD_SIZE
<1> QED  BY <1>5, <1>6, <1>7, <1>8

LEMMA DepartedMoves ==
    ASSUME RoomInv, NEW c \in Conn, Moves(c)
    PROVE  Departed(c)'
<1>1. conn' = conn /\ (Running' <=> Running)  BY MovesApart
<1>2. /\ CP!Exited(c) => CP!Exited(c)'
      /\ (fin'[c] = fin[c] /\ rst'[c] = rst[c]) \/ CP!Exited(c)'
      /\ tcp'[c] # tcp[c] => tcp'[c] # "closed"
  BY DEF Moves, Outside
<1> QED  BY <1>1, <1>2 DEF RoomInv, Departed

(* A client that is not connected yet has said nothing.                     *)
LEMMA NothingYet ==
    ASSUME RoomInv, Running, NEW c \in Conn, Outside(c), Fresh(c)
    PROVE  Unparsed(c) = <<>> /\ ChatsOf(c) = <<>> /\ Complete(c)
<1>1. conn[c].state = "FREED"  BY Shapes, Inside
<1>2. conn[c].in_buffer = <<>>  BY <1>1, Shapes, Deleted DEF Places
<1>3. Unparsed(c) = <<>>  BY <1>2, NothingLeft DEF Fresh, Unparsed
<1>4. \A i \in 1 .. Len(screen) : screen[i].who # c
  BY DEF RoomInv, ServerPart, Silence, Silent
<1>5. ChatsOf(c) = <<>>  BY <1>4, Shapes, Quiet
<1>6. LinesIn(c, <<>>) = <<>>  BY LinesNone
<1>7. (<<>> \o <<>>) \o <<>> = <<>>  OBVIOUS
<1> QED  BY <1>3, <1>5, <1>6, <1>7 DEF Fresh, Complete

(* What arrives is behind what was there.                                   *)
LEMMA UnparsedGrows ==
    ASSUME RoomInv, NEW c \in Conn, Moves(c), NEW s \in Seq(Msg), CP!Delivers(c, s)
    PROVE  Unparsed(c)' = IF Linked(c) THEN Unparsed(c) \o s ELSE Unparsed(c)
<1>1. conn' = conn  BY MovesApart
<1>2. arrived'[c] = IF Linked(c) THEN arrived[c] \o s ELSE arrived[c]
  BY SameWords DEF CP!Delivers
<1>3. PICK b \in Seq(Msg), a \in Seq(Msg) : b = conn[c].in_buffer /\ a = arrived[c]
  BY Shapes
<1>4. (b \o a) \o s = b \o (a \o s)  BY ConcatAssociative
<1>5. Unparsed(c) = b \o a /\ Unparsed(c)' = b \o arrived'[c]
  BY <1>1, <1>3 DEF Unparsed
<1> QED  BY <1>2, <1>3, <1>4, <1>5

LEMMA UnparsedStays ==
    ASSUME RoomInv, NEW c \in Conn, Moves(c), arrived'[c] = arrived[c]
    PROVE  Unparsed(c)' = Unparsed(c)
<1>1. conn' = conn  BY MovesApart
<1> QED  BY <1>1 DEF Unparsed

LEMMA IncomingMoves ==
    ASSUME RoomInv, NEW c \in Conn, Moves(c)
    PROVE  Incoming(c)'
<1> SUFFICES ASSUME Running PROVE Incoming(c)'  BY MovesApart DEF Incoming
<1>1. /\ Ungreeted(c)' <=> Ungreeted(c)
      /\ CP!Exited(c) => CP!Exited(c)'
  BY MovesApart DEF Moves
<1>2. PICK u \in Seq(Msg), n \in Nat : u = Unparsed(c) /\ n = sent[c]  BY Shapes
<1>3. /\ \A i \in 1 .. Len(u) :
           /\ CP!Proper(c, u[i])
           /\ u[i].type = "CLIENT_HELLO" <=> Ungreeted(c) /\ i = 1
           /\ u[i].type = "CLOSE_CON" => CP!Exited(c)
      /\ Linked(c) => IF Ungreeted(c) THEN Len(u) = n ELSE n > 0
  BY <1>2 DEF RoomInv, Incoming
<1>4. ASSUME NEW v \in Seq(Msg), NEW k \in Nat, v = Unparsed(c)', k = sent'[c],
             \A i \in 1 .. Len(v) :
               /\ CP!Proper(c, v[i])
               /\ v[i].type = "CLIENT_HELLO" <=> Ungreeted(c) /\ i = 1
               /\ v[i].type = "CLOSE_CON" => CP!Exited(c)',
             Linked(c)' => IF Ungreeted(c) THEN Len(v) = k ELSE k > 0
      PROVE  Incoming(c)'
  BY <1>1, <1>4 DEF Incoming, CP!Proper
<1>5. CASE tcp'[c] # tcp[c]
  <2>1. /\ Outside(c) /\ Fresh(c) /\ arrived'[c] = arrived[c] /\ sent'[c] = sent[c]
    BY <1>5 DEF Moves
  <2>2. u = <<>> /\ n = 0  BY <1>2, <2>1, NothingYet DEF Fresh
  <2>3. Unparsed(c)' = u /\ sent'[c] = n  BY <1>2, <2>1, UnparsedStays
  <2>4. Ungreeted(c)  BY <2>1 DEF Ungreeted
  <2>5. \A i \in 1 .. Len(u) :
           /\ CP!Proper(c, u[i])
           /\ u[i].type = "CLIENT_HELLO" <=> Ungreeted(c) /\ i = 1
           /\ u[i].type = "CLOSE_CON" => CP!Exited(c)'
    BY <2>2
  <2>6. Len(u) = n  BY <2>2
  <2> QED  BY <1>4, <2>3, <2>4, <2>5, <2>6
<1>6. CASE tcp'[c] = tcp[c] /\ arrived'[c] = arrived[c] /\ sent'[c] = sent[c]
  <2>1. Unparsed(c)' = u /\ sent'[c] = n /\ (Linked(c)' <=> Linked(c))
    BY <1>2, <1>6, UnparsedStays DEF Linked
  <2> QED  BY <1>1, <1>3, <1>4, <2>1
<1>7. ASSUME tcp'[c] = tcp[c], NEW s \in Seq(Msg), CP!Delivers(c, s) PROVE Incoming(c)'
  <2>1. Unparsed(c)' = IF Linked(c) THEN u \o s ELSE u  BY <1>2, <1>7, UnparsedGrows
  <2>2. Linked(c)' <=> Linked(c)  BY <1>7 DEF Linked
  <2>3. /\ sent'[c] = n + Len(s) /\ Len(s) \in Nat
        /\ \A j \in 1 .. Len(s) :
             /\ CP!Proper(c, s[j])
             /\ s[j].type = "CLIENT_HELLO" <=> n + j = 1
             /\ s[j].type = "CLOSE_CON" => CP!Exited(c)'
    BY <1>2, <1>7 DEF CP!Delivers, CP!Exited
  <2>4. n + Len(s) \in Nat  BY <2>3
  <2>5. CASE ~Linked(c)
    <3>1. Unparsed(c)' = u /\ ~Linked(c)'  BY <2>1, <2>2, <2>5
    <3> QED  BY <1>1, <1>3, <1>4, <2>3, <2>4, <3>1
  <2>6. CASE Linked(c)
    <3>1. PICK v : v = u \o s  OBVIOUS
    <3>2. /\ v \in Seq(Msg) /\ Len(v) = Len(u) + Len(s) /\ Len(u) \in Nat
          /\ \A i \in 1 .. Len(u) : v[i] = u[i]
          /\ \A j \in 1 .. Len(s) : v[Len(u) + j] = s[j]
      BY <2>3, <3>1
    <3>3. Len(u) = n \/ (~Ungreeted(c) /\ n > 0)  BY <1>3, <2>6
    <3>4. ASSUME NEW i \in 1 .. Len(v)
          PROVE  /\ CP!Proper(c, v[i])
                 /\ v[i].type = "CLIENT_HELLO" <=> Ungreeted(c) /\ i = 1
                 /\ v[i].type = "CLOSE_CON" => CP!Exited(c)'
      <4>1. CASE i <= Len(u)
        <5>1. i \in 1 .. Len(u) /\ v[i] = u[i]  BY <3>2, <3>4, <4>1
        <5> QED  BY <1>1, <1>3, <5>1
      <4>2. CASE i > Len(u)
        <5>1. i - Len(u) \in 1 .. Len(s) /\ Len(u) + (i - Len(u)) = i
          BY <2>3, <3>2, <3>4, <4>2
        <5>2. PICK j \in 1 .. Len(s) : j = i - Len(u) /\ Len(u) + j = i  BY <5>1
        <5>3. v[i] = s[j]  BY <3>2, <5>2
        <5>4. n + j = 1 <=> Ungreeted(c) /\ i = 1
          BY <1>3, <2>3, <2>6, <3>2, <5>2
        <5> QED  BY <2>3, <5>3, <5>4
      <4> QED  BY <3>2, <3>4, <4>1, <4>2
    <3>5. IF Ungreeted(c) THEN Len(v) = n + Len(s) ELSE n + Len(s) > 0
      BY <1>3, <2>3, <2>6, <3>2
    <3>6. v = Unparsed(c)' /\ n + Len(s) = sent'[c]  BY <2>1, <2>3, <2>6, <3>1
    <3> QED  BY <1>4, <2>4, <3>2, <3>4, <3>5, <3>6
  <2> QED  BY <2>5, <2>6
<1>8. ASSUME NEW m \in Msg, CP!Queues(c, m)
      PROVE  arrived'[c] = arrived[c] /\ sent'[c] = sent[c]
  BY <1>8 DEF CP!Queues, CP!UpSame
<1>9. (\E s \in Seq(Msg) : CP!Delivers(c, s)) \/ (\E m \in Msg : CP!Queues(c, m))
  BY DEF Moves
<1> QED  BY <1>5, <1>6, <1>7, <1>8, <1>9

(* The lines of c are complete before a step that leaves it connected.      *)
LEMMA CompleteBefore ==
    ASSUME RoomInv, Running, NEW c \in Conn, Moves(c), ~CP!Exited(c)', Linked(c)'
    PROVE  Complete(c)
<1>1. CASE tcp'[c] = tcp[c]  BY <1>1 DEF RoomInv, Carried, Moves, Linked
<1>2. CASE tcp'[c] # tcp[c]  BY <1>2, NothingYet DEF Moves
<1> QED  BY <1>1, <1>2

LEMMA CarriedQueues ==
    ASSUME RoomInv, NEW c \in Conn, Moves(c), NEW m \in Msg, CP!Queues(c, m)
    PROVE  Carried(c)'
<1>1. /\ ChatsOf(c)' = ChatsOf(c) /\ (Running' <=> Running)
      /\ arrived'[c] = arrived[c]
      /\ CP!Unsent(c)' = Append(CP!Unsent(c), m)
      /\ CP!Own(c)' = IF m.says \in ChatLines(c)
                      THEN Append(CP!Own(c), m.says) ELSE CP!Own(c)
  BY MovesApart, SameWords DEF CP!Queues, CP!UpSame
<1>2. Conveyed(c)' = Conveyed(c)
  <2>1. Unparsed(c)' = Unparsed(c)  BY <1>1, UnparsedStays
  <2> QED  BY <1>1, <2>1 DEF Conveyed, LinesIn, ChatLines
<1>3. PICK own \in Seq(Utterance(Speaker)), q \in Seq(Msg), x \in Seq(Utterance(Speaker)),
           z \in Seq(Utterance(Speaker)) :
        own = CP!Own(c) /\ q = CP!Unsent(c) /\ x = ChatsOf(c) /\ z = Conveyed(c)
  BY Shapes, ConveyedType
<1>4. m.says \in Utterance(Speaker)  BY Spoken
<1>5. ASSUME NEW t \in Seq(Utterance(Speaker)), Starts(t, own)
      PROVE  Starts(t, CP!Own(c)')
  BY <1>1, <1>3, <1>4, <1>5, StartsGrows
<1>6. Carried(c)  BY DEF RoomInv
<1>7. Starts(x, own) /\ (Running => Starts(z, own))  BY <1>3, <1>6, CarriedIs
<1>8. ASSUME Running, ~CP!Exited(c)', Linked(c)' PROVE Complete(c)'
  <2>1. own = z \o LinesIn(c, q)  BY <1>3, <1>8, CompleteBefore, CarriedIs
  <2>2. LinesIn(c, Append(q, m)) = IF m.says \in ChatLines(c)
                                   THEN Append(LinesIn(c, q), m.says) ELSE LinesIn(c, q)
    BY LinesAppend
  <2>3. PICK l \in Seq(Utterance(Speaker)) : l = LinesIn(c, q)  BY LinesType
  <2>4. z \o Append(l, m.says) = Append(z \o l, m.says)  BY <1>4, ConcatAppend
  <2>5. CP!Own(c)' = z \o LinesIn(c, Append(q, m))
    BY <1>1, <1>3, <2>1, <2>2, <2>3, <2>4
  <2> QED  BY <1>1, <1>2, <1>3, <2>5, CarriedIs
<1>9. Starts(ChatsOf(c)', CP!Own(c)')  BY <1>1, <1>3, <1>5, <1>7
<1>10. Running => Starts(Conveyed(c)', CP!Own(c)')  BY <1>2, <1>3, <1>5, <1>7
<1> QED  BY <1>1, <1>8, <1>9, <1>10, CarriedIs

LEMMA CarriedDelivers ==
    ASSUME RoomInv, NEW c \in Conn, Moves(c), NEW s \in Seq(Msg), CP!Delivers(c, s),
           CP!Exited(c) => s = <<>>
    PROVE  Carried(c)'
<1>1. ChatsOf(c)' = ChatsOf(c) /\ (Running' <=> Running)  BY MovesApart
<1>2. CP!Own(c)' = CP!Own(c)  BY DEF CP!Delivers
<1>3. PICK rest \in Seq(Msg) :
        CP!Unsent(c) = s \o rest /\ (~CP!Exited(c)' => CP!Unsent(c)' = rest)
  <2>1. PICK rest \in Seq(Msg) : /\ CP!Unsent(c) = s \o rest
                                 /\ client'[c].pc # "exited" => CP!Unsent(c)' = rest
    BY SameWords DEF CP!Delivers
  <2>2. ~CP!Exited(c)' => client'[c].pc # "exited"  BY DEF CP!Exited
  <2> QED  BY <2>1, <2>2
<1>4. PICK u \in Seq(Msg), own \in Seq(Utterance(Speaker)), x \in Seq(Utterance(Speaker)),
           z \in Seq(Utterance(Speaker)) :
        u = Unparsed(c) /\ own = CP!Own(c) /\ x = ChatsOf(c) /\ z = Conveyed(c)
  BY Shapes, ConveyedType
<1>5. PICK ls \in Seq(Utterance(Speaker)), lr \in Seq(Utterance(Speaker)) :
        ls = LinesIn(c, s) /\ lr = LinesIn(c, rest)
  BY LinesType
<1>6. LinesIn(c, s \o rest) = ls \o lr  BY <1>5, LinesConcat
<1>7. Conveyed(c)' = IF Linked(c) THEN z \o ls ELSE z
  <2>1. CASE Linked(c)
    <3>1. Unparsed(c)' = Unparsed(c) \o s  BY <2>1, UnparsedGrows
    <3>2. Conveyed(c)' = Conveyed(c) \o LinesIn(c, s)  BY <1>1, <3>1, ConveyedGrows
    <3> QED  BY <1>4, <1>5, <2>1, <3>2
  <2>2. CASE ~Linked(c)
    <3>1. Unparsed(c)' = Unparsed(c)  BY <2>2, UnparsedGrows
    <3>2. Conveyed(c)' = Conveyed(c)  BY <1>1, <3>1 DEF Conveyed, LinesIn, ChatLines
    <3> QED  BY <1>4, <2>2, <3>2
  <2> QED  BY <2>1, <2>2
<1>8. (z \o ls) \o lr = z \o (ls \o lr)
  <2>1. /\ z \in Seq(Utterance(Speaker)) /\ ls \in Seq(Utterance(Speaker))
        /\ lr \in Seq(Utterance(Speaker))
    OBVIOUS
  <2> QED  BY ONLY <2>1, SpokenAssociative, Zenon
<1>9. Carried(c)  BY DEF RoomInv
<1>10. Starts(x, own) /\ (Running => Starts(z, own))  BY <1>4, <1>9, CarriedIs
<1>11. Complete(c) => own = (z \o ls) \o lr
  BY <1>3, <1>4, <1>6, <1>8, CarriedIs
<1>12. ASSUME Running PROVE Starts(Conveyed(c)', own)
  <2>1. CASE ~Linked(c)  BY <1>7, <1>10, <1>12, <2>1
  <2>2. CASE Linked(c) /\ CP!Exited(c)
    <3>1. ls = <<>>  BY <1>5, <2>2, LinesNone
    <3>2. z \o <<>> = z  BY ConcatEmptySeq
    <3> QED  BY <1>7, <1>10, <1>12, <2>2, <3>1, <3>2
  <2>3. CASE Linked(c) /\ ~CP!Exited(c)
    <3>1. own = (z \o ls) \o lr  BY <1>9, <1>11, <1>12, <2>3, CarriedIs
    <3>2. Starts(z \o ls, own)  BY <3>1 DEF Starts
    <3> QED  BY <1>7, <2>3, <3>2
  <2> QED  BY <2>1, <2>2, <2>3
<1>13. ASSUME Running, ~CP!Exited(c)', Linked(c)' PROVE Complete(c)'
  <2>1. own = (z \o ls) \o lr  BY <1>11, <1>13, CompleteBefore
  <2>2. CP!Unsent(c)' = rest  BY <1>3, <1>13
  <2>3. CASE Linked(c)
    <3>1. Conveyed(c)' = z \o ls  BY <1>7, <2>3
    <3> QED  BY <1>2, <1>4, <1>5, <2>1, <2>2, <3>1, CarriedIs
  <2>4. CASE ~Linked(c)
    <3>1. tcp'[c] # tcp[c]  BY <1>13, <2>4 DEF Linked
    <3>2. sent[c] = 0 /\ sent'[c] = sent[c]  BY <3>1 DEF Moves, Fresh
    <3>3. Len(s) = 0
      <4>1. sent'[c] = sent[c] + Len(s)  BY DEF CP!Delivers
      <4> QED  BY <3>2, <4>1
    <3>4. s = <<>>  BY <3>3
    <3>5. ls = <<>>  BY <1>5, <3>4, LinesNone
    <3>6. z \o <<>> = z  BY ConcatEmptySeq
    <3>7. own = z \o lr  BY <2>1, <3>5, <3>6
    <3>8. Conveyed(c)' = z  BY <1>7, <2>4
    <3> QED  BY <1>2, <1>4, <1>5, <2>2, <3>7, <3>8, CarriedIs
  <2> QED  BY <2>3, <2>4
<1> QED  BY <1>1, <1>2, <1>4, <1>10, <1>12, <1>13, CarriedIs

LEMMA CarriedMoves ==
    ASSUME RoomInv, NEW c \in Conn, Moves(c)
    PROVE  Carried(c)'
  BY CarriedQueues, CarriedDelivers DEF Moves

(* A client ends in CONNECTION_ERROR for a good reason only.                *)
LEMMA ServerIsExpectable ==
    ASSUME RoomInv, NEW c \in Conn
    PROVE  CP!Expectable(c)
<1>1. PICK w \in Seq(Msg) : w = wire[c]  BY Shapes
<1>2. StartsWithHello(w)
  <2>1. /\ Good(wire[c], conn[c]) /\ conn[c] \in Connection
    BY Shapes, Objects
  <2>2. PICK r \in Seq(Msg) : r = SubSeq(conn[c].out_buffer, conn[c].bytes_written + 1,
                                         Len(conn[c].out_buffer))
    BY <1>1, <2>1, StreamType
  <2>3. StartsWithHello(w \o r)  BY <1>1, <2>1, <2>2 DEF Good, StreamOf
  <2> QED  BY <2>3, HelloPrefix
<1>3. AllFit(c, w)  BY <1>1 DEF RoomInv, Addressed
<1>4. w \in Seq(LegalMsg)  BY <1>1 DEF RoomInv, ServerPart, FramesAreLegal
<1>5. ASSUME NEW n \in 1 .. Len(w)
      PROVE  /\ protocol_payload_length_is_legal(w[n].size)
             /\ n = 1 => w[n].type = "SERVER_HELLO"
             /\ n > 1 => w[n].type = "BROADCAST" \/ (w[n].type = "CLOSE_CON" /\ w[n].size = 0)
  <2>1. w[n] \in LegalMsg  BY <1>4, <1>5, ElementOfSeq
  <2>2. protocol_payload_length_is_legal(w[n].size)  BY <2>1 DEF LegalMsg
  <2>3. w[n].type = "SERVER_HELLO" <=> n = 1  BY <1>2, <1>5 DEF StartsWithHello
  <2>4. Fit(c, w[n])  BY <1>3, <1>5 DEF AllFit
  <2>5. n \in Nat  BY <1>5
  <2> QED  BY <2>2, <2>3, <2>4, <2>5 DEF Fit
<1> QED  BY <1>1, <1>5, SameWords DEF CP!Expectable

LEMMA BlamelessMoves ==
    ASSUME RoomInv, NEW c \in Conn, Moves(c), ClientStep(c) \/ client'[c] = client[c]
    PROVE  Blameless(c)'
<1> SUFFICES ASSUME client'[c].state = "CONNECTION_ERROR"
             PROVE  hangup'[c] # "none" \/ ~protocol_payload_length_is_legal(client'[c].name)
  BY DEF Blameless, protocol_payload_length_is_legal, MAX_PAYLOAD_SIZE
<1>1. Blameless(c)  BY DEF RoomInv
<1>2. hangup'[c] \in {hangup[c], "rst"} /\ client'[c].name = client[c].name
  BY DEF Moves
<1>3. \/ client[c].state = "CONNECTION_ERROR" \/ hangup[c] # "none"
      \/ ~protocol_payload_length_is_legal(client[c].name)
  <2>1. CASE ClientStep(c)
    <3>1. CP!ClientNext(c)  BY <2>1, SameProgram DEF ClientStep
    <3>2. CP!ClientTypeOK /\ CP!Bounds(c) /\ CP!Stage(c)
      <4>1. Clients  BY DEF RoomInv
      <4> QED  BY <4>1, Fields
    <3>3. \/ client[c].state = "CONNECTION_ERROR" \/ hangup[c] # "none"
          \/ ~CP!protocol_payload_length_is_legal(client[c].name)
      BY <3>1, <3>2, ServerIsExpectable, Assumptions, CP!ErrorCause
    <3> QED  BY <3>3, SameWords
  <2> QED  BY <2>1
<1> QED  BY <1>1, <1>2, <1>3 DEF Blameless

LEMMA MovesKeep ==
    ASSUME RoomInv, NEW c \in Conn, Moves(c), Clients',
           ClientStep(c) \/ client'[c] = client[c]
    PROVE  RoomInv'
<1>1. ServerPart'  BY ServerPartMoves
<1>2. \A d \in Conn : Addressed(d)' /\ OnScreen(d)'  BY ToldMoves
<1>3. \A d \in Conn \ {c} : Incoming(d)' /\ Departed(d)' /\ Carried(d)' /\ Blameless(d)'
  BY OthersMove
<1>4. Incoming(c)' /\ Departed(c)' /\ Carried(c)' /\ Blameless(c)'
  BY IncomingMoves, DepartedMoves, CarriedMoves, BlamelessMoves
<1> QED  BY <1>1, <1>2, <1>3, <1>4 DEF RoomInv

LEMMA ClientKeeps ==
    ASSUME RoomInv, NEW c \in Conn, ClientStep(c) \/ NetworkStep(c)
    PROVE  RoomInv'
<1>1. Clients  BY DEF RoomInv
<1>2. CASE ClientStep(c)  BY <1>1, <1>2, ProgramMoves, MovesKeep
<1>3. CASE NetworkStep(c)
  <2>1. Moves(c) /\ Clients'  BY <1>1, <1>3, NetworkMoves
  <2>2. CP!NetworkNext(c)  BY <1>3, SameNetwork DEF NetworkStep
  <2>3. CP!ClientTypeOK  BY <1>1, Fields
  <2>4. client'[c] = client[c]  BY <2>2, <2>3, Assumptions, CP!NetworkEnds
  <2> QED  BY <2>1, <2>4, MovesKeep
<1> QED  BY <1>2, <1>3

-----------------------------------------------------------------------------
(* The beginning.                                                           *)
LEMMA RoomStarted ==
    ASSUME RoomInit
    PROVE  RoomInv
<1>1. Init /\ CP!ClientInit  BY SameClient DEF RoomInit
<1>2. SocketsInit  BY <1>1 DEF Init
<1>3. ServerPart
  <2>1. Base /\ Silence  BY <1>1, Started DEF Ordered
  <2>2. FramesAreLegal  BY <1>1, InitSends
  <2>3. OneConversation  BY <1>1 DEF Init, OneConversation, NoConnection
  <2> QED  BY <2>1, <2>2, <2>3 DEF ServerPart
<1>4. CP!ClientInv
  <2>1. CP!Init  BY <1>1, <1>2, SameWords DEF CP!Init
  <2> QED  BY <2>1, Assumptions, CP!ClientInvInit
<1>5. PICK names \in [Conn -> NameSizes] :
        client = [c \in Conn |->
          [pc |-> "start", state |-> "NONE", quitting |-> FALSE, name |-> names[c],
           out_buffer |-> <<>>, bytes_written |-> 0, interest |-> {},
           batch |-> {}, shown |-> <<>>, typed |-> 0]]
  BY <1>1 DEF CP!ClientInit
<1>6. ASSUME NEW c \in Conn
      PROVE  /\ CP!Outgoing(c)
             /\ Addressed(c) /\ Incoming(c) /\ Departed(c)
             /\ Carried(c) /\ OnScreen(c) /\ Blameless(c)
  <2>1. /\ tcp[c] = "none" /\ arrived[c] = <<>> /\ ~fin[c] /\ ~rst[c]
        /\ wire[c] = <<>> /\ sent[c] = 0
    BY <1>2 DEF SocketsInit
  <2>2. /\ conn[c] = NoConnection /\ screen = <<>>
    BY <1>1 DEF Init
  <2>3. /\ client[c].pc = "start" /\ client[c].state = "NONE"
        /\ client[c].name \in NameSizes
        /\ client[c].out_buffer = <<>> /\ client[c].bytes_written = 0
        /\ client[c].shown = <<>>
    BY <1>5
  <2>4. CP!Outgoing(c)  BY <2>3 DEF CP!Outgoing
  <2>5. SubSeq(<<>>, 0 + 1, Len(<<>>)) = <<>> /\ <<>> \o <<>> = <<>>
    BY NothingLeft
  <2>6. Stream(c) = <<>>  BY <2>1, <2>2, <2>5, Deleted DEF Stream
  <2>7. Unparsed(c) = <<>>  BY <2>1, <2>2, <2>5, Deleted DEF Unparsed
  <2>8. Addressed(c)  BY <2>1, <2>6 DEF Addressed, AllFit
  <2>9. Outside(c) /\ ~Linked(c)  BY <2>1 DEF Outside, Linked
  <2>10. Incoming(c)  BY <2>7, <2>9 DEF Incoming
  <2>11. Departed(c)  BY <2>1, <2>2, Deleted DEF Departed
  <2>12. ChatsOf(c) = <<>> /\ CP!Own(c) = <<>>
    BY <2>2, <2>3, OnlyEmpty, SameWords DEF ChatsOf, CP!Own
  <2>13. Conveyed(c) = <<>>  BY <2>5, <2>7, <2>12, LinesNone DEF Conveyed
  <2>14. Starts(<<>>, <<>>)
    <3>1. <<>> \in Seq(Utterance(Speaker))  OBVIOUS
    <3> QED  BY <3>1, StartsSame
  <2>15. Carried(c)  BY <2>9, <2>12, <2>13, <2>14, CarriedIs
  <2>16. WordsTo(c) = <<>>
    <3>1. Only(wire[c], Broadcasts) = <<>>  BY <2>1, OnlyEmpty
    <3>2. Says(<<>>) = <<>>
      <4>1. <<>> \in Seq(Msg)  OBVIOUS
      <4>2. Says(<<>>) \in Seq(Utterance(Speaker)) /\ Len(Says(<<>>)) = Len(<<>>)
        BY <4>1, Spoken, SaysType
      <4> QED  BY <4>2
    <3> QED  BY <3>1, <3>2 DEF WordsTo
  <2>17. OnScreen(c)  BY <2>16 DEF OnScreen
  <2>18. Blameless(c)  BY <2>3 DEF Blameless
  <2> QED  BY <2>4, <2>8, <2>10, <2>11, <2>15, <2>17, <2>18
<1> QED  BY <1>3, <1>4, <1>6 DEF RoomInv, Clients

LEMMA RoomInvStep == RoomInv /\ [ChatroomNext]_allVars => RoomInv'
  BY ServerKeeps, ClientKeeps DEF ChatroomNext

LEMMA RoomInvariant == ChatroomSpec => []RoomInv
<1>1. RoomInit => RoomInv  BY RoomStarted
<1> QED  BY <1>1, RoomInvStep, PTL DEF ChatroomSpec

-----------------------------------------------------------------------------
(* The two programs make the room.                                          *)

(* The order of the lines, and the server's farewell.                       *)
Company == HostOrder /\ Typing /\ Farewell /\ \A c \in Conn : CP!Numbered(c)

LEMMA CompanyServed ==
    ASSUME RoomInv, Company, ServerStep \/ UNCHANGED allVars
    PROVE  Company'
<1>1. Steps  BY ServerSteps
<1>2. [Next]_vars  BY DEF ServerStep, allVars, vars, Next
<1>3. /\ Base /\ TypeOK /\ EventDiscipline /\ Speakers
      /\ Base' /\ TypeOK' /\ RoomStep
  BY <1>1, RoomSpeakers DEF RoomInv, Steps, ServerPart, Base
<1>4. HostOrder' /\ Typing' /\ Farewell'
  BY <1>2, <1>3, HostStep, TypedStep, FarewellStep DEF Company
<1>5. ASSUME NEW c \in Conn PROVE CP!Numbered(c)'
  <2>1. client' = client  BY <1>1 DEF Steps
  <2> QED  BY <2>1 DEF Company, CP!Numbered, CP!Keyboard, CP!Rising, CP!Own
<1> QED  BY <1>4, <1>5 DEF Company

LEMMA CompanyMoves ==
    ASSUME RoomInv, Company, NEW c \in Conn, ClientStep(c) \/ NetworkStep(c)
    PROVE  Company'
<1>1. Clients  BY DEF RoomInv
<1>2. Moves(c)  BY <1>1, ProgramMoves, NetworkMoves
<1>3. /\ pc' = pc /\ conn' = conn /\ screen' = screen /\ batch' = batch /\ lines' = lines
      /\ server_closing' = server_closing
  BY <1>2 DEF Moves, serverVars, userVars
<1>4. HostOrder' /\ Typing'  BY <1>3 DEF Company, HostOrder, Typing
<1>5. Farewell'
  <2>1. \A d \in Conn : Stream(d)' = Stream(d) /\ wire'[d] = wire[d]  BY <1>2, MovesApart
  <2> QED  BY <1>3, <2>1 DEF Company, Farewell, Running, At, Late
<1>6. CASE ClientStep(c)
  <2>1. CP!ClientNext(c)  BY <1>6, SameProgram DEF ClientStep
  <2>2. CP!Numbered(c)'
    BY <1>1, <2>1, Assumptions, CP!NumberedStep DEF Clients, Company
  <2>3. ASSUME NEW d \in Conn \ {c} PROVE CP!Numbered(d)'
    <3>1. client'[d] = client[d]  BY <1>2 DEF Moves
    <3>2. CP!Own(d)' = CP!Own(d)  BY <3>1 DEF CP!Own
    <3>3. CP!Keyboard(d)'  BY <3>1 DEF Company, CP!Numbered, CP!Keyboard
    <3>4. CP!Rising(CP!Own(d), client[d].typed)'
      BY <3>1, <3>2 DEF Company, CP!Numbered, CP!Rising
    <3> QED  BY <3>3, <3>4 DEF CP!Numbered
  <2> QED  BY <1>4, <1>5, <2>2, <2>3 DEF Company
<1>7. CASE NetworkStep(c)
  <2>1. CP!NetworkNext(c)  BY <1>7, SameNetwork DEF NetworkStep
  <2>2. client' = client
    BY <1>1, <2>1, Fields, Assumptions, CP!NetworkEnds
  <2>3. \A d \in Conn : CP!Numbered(d)'
    BY <2>2 DEF Company, CP!Numbered, CP!Keyboard, CP!Rising, CP!Own
  <2> QED  BY <1>4, <1>5, <2>3 DEF Company
<1> QED  BY <1>6, <1>7

LEMMA CompanyStarted ==
    ASSUME RoomInit
    PROVE  Company
<1>1. Init /\ CP!ClientInit  BY SameClient DEF RoomInit
<1>2. HostOrder /\ Typing  BY <1>1, Started DEF Ordered
<1>3. Farewell  BY <1>1 DEF Init, Farewell, Running
<1>4. ASSUME NEW c \in Conn PROVE CP!Numbered(c)
  <2>1. client[c].typed = 0 /\ client[c].batch = {} /\ client[c].shown = <<>>
    BY <1>1 DEF CP!ClientInit
  <2>2. CP!Own(c) = <<>>  BY <2>1, OnlyEmpty, SameWords DEF CP!Own
  <2>3. Len(<<>>) = 0 /\ 1 .. 0 = {}  BY EmptySeq
  <2>4. 0 <= MaxTyped  BY ChatroomAssumption
  <2> QED  BY <2>1, <2>2, <2>3, <2>4 DEF CP!Numbered, CP!Keyboard, CP!Rising
<1> QED  BY <1>2, <1>3, <1>4 DEF Company

(* The line that is parsed next is behind those on the screen among what    *)
(* its client has said, so its number is larger.                            *)
LEMMA NextIsLater ==
    ASSUME RoomInv, Company, Running, NEW c \in Conn, Unparsed(c) # <<>>,
           Head(Unparsed(c)).type = "CHAT"
    PROVE  /\ Head(Unparsed(c)).says.n \in Number
           /\ \A j \in 1 .. Len(ChatsOf(c)) : ChatsOf(c)[j].n < Head(Unparsed(c)).says.n
<1>1. PICK u : u = Head(Unparsed(c)).says  OBVIOUS
<1>2. u \in ChatLines(c) /\ u \in Utterance(Speaker)
  BY <1>1, NextFrame DEF Msg, Message
<1>3. PICK f \in Seq(Utterance(Speaker)) : f = ChatsOf(c)  BY Shapes
<1>4. PICK g \in Seq(Utterance(Speaker)) : g = LinesIn(c, Tail(Unparsed(c)))
  <2>1. Unparsed(c) \in Seq(Msg)  BY Shapes
  <2>2. Tail(Unparsed(c)) \in Seq(Msg)  BY <2>1, HeadTailProperties
  <2> QED  BY <2>2, LinesType
<1>5. PICK o \in Seq(Utterance(Speaker)) : o = CP!Own(c)  BY Shapes
<1>6. PICK h \in Seq(Utterance(Speaker)) : o = (Append(f, u) \o g) \o h
  <2>1. Conveyed(c) = Append(f, u) \o g
    BY <1>1, <1>2, <1>3, <1>4, Shapes, LinesTail DEF Conveyed
  <2>2. Starts(Conveyed(c), o)  BY <1>5 DEF RoomInv, Carried, Conveyed
  <2> QED  BY <2>1, <2>2 DEF Starts
<1>7. PICK k : k = Len(f)  OBVIOUS
<1>8. /\ k \in Nat /\ k + 1 \in 1 .. Len(o) /\ o[k + 1] = u
      /\ \A j \in 1 .. k : j \in 1 .. Len(o) /\ o[j] = f[j]
  <2>1. PICK p \in Seq(Utterance(Speaker)) : p = Append(f, u)  BY <1>2, AppendProperties
  <2>2. /\ k \in Nat /\ Len(p) = k + 1 /\ p[k + 1] = u
        /\ \A j \in 1 .. k : p[j] = f[j]
    BY <1>2, <1>7, <2>1, AppendProperties, LenProperties
  <2>3. PICK q \in Seq(Utterance(Speaker)) : q = p \o g  BY <2>1, ConcatProperties
  <2>4. /\ Len(q) = Len(p) + Len(g) /\ Len(g) \in Nat
        /\ \A j \in 1 .. Len(p) : q[j] = p[j]
    BY <2>3, ConcatProperties, LenProperties
  <2>5. /\ Len(o) = Len(q) + Len(h) /\ Len(h) \in Nat
        /\ \A j \in 1 .. Len(q) : o[j] = q[j]
    <3>1. o = q \o h  BY <1>6, <2>1, <2>3
    <3> QED  BY <2>3, <3>1, ConcatProperties, LenProperties
  <2>6. \A j \in 1 .. k + 1 : j \in 1 .. Len(p) /\ j \in 1 .. Len(q) /\ j \in 1 .. Len(o)
    BY <2>2, <2>4, <2>5
  <2>7. \A j \in 1 .. k + 1 : o[j] = p[j]  BY <2>4, <2>5, <2>6
  <2>8. k + 1 \in 1 .. k + 1 /\ \A j \in 1 .. k : j \in 1 .. k + 1  BY <2>2
  <2> QED  BY <2>2, <2>6, <2>7, <2>8
<1>9. CP!Rising(o, client[c].typed) /\ client[c].typed <= MaxTyped
  BY <1>5 DEF Company, CP!Numbered, CP!Keyboard
<1>10. u.n \in Number
  <2>1. u.n \in 1 .. client[c].typed  BY <1>8, <1>9 DEF CP!Rising
  <2>2. client[c].typed \in Nat
    <3>1. Clients  BY DEF RoomInv
    <3> QED  BY <3>1, Fields, Assumptions, CP!ClientTypes, CP!ProgramFields
  <2>3. u.n \in 1 .. MaxTyped  BY <1>9, <2>1, <2>2, ChatroomAssumption
  <2> QED  BY <2>3, ChatroomAssumption
<1>11. ASSUME NEW j \in 1 .. k PROVE f[j].n < u.n
  <2>1. j < k + 1  BY <1>8
  <2> QED  BY <1>8, <1>9, <2>1 DEF CP!Rising
<1> QED  BY <1>1, <1>3, <1>7, <1>10, <1>11

LEMMA TogetherSociable ==
    ASSUME RoomInv, Company
    PROVE  Sociable
<1>1. Base /\ TypeOK /\ Silence /\ Speakers /\ HostOrder /\ Typing
  BY RoomSpeakers DEF RoomInv, ServerPart, Base, Company
<1>2. NextLines
  <2> SUFFICES ASSUME Running, NEW c \in Conn, Unparsed(c) # <<>>,
                      Head(Unparsed(c)).type = "CHAT"
               PROVE  /\ Head(Unparsed(c)).says.n \in Number
                      /\ \A i \in 1 .. Len(screen) :
                           screen[i].who = c /\ screen[i].what = "chat" =>
                             screen[i].n < Head(Unparsed(c)).says.n
    BY DEF NextLines
  <2> QED  BY <1>1, NextIsLater, OneOfTheLines
<1> QED  BY <1>1, <1>2 DEF Sociable

(* To the people in the room a step of a client is no step yet.             *)
LEMMA MovesStutter ==
    ASSUME RoomInv, NEW c \in Conn, Moves(c)
    PROVE  UNCHANGED Room!roomVars
<1>1. /\ conn' = conn /\ screen' = screen /\ (Running' <=> Running)
      /\ server_closing' = server_closing
  BY MovesApart DEF Moves, serverVars
<1>2. \A d \in Conn : (d \in Present' <=> d \in Present) /\ Heard(d)' = Heard(d)
  BY <1>1, MovesApart DEF Present
<1> QED  BY <1>1, <1>2, Stutters

LEMMA RoomKept ==
    ASSUME RoomInv, Company, [ChatroomNext]_allVars
    PROVE  Company' /\ [Room!RoomNext]_(Room!roomVars)
<1>1. CASE ServerStep \/ UNCHANGED allVars
  <2>1. Company'  BY <1>1, CompanyServed
  <2>2. RoomStep  BY <1>1, ServerSteps DEF Steps
  <2>3. Typing'  BY <2>1 DEF Company
  <2> QED  BY <2>1, <2>2, <2>3, TogetherSociable, RoomSimulation
<1>2. ASSUME NEW c \in Conn, ClientStep(c) \/ NetworkStep(c)
      PROVE  Company' /\ [Room!RoomNext]_(Room!roomVars)
  <2>1. Moves(c)  BY <1>2, ProgramMoves, NetworkMoves DEF RoomInv
  <2> QED  BY <1>2, <2>1, CompanyMoves, MovesStutter
<1> QED  BY <1>1, <1>2 DEF ChatroomNext

-----------------------------------------------------------------------------
(* The theorems.                                                            *)

(* Whatever a client has shown of the words of others is on the server's    *)
(* screen, in the same order and without a gap, from the arrival of that    *)
(* client on: all screens of the room show one conversation, for any number *)
(* of clients, however their reads and writes are cut and whoever leaves,   *)
(* fails or is closed at whatever moment (server.cpp broadcasts against     *)
(* client.cpp handle_read_network_message_event).                           *)
THEOREM ScreensAgree == ChatroomSpec => []SameConversation
<1>1. RoomInv => SameConversation
  <2> SUFFICES ASSUME RoomInv, NEW c \in Conn, Client!Others(c) # <<>>
               PROVE  \E i \in At(c, "connected") :
                        Client!IsPrefix(Client!Others(c),
                          Only(SubSeq(screen, i, Len(screen)),
                               Utterance(Speaker) \ ChatLines(c)))
    BY DEF SameConversation
  <2>1. Clients  BY DEF RoomInv
  <2>2. CP!ClientTypeOK /\ CP!Bounds(c) /\ CP!Heard(c)
    BY <2>1 DEF Clients, CP!ClientInv
  <2>3. PICK w \in Seq(Msg) : w = wire[c]  BY Shapes
  <2>4. PICK n \in 0 .. Len(w) : n = taken[c]
    BY <2>2, <2>3, Assumptions, CP!ClientTypes DEF CP!Bounds
  <2>5. PICK o, r, t : /\ o = CP!Others(c)
                       /\ r = Says(Only(SubSeq(w, 1, n), Broadcasts))
                       /\ t = Says(Only(w, Broadcasts))
    OBVIOUS
  <2>6. CP!ReadBroadcasts(c) = r
    BY <2>3, <2>4, <2>5, SameWords DEF CP!ReadBroadcasts
  <2>7. o \in Seq(Utterance(Speaker))
    <3>1. client[c].shown \in Seq(Utterance(Speaker))
      BY <2>2, Assumptions, CP!ClientTypes, SameWords DEF CP!Program
    <3> QED  BY <2>5, <3>1, OnlyType, SameWords DEF CP!Others
  <2>8. PICK a \in Seq(Msg), v \in Seq(Msg) : a = SubSeq(w, 1, n) /\ w = a \o v
    <3>1. n \in Nat /\ Len(w) - n \in Nat /\ n + (Len(w) - n) = Len(w)
      BY <2>3, <2>4
    <3>2. PICK k \in Nat : n + k = Len(w)  BY <3>1
    <3>3. SubSeq(w, 1, n + k) = SubSeq(w, 1, n) \o SubSeq(w, n + 1, n + k)
      BY <2>3, <3>1, <3>2, StartSplits
    <3>4. SubSeq(w, n + 1, n + k) \in Seq(Msg)  BY <2>3, <3>1, <3>2, PieceShape
    <3>5. SubSeq(w, 1, n) \in Seq(Msg)  BY <2>3, <2>4, StartShape
    <3>6. SubSeq(w, 1, Len(w)) = w  BY <2>3
    <3> QED  BY <3>2, <3>3, <3>4, <3>5, <3>6
  <2>9. r \in Seq(Utterance(Speaker)) /\ t \in Seq(Utterance(Speaker)) /\ Starts(r, t)
    BY <2>5, <2>8, WordsOfStream
  <2>10. Starts(o, r)
    <3>1. CP!IsPrefix(o, r) \/ o = r  BY <2>2, <2>5, <2>6 DEF CP!Heard
    <3> QED  BY <2>7, <2>9, <3>1, StartsIsPrefix, StartsSame
  <2>11. Starts(o, t)  BY <2>7, <2>9, <2>10, StartsThrough
  <2>12. o # <<>> /\ Client!Others(c) = o  BY <2>5, SameLists
  <2>13. t # <<>>  BY <2>7, <2>11, <2>12, StartOfNothing
  <2>14. t = WordsTo(c)  BY <2>3, <2>5 DEF WordsTo
  <2>15. PICK i \in At(c, "connected") :
           Starts(t, Only(SubSeq(screen, i, Len(screen)), Utterance(Speaker) \ ChatLines(c)))
    BY <2>13, <2>14 DEF RoomInv, OnScreen, Shown
  <2>16. PICK h : h = Only(SubSeq(screen, i, Len(screen)), Utterance(Speaker) \ ChatLines(c))
    OBVIOUS
  <2>17. h \in Seq(Utterance(Speaker))
    <3>1. i \in 1 .. Len(screen) /\ screen \in Seq(Utterance(Speaker))
      BY Shapes DEF At
    <3>2. SubSeq(screen, i, Len(screen)) \in Seq(Utterance(Speaker))  BY <3>1
    <3> QED  BY <2>16, <3>2, OnlyType
  <2>18. Starts(o, h)  BY <2>7, <2>9, <2>11, <2>15, <2>16, StartsThrough
  <2>19. CP!IsPrefix(o, h)  BY <2>7, <2>17, <2>18, StartsIsPrefix
  <2>20. Client!IsPrefix(o, h)  BY <2>19, SameLists
  <2> QED  BY <2>12, <2>16, <2>20
<1> QED  BY <1>1, RoomInvariant, PTL

(* What a client has said appears on the server's screen in the order in    *)
(* which it was said, nothing twice and nothing left out before another     *)
(* line: through the client's buffer, the network, the server's buffer and  *)
(* the parser, and although either program may end between any two steps    *)
(* (client.cpp handle_read_stdin_event, server.cpp                          *)
(* handle_read_network_package_event).                                      *)
THEOREM LinesReachTheServer == ChatroomSpec => []LinesArrive
<1>1. RoomInv => LinesArrive
  <2> SUFFICES ASSUME RoomInv, NEW c \in Conn
               PROVE  Client!IsPrefix(ChatsOf(c), Client!Own(c))
    BY DEF LinesArrive
  <2>1. Starts(ChatsOf(c), CP!Own(c))  BY DEF RoomInv, Carried
  <2>2. CP!IsPrefix(ChatsOf(c), CP!Own(c))  BY <2>1, Shapes, StartsIsPrefix
  <2>3. PICK s, t : s = ChatsOf(c) /\ t = CP!Own(c)  OBVIOUS
  <2>4. Client!IsPrefix(s, t)  BY <2>2, <2>3, SameLists
  <2>5. Client!Own(c) = t  BY <2>3, SameLists
  <2> QED  BY <2>3, <2>4, <2>5
<1> QED  BY <1>1, RoomInvariant, PTL

(* The two programs understand each other: the server, while it runs,       *)
(* closes no connection whose client has not left, and no client ends with  *)
(* an error that its server did not cause by going or by resetting the      *)
(* connection, unless its own name cannot be sent (the error paths of       *)
(* server.cpp and client.cpp, protocol.cpp protocol_parse_message).         *)
THEOREM NoFaultIsFound == ChatroomSpec => []NoMisunderstanding
<1>1. RoomInv => NoMisunderstanding
  BY SameClient DEF RoomInv, Departed, Blameless, NoMisunderstanding
<1> QED  BY <1>1, RoomInvariant, PTL

(* What each program promises whatever the program at the other end does,   *)
(* it promises to the real one: neither the bounds on the frames of an      *)
(* arbitrary client nor those on the answers of an arbitrary server were    *)
(* needed (the handlers of server.cpp and of client.cpp on one pair of      *)
(* sockets).                                                                *)
THEOREM PromisesHoldTogether ==
    ChatroomSpec => [](/\ TypeOK /\ FreshEvents /\ HelloFirst /\ StreamIsLegal
                       /\ OneConversation
                       /\ CP!ClientTypeOK /\ CP!NothingLostOrRepeated
                       /\ CP!ShowsWhatItReads /\ CP!WriteInterest /\ CP!HelloBeforeChat)
<1>1. RoomInv => /\ TypeOK /\ EventDiscipline /\ Greeting /\ FramesAreLegal
                 /\ OneConversation /\ CP!ClientInv
  BY DEF RoomInv, ServerPart, Base, Clients
<1>2. EventDiscipline => FreshEvents
  BY DEF EventDiscipline, LiveDescriptors, EventOwners, FreshEvents, get_connection_of
<1>3. Greeting => HelloFirst
  BY DEF Greeting, Good, StartsWithHello, StreamOf, HelloFirst, Stream
<1>4. TypeOK /\ FramesAreLegal => StreamIsLegal  BY FramesGiveStreams
<1>5. CP!ClientInv => /\ CP!ClientTypeOK /\ CP!NothingLostOrRepeated
                      /\ CP!ShowsWhatItReads /\ CP!WriteInterest /\ CP!HelloBeforeChat
  <2>1. CP!ClientInv => CP!ClientTypeOK  BY DEF CP!ClientInv
  <2>2. CP!ClientInv => CP!NothingLostOrRepeated  BY Assumptions, CP!NothingIsLost
  <2>3. CP!ClientInv => CP!ShowsWhatItReads /\ CP!WriteInterest /\ CP!HelloBeforeChat
    BY Assumptions, CP!ClientPromises
  <2> QED  BY <2>1, <2>2, <2>3
<1> QED  BY <1>1, <1>2, <1>3, <1>4, <1>5, RoomInvariant, PTL
(* The two programs together are the chat room of the documentation: what   *)
(* the members see is one conversation, whoever types, enters, leaves or    *)
(* fails, with nothing assumed of the clients but that they run client.cpp  *)
(* (server.cpp, all handlers, on what client.cpp sends).                    *)
THEOREM TogetherTheyMakeTheRoom == ChatroomSpec => ImplementsRoom
<1>1. RoomInit => RoomInv /\ Company  BY RoomStarted, CompanyStarted
<1>2. RoomInit => Room!RoomInit  BY RoomStarts DEF RoomInit
<1>3. (RoomInv /\ Company) /\ [ChatroomNext]_allVars =>
        (RoomInv /\ Company)' /\ [Room!RoomNext]_(Room!roomVars)
  BY RoomInvStep, RoomKept
<1> QED  BY <1>1, <1>2, <1>3, PTL DEF ChatroomSpec, ImplementsRoom, Room!RoomSpec

(* "/quit" at the server keeps its promise to the real clients as well:     *)
(* unless a connection failed, the program does not end before every member *)
(* has been sent the notice with CLOSE_CON behind it (server.cpp,           *)
(* announce_room_closing and queue_close_to_all_clients).                   *)
THEOREM RoomSaysGoodbye == ChatroomSpec => []OrderlyClose
<1>1. RoomInit => RoomInv /\ Company  BY RoomStarted, CompanyStarted
<1>2. (RoomInv /\ Company) /\ [ChatroomNext]_allVars => (RoomInv /\ Company)'
  BY RoomInvStep, RoomKept
<1>3. Company => OrderlyClose  BY FarewellIs DEF Company
<1> QED  BY <1>1, <1>2, <1>3, PTL DEF ChatroomSpec
=============================================================================
