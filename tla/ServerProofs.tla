---------------------------- MODULE ServerProofs ----------------------------
(***************************************************************************)
(* Theorems about the server, for every number of clients, descriptors,    *)
(* frames and lines.                                                       *)
(***************************************************************************)
EXTENDS ServerProperties, SequenceTheorems, TLAPS

(* A connection whose fields have their types is a Connection.              *)
LEMMA ConnectionFields ==
    ASSUME NEW k \in Connection
    PROVE  /\ \A q \in ConnectionState : [k EXCEPT !.state = q] \in Connection
           /\ \A q \in Fd : [k EXCEPT !.fd = q] \in Connection
           /\ \A q \in Seq(Msg) : [k EXCEPT !.in_buffer = q] \in Connection
           /\ \A q \in Seq(Msg) : [k EXCEPT !.out_buffer = q] \in Connection
           /\ \A q \in Nat : [k EXCEPT !.bytes_written = q] \in Connection
           /\ \A q \in Nat : [k EXCEPT !.name = q] \in Connection
           /\ k.state \in ConnectionState /\ k.fd \in Fd \cup {NoFd}
           /\ k.in_buffer \in Seq(Msg) /\ k.out_buffer \in Seq(Msg)
           /\ k.bytes_written \in Nat /\ k.name \in Nat
  BY DEF Connection

LEMMA QueueType ==
    ASSUME NEW cs \in [Conn -> Connection], NEW to, NEW m \in Msg
    PROVE  Queue(cs, to, m) \in [Conn -> Connection]
<1> SUFFICES ASSUME NEW c \in Conn
             PROVE  [cs[c] EXCEPT !.out_buffer = Append(@, m)] \in Connection
  BY DEF Queue
<1>1. cs[c] \in Connection  OBVIOUS
<1>2. cs[c].out_buffer \in Seq(Msg)  BY <1>1 DEF Connection
<1>3. Append(cs[c].out_buffer, m) \in Seq(Msg)  BY <1>2, AppendProperties
<1> QED  BY <1>1, <1>3, ConnectionFields

LEMMA InterestSets ==
    /\ ReadOnly \in SUBSET EpollFlag
    /\ ReadWrite \in SUBSET EpollFlag
    /\ WriteOnly \in SUBSET EpollFlag
  BY DEF ReadOnly, ReadWrite, WriteOnly, EpollFlag

LEMMA WatchType ==
    ASSUME NEW is \in [Conn -> SUBSET EpollFlag], NEW to, NEW events \in SUBSET EpollFlag
    PROVE  Watch(is, to, events) \in [Conn -> SUBSET EpollFlag]
  BY DEF Watch

LEMMA NoticeType ==
    ASSUME NEW c \in Speaker, NEW what \in {"connected", "disconnected", "closing"},
           NEW n \in Nat
    PROVE  Notice(c, what, n) \in Msg
  BY DEF Notice, ChatMessage, format_broadcast_message, FormattedSize,
         NoticeSize, ServerNameSize, Msg, Message, MessageType, Utterance, Topic

LEMMA NoConnectionType == NoConnection \in Connection
  BY DEF NoConnection, Connection, ConnectionState

LEMMA NewConnectionType ==
    ASSUME NEW f \in Fd
    PROVE  NewConnection(f) \in Connection
<1>1. [NoConnection EXCEPT !.fd = f] \in Connection
  BY NoConnectionType, ConnectionFields
<1>2. NewConnection(f) = [[NoConnection EXCEPT !.fd = f]
                             EXCEPT !.state = "WAITING_FOR_CLIENT_HELLO"]
  BY DEF NewConnection
<1> QED  BY <1>1, <1>2, ConnectionFields DEF ConnectionState

(* A read returns frames of the connection's own input.                     *)
LEMMA InputType ==
    ASSUME TypeOK, NEW c \in Conn, NEW k \in ReadSizes(c)
    PROVE  /\ InputAfter(c, k) \in Seq(Msg)
           /\ ArrivedAfter(c, k) \in Seq(Msg)
<1>1. arrived[c] \in Seq(Msg) /\ conn[c].in_buffer \in Seq(Msg)
  BY DEF TypeOK, SocketsTypeOK, ServerTypeOK, Connection
<1>2. k \in 0 .. Len(arrived[c])
  BY <1>1, LenProperties DEF ReadSizes
<1>3. SubSeq(arrived[c], 1, k) \in Seq(Msg)
  BY <1>1, <1>2, SubSeqProperties, ElementOfSeq
<1>4. ArrivedAfter(c, k) \in Seq(Msg)
  BY <1>1, <1>2, SubSeqProperties, ElementOfSeq DEF ArrivedAfter
<1> QED  BY <1>1, <1>3, <1>4, ConcatProperties DEF InputAfter

(* The steps of the remote programs keep the types.                         *)
LEMMA NetworkType == TypeOK /\ NetworkNext => TypeOK'
<1> SUFFICES ASSUME TypeOK, NetworkNext PROVE TypeOK'  OBVIOUS
<1>1. ServerTypeOK'
  BY DEF TypeOK, ServerTypeOK, NetworkNext, serverVars, userVars
<1> SUFFICES ASSUME NEW c \in Conn, RemoteConnect(c) \/ RemoteNext(c)
             PROVE  SocketsTypeOK'
  BY <1>1 DEF TypeOK, NetworkNext
<1> USE DEF TypeOK, SocketsTypeOK
<1>2. CASE RemoteConnect(c)  BY <1>2 DEF RemoteConnect
<1>3. CASE RemoteSend(c)
  <2>1. PICK f \in Frames :
          arrived' = [arrived EXCEPT ![c] = Append(@,
            [type |-> f.type, size |-> f.size,
             says |-> [who |-> c, what |-> TopicOf(f.type), n |-> sent[c] + 1]])]
    BY <1>3 DEF RemoteSend
  <2>2. f.type \in MessageType /\ f.size \in Nat
    BY SocketsAssumption
  <2>3. TopicOf(f.type) \in Topic
    BY DEF TopicOf, Topic
  <2>4. [type |-> f.type, size |-> f.size,
         says |-> [who |-> c, what |-> TopicOf(f.type), n |-> sent[c] + 1]] \in Msg
    BY <2>2, <2>3 DEF Msg, Message, Utterance, Speaker
  <2>5. arrived' \in [Conn -> Seq(Msg)]
    BY <2>1, <2>4, AppendProperties
  <2>6. sent' \in [Conn -> Nat]
    BY <1>3 DEF RemoteSend
  <2> QED  BY <1>3, <2>5, <2>6 DEF RemoteSend
<1>4. CASE RemoteShutdown(c)  BY <1>4 DEF RemoteShutdown
<1>5. CASE RemoteReset(c)  BY <1>5 DEF RemoteReset
<1>6. CASE RemoteRead(c)  BY <1>6 DEF RemoteRead
<1> QED  BY <1>2, <1>3, <1>4, <1>5, <1>6 DEF RemoteNext

(* What TypeOK says, one conjunct at a time.                                *)
LEMMA ConnType ==
    ASSUME TypeOK, NEW c \in Conn
    PROVE  conn[c] \in Connection
  BY DEF TypeOK, ServerTypeOK

(* Queueing a broadcast, or refusing it, keeps the types.                   *)
LEMMA BroadcastType ==
    ASSUME TypeOK, NEW cs \in [Conn -> Connection], NEW sender, NEW m \in Msg
    PROVE  /\ Broadcast(cs, sender, m) \in [Conn -> Connection]
           /\ WatchRecipients(interest, cs, sender) \in [Conn -> SUBSET EpollFlag]
           /\ RefuseBroadcast(cs, sender) =>
                /\ conn' \in [Conn -> Connection]
                /\ interest' = interest
                /\ pc' = "cleanup"
<1>1. Broadcast(cs, sender, m) \in [Conn -> Connection]
  BY QueueType DEF Broadcast
<1>2. WatchRecipients(interest, cs, sender) \in [Conn -> SUBSET EpollFlag]
  BY WatchType DEF WatchRecipients, TypeOK, ServerTypeOK, ReadWrite, EpollFlag
<1>3. ASSUME RefuseBroadcast(cs, sender)
      PROVE  /\ conn' \in [Conn -> Connection]
             /\ interest' = interest
             /\ pc' = "cleanup"
  <2>1. PICK c \in Recipients(cs, sender) :
          conn' = [cs EXCEPT ![c].state = "CONNECTION_ERROR"]
    BY <1>3 DEF RefuseBroadcast
  <2>2. c \in Conn /\ cs[c] \in Connection
    BY DEF Recipients
  <2>3. [cs[c] EXCEPT !.state = "CONNECTION_ERROR"] \in Connection
    BY <2>2, ConnectionFields DEF ConnectionState
  <2> QED  BY <1>3, <2>1, <2>2, <2>3 DEF RefuseBroadcast
<1> QED  BY <1>1, <1>2, <1>3

LEMMA CloseType ==
    ASSUME TypeOK, NEW cs, CloseSockets(cs)
    PROVE  /\ tcp' \in [Conn -> {"none", "queued", "accepted", "closed"}]
           /\ arrived' \in [Conn -> Seq(Msg)]
  BY DEF TypeOK, SocketsTypeOK, CloseSockets

LEMMA RemoveType ==
    ASSUME TypeOK, NEW c \in Conn, remove_connection(c)
    PROVE  /\ conn' \in [Conn -> Connection]
           /\ interest' \in [Conn -> SUBSET EpollFlag]
           /\ tcp' \in [Conn -> {"none", "queued", "accepted", "closed"}]
           /\ arrived' \in [Conn -> Seq(Msg)]
  BY NoConnectionType, CloseType DEF remove_connection, TypeOK, ServerTypeOK

(* The events epoll_wait reports.                                           *)
LEMMA EventType ==
    ASSUME TypeOK
    PROVE  ReadyEvents \cup StdinEvents \subseteq Event
<1>1. ASSUME NEW c \in connections
      PROVE  [fd |-> conn[c].fd, flags |-> Readiness(c) \cap (interest[c] \cup {"EPOLLHUP"}),
              owner |-> c] \in Event
  <2>1. c \in Conn  BY DEF connections
  <2>2. conn[c].fd \in Fd \cup {NoFd}  BY <2>1, ConnType, ConnectionFields
  <2>3. Readiness(c) \cap (interest[c] \cup {"EPOLLHUP"}) \in SUBSET EpollFlag
    BY <2>1 DEF Readiness, EpollFlag
  <2> QED  BY <2>1, <2>2, <2>3 DEF Event
<1>2. ReadyEvents \subseteq Event
  BY <1>1 DEF ReadyEvents, ConnectionEvents, Event, EpollFlag
<1>3. StdinEvents \subseteq Event
  BY DEF StdinEvents, Event, EpollFlag
<1> QED  BY <1>2, <1>3

(* Waiting, and the accept loop.                                            *)
LEMMA WaitType == TypeOK /\ epoll_wait => TypeOK'
<1> SUFFICES ASSUME TypeOK, epoll_wait PROVE TypeOK'  OBVIOUS
<1>1. PICK typed \in SUBSET StdinEvents : batch' \subseteq ReadyEvents \cup typed
  BY DEF epoll_wait, kSubset
<1>2. batch' \in SUBSET Event
  BY <1>1, EventType
<1> QED
  BY <1>2 DEF epoll_wait, TypeOK, SocketsTypeOK, ServerTypeOK, sockVars, userVars

LEMMA DispatchType ==
    TypeOK /\ ((\E e \in batch : SkipEvent(e)) \/ EndOfBatch) => TypeOK'
  BY DEF SkipEvent, EndOfBatch, Rest, TypeOK, SocketsTypeOK, ServerTypeOK,
         sockVars, userVars

LEMMA AcceptType == TypeOK /\ AcceptNext => TypeOK'
<1> SUFFICES ASSUME TypeOK, AcceptNext PROVE TypeOK'  OBVIOUS
<1> USE DEF TypeOK, SocketsTypeOK, ServerTypeOK, sockVars, userVars, remoteVars
<1>1. ASSUME NEW e \in batch, handle_accept_client_connection_event(e) PROVE TypeOK'
  BY <1>1 DEF handle_accept_client_connection_event, Rest
<1>2. ASSUME NEW c \in Conn, AcceptOne(c) PROVE TypeOK'
  <2>1. PICK f \in Fd : conn' = [conn EXCEPT ![c] = NewConnection(f)]
    BY <1>2 DEF AcceptOne, FreeFds
  <2>2. conn' \in [Conn -> Connection]
    BY <2>1, NewConnectionType
  <2>3. interest' \in [Conn -> SUBSET EpollFlag]
    BY <1>2 DEF AcceptOne, ReadOnly, EpollFlag
  <2> QED  BY <1>2, <2>2, <2>3 DEF AcceptOne
<1>3. ASSUME NEW c \in Conn, AcceptAborted(c) \/ AcceptNotWatched(c) PROVE TypeOK'
  BY <1>3, CloseType DEF AcceptAborted, AcceptNotWatched, AcceptLost
<1>4. CASE AcceptDone  BY <1>4 DEF AcceptDone
<1>5. CASE AcceptWithoutDescriptor  BY <1>5 DEF AcceptWithoutDescriptor
<1> QED  BY <1>1, <1>2, <1>3, <1>4, <1>5 DEF AcceptNext

LEMMA NamedType ==
    ASSUME TypeOK, NEW c \in Conn, NEW input \in Seq(Msg), input # <<>>
    PROVE  /\ Named(c, input) \in [Conn -> Connection]
           /\ \A d \in Conn : /\ Named(c, input)[d].fd = conn[d].fd
                              /\ Named(c, input)[d].state = conn[d].state
<1>1. Tail(input) \in Seq(Msg) /\ Head(input) \in Msg
  BY HeadTailProperties
<1>2. Head(input).size \in Nat
  BY <1>1 DEF Msg, Message
<1>3. conn \in [Conn -> Connection]
  BY DEF TypeOK, ServerTypeOK
<1> DEFINE parsed == [conn EXCEPT ![c].in_buffer = Tail(input)]
<1>4. parsed \in [Conn -> Connection]
  BY <1>1, <1>3, ConnectionFields
<1>5. \A d \in Conn : parsed[d].fd = conn[d].fd /\ parsed[d].state = conn[d].state
  BY <1>3 DEF Connection
<1>6. Named(c, input) = [parsed EXCEPT ![c].name = Head(input).size]
  BY DEF Named
<1> HIDE DEF parsed
<1>7. Named(c, input) \in [Conn -> Connection]
  BY <1>2, <1>4, <1>6, ConnectionFields
<1>8. \A d \in Conn : /\ Named(c, input)[d].fd = parsed[d].fd
                      /\ Named(c, input)[d].state = parsed[d].state
  BY <1>4, <1>6 DEF Connection
<1> QED  BY <1>5, <1>7, <1>8

(* The handshake.                                                           *)
LEMMA HandshakeType ==
    ASSUME TypeOK, NEW e \in batch, NEW c \in Conn, HandshakeNext(e, c)
    PROVE  TypeOK'
<1> USE DEF TypeOK, SocketsTypeOK, ServerTypeOK, sockVars, userVars, remoteVars
<1>1. CASE HelloIncomplete(e, c)
  BY <1>1 DEF HelloIncomplete, HelloEvent, Rest
<1>2. CASE HelloRejected(e, c)
  BY <1>2, RemoveType DEF HelloRejected, HelloEvent, Rest
<1>3. CASE HelloAccepted(e, c)
  <2>1. PICK k \in ReadSizes(c) :
          /\ InputAfter(c, k) # <<>>
          /\ arrived' = [arrived EXCEPT ![c] = ArrivedAfter(c, k)]
          /\ IF protocol_payload_length_is_legal(server_name)
             THEN /\ conn' = [Queue(Named(c, InputAfter(c, k)), {c}, ServerHello)
                                EXCEPT ![c].state = "SENDING_SERVER_HELLO"]
                  /\ interest' = Watch(interest, {c}, ReadWrite)
                  /\ pc' = pc
             ELSE /\ conn' = [Named(c, InputAfter(c, k)) EXCEPT ![c].state = "CONNECTION_ERROR"]
                  /\ pc' = "cleanup"
                  /\ UNCHANGED interest
    BY <1>3 DEF HelloAccepted
  <2>2. arrived' \in [Conn -> Seq(Msg)]
    BY <2>1, InputType
  <2>3. Named(c, InputAfter(c, k)) \in [Conn -> Connection]
    BY <2>1, InputType, NamedType
  <2>4. ServerHello \in Msg
    BY DEF ServerHello, Msg, Message, MessageType, Utterance, Topic, Speaker
  <2>5. \A cs \in [Conn -> Connection], st \in ConnectionState :
          [cs EXCEPT ![c].state = st] \in [Conn -> Connection]
    BY ConnectionFields
  <2>6. /\ conn' \in [Conn -> Connection]
        /\ interest' \in [Conn -> SUBSET EpollFlag]
    <3>1. CASE protocol_payload_length_is_legal(server_name)
      <4>1. Queue(Named(c, InputAfter(c, k)), {c}, ServerHello) \in [Conn -> Connection]
        BY <2>3, <2>4, QueueType
      <4>2. Watch(interest, {c}, ReadWrite) \in [Conn -> SUBSET EpollFlag]
        BY WatchType, InterestSets
      <4>3. /\ conn' = [Queue(Named(c, InputAfter(c, k)), {c}, ServerHello)
                           EXCEPT ![c].state = "SENDING_SERVER_HELLO"]
            /\ interest' = Watch(interest, {c}, ReadWrite)
        BY <2>1, <3>1
      <4> QED  BY <2>5, <4>1, <4>2, <4>3 DEF ConnectionState
    <3>2. CASE ~protocol_payload_length_is_legal(server_name)
      <4>1. /\ conn' = [Named(c, InputAfter(c, k)) EXCEPT ![c].state = "CONNECTION_ERROR"]
            /\ interest' = interest
        BY <2>1, <3>2
      <4> QED  BY <2>3, <2>5, <4>1 DEF ConnectionState
    <3> QED  BY <3>1, <3>2
  <2>7. pc' \in {"wait", "dispatch", "accept", "parse", "cleanup", "exited"}
    BY <2>1
  <2> QED  BY <1>3, <2>2, <2>6, <2>7 DEF HelloAccepted, HelloEvent, Rest
<1> QED  BY <1>1, <1>2, <1>3 DEF HandshakeNext

(* Reading.                                                                 *)
LEMMA ReadType ==
    ASSUME TypeOK, NEW e \in batch, NEW c \in Conn, ReadNext(e, c)
    PROVE  TypeOK'
<1> USE DEF TypeOK, SocketsTypeOK, ServerTypeOK, sockVars, userVars, remoteVars
<1>1. CASE ReadFails(e, c)
  BY <1>1, RemoveType DEF ReadFails, ReadEvent, Rest
<1>2. CASE ReadInput(e, c)
  <2>1. PICK k \in ReadSizes(c) :
         /\ conn' = [conn EXCEPT ![c].in_buffer = InputAfter(c, k),
                                 ![c].state = IF EofAfter(c, k) THEN "CLOSED" ELSE @]
         /\ arrived' = [arrived EXCEPT ![c] = ArrivedAfter(c, k)]
    BY <1>2 DEF ReadInput
  <2>2. arrived' \in [Conn -> Seq(Msg)] /\ InputAfter(c, k) \in Seq(Msg)
    BY <2>1, InputType
  <2>3. [conn[c] EXCEPT !.in_buffer = InputAfter(c, k)] \in Connection
    BY <2>2, ConnType, ConnectionFields
  <2>4. conn'[c] = [[conn[c] EXCEPT !.in_buffer = InputAfter(c, k)]
                      EXCEPT !.state = IF EofAfter(c, k) THEN "CLOSED" ELSE conn[c].state]
    BY <2>1, ConnType DEF Connection
  <2>5. (IF EofAfter(c, k) THEN "CLOSED" ELSE conn[c].state) \in ConnectionState
    BY ConnType, ConnectionFields DEF ConnectionState
  <2>6. conn' \in [Conn -> Connection]
    BY <2>1, <2>3, <2>4, <2>5, ConnectionFields
  <2> QED  BY <1>2, <2>2, <2>6 DEF ReadInput, ReadEvent, Rest
<1> QED  BY <1>1, <1>2 DEF ReadNext

(* The screen.                                                              *)
LEMMA ScreenType ==
    ASSUME TypeOK, NEW u \in Utterance(Speaker), screen' = Append(screen, u)
    PROVE  screen' \in Seq(Utterance(Speaker))
  BY AppendProperties DEF TypeOK, ServerTypeOK

LEMMA MsgFields ==
    ASSUME NEW m \in Msg
    PROVE  m.type \in MessageType /\ m.size \in Nat /\ m.says \in Utterance(Speaker)
  BY DEF Msg, Message

(* "[name] line", of a message and of a line of the server's user.          *)
LEMMA FormattedType ==
    ASSUME NEW m \in Msg, NEW n \in Nat
    PROVE  format_broadcast_message(n, m) \in Msg
  BY MsgFields DEF format_broadcast_message, FormattedSize, Msg, Message, MessageType

LEMMA LineType ==
    ASSUME NEW what \in Topic, NEW n \in Nat, NEW size \in Nat
    PROVE  ChatMessage(Host, what, n, size) \in Msg
  BY DEF ChatMessage, Msg, Message, MessageType, Utterance, Speaker

LEMMA ClosingNoticeType == ClosingNotice \in Msg
<1>1. NoticeSize("closing", 0) \in Nat
  BY DEF NoticeSize
<1> QED  BY <1>1, FormattedType, LineType DEF ClosingNotice, Topic, ServerNameSize

(* The rounds of the parse loop.                                            *)
LEMMA ParseType ==
    ASSUME TypeOK, NEW c \in Conn, ParseNext(c)
    PROVE  TypeOK'
<1> USE DEF TypeOK, SocketsTypeOK, ServerTypeOK, sockVars, userVars, remoteVars
<1>1. CASE ParseNothing(c)
  BY <1>1 DEF ParseNothing, Parsing
<1>2. CASE ParseRejects(c)
  BY <1>2, RemoveType DEF ParseRejects, Parsing
<1>3. CASE ParseLeave(c)
  <2> DEFINE notice == Notice(c, "disconnected", conn[c].name)
  <2>1. notice \in Msg /\ notice.says \in Utterance(Speaker)
    BY NoticeType, MsgFields, ConnType, ConnectionFields DEF Speaker
  <2>2. screen' = Append(screen, notice.says)
    BY <1>3 DEF ParseLeave
  <2>3. screen' \in Seq(Utterance(Speaker))
    BY <2>1, <2>2, ScreenType
  <2>4. CASE BroadcastFails(conn, c, notice)
    <3>1. RefuseBroadcast(conn, c) /\ UNCHANGED <<tcp, arrived>>
      BY <1>3, <2>4 DEF ParseLeave
    <3>2. conn' \in [Conn -> Connection] /\ interest' = interest /\ pc' = "cleanup"
      BY <2>1, <3>1, BroadcastType
    <3> QED  BY <1>3, <2>3, <3>1, <3>2 DEF ParseLeave, Parsing
  <2>5. CASE ~BroadcastFails(conn, c, notice)
    <3>1. /\ conn' = [Broadcast(conn, c, notice) EXCEPT ![c] = NoConnection]
          /\ interest' = [WatchRecipients(interest, conn, c) EXCEPT ![c] = {}]
          /\ CloseSockets({c})
          /\ pc' = "dispatch"
      BY <1>3, <2>5 DEF ParseLeave
    <3>2. conn' \in [Conn -> Connection] /\ interest' \in [Conn -> SUBSET EpollFlag]
      BY <2>1, <3>1, BroadcastType, NoConnectionType
    <3> QED  BY <1>3, <2>3, <3>1, <3>2, CloseType DEF ParseLeave, Parsing
  <2> QED  BY <2>4, <2>5
<1>4. CASE ParseChat(c)
  <2> DEFINE m      == Head(conn[c].in_buffer)
             said   == format_broadcast_message(conn[c].name, m)
             popped == [conn EXCEPT ![c].in_buffer = Tail(@)]
  <2>1. m \in Msg /\ Tail(conn[c].in_buffer) \in Seq(Msg)
    BY <1>4, ConnType, ConnectionFields, HeadTailProperties DEF ParseChat
  <2>2. said \in Msg /\ m.says \in Utterance(Speaker)
    BY <2>1, FormattedType, MsgFields, ConnType, ConnectionFields
  <2>3. popped \in [Conn -> Connection]
    BY <2>1, ConnType, ConnectionFields
  <2>4. screen' \in Seq(Utterance(Speaker))
    BY <1>4, <2>2, ScreenType DEF ParseChat
  <2> HIDE DEF m, said, popped
  <2>5. CASE BroadcastFails(popped, c, said)
    <3>1. RefuseBroadcast(popped, c) /\ reader' = None
      BY <1>4, <2>5 DEF ParseChat, m, said, popped
    <3>2. conn' \in [Conn -> Connection] /\ interest' = interest /\ pc' = "cleanup"
      BY <2>2, <2>3, <3>1, BroadcastType
    <3> QED  BY <1>4, <2>4, <3>1, <3>2 DEF ParseChat
  <2>6. CASE ~BroadcastFails(popped, c, said)
    <3>1. /\ conn' = Broadcast(popped, c, said)
          /\ interest' = WatchRecipients(interest, popped, c)
          /\ UNCHANGED <<pc, reader>>
      BY <1>4, <2>6 DEF ParseChat, m, said, popped
    <3>2. conn' \in [Conn -> Connection] /\ interest' \in [Conn -> SUBSET EpollFlag]
      BY <2>2, <2>3, <3>1, BroadcastType
    <3> QED  BY <1>4, <2>4, <3>1, <3>2 DEF ParseChat
  <2> QED  BY <2>5, <2>6
<1> QED  BY <1>1, <1>2, <1>3, <1>4 DEF ParseNext

(* Writing.                                                                 *)
LEMMA FlushedType ==
    ASSUME TypeOK, NEW c \in Conn
    PROVE  Flushed(c) \in [Conn -> Connection]
<1>1. <<>> \in Seq(Msg)  BY EmptySeq
<1>2. [[conn[c] EXCEPT !.out_buffer = <<>>] EXCEPT !.bytes_written = 0] \in Connection
  BY <1>1, ConnType, ConnectionFields
<1>3. Flushed(c) = [conn EXCEPT ![c] =
        [[conn[c] EXCEPT !.out_buffer = <<>>] EXCEPT !.bytes_written = 0]]
  BY DEF Flushed, TypeOK, ServerTypeOK
<1> QED  BY <1>2, <1>3 DEF TypeOK, ServerTypeOK

LEMMA SendsType ==
    ASSUME TypeOK, NEW c \in Conn, NEW k \in Int, k <= Pending(c), Sends(c, k)
    PROVE  wire' \in [Conn -> Seq(Msg)]
<1> DEFINE out == conn[c].out_buffer
           bw  == conn[c].bytes_written
<1>1. out \in Seq(Msg) /\ bw \in Nat
  BY ConnType, ConnectionFields
<1>2. Len(out) \in Nat  BY <1>1, LenProperties
<1>3. \A i \in bw + 1 .. bw + k : out[i] \in Msg
  BY <1>1, <1>2, ElementOfSeq, SMTT(30) DEF Pending
<1>4. SubSeq(out, bw + 1, bw + k) \in Seq(Msg)
  BY <1>1, <1>3, SubSeqProperties
<1>5. wire' = [wire EXCEPT ![c] = @ \o SubSeq(out, bw + 1, bw + k)]
  BY DEF Sends
<1> QED  BY <1>4, <1>5, ConcatProperties DEF TypeOK, SocketsTypeOK

LEMMA PendingType ==
    ASSUME TypeOK, NEW c \in Conn
    PROVE  Pending(c) \in Int
  BY ConnType, ConnectionFields, LenProperties DEF Pending

LEMMA WriteType ==
    ASSUME TypeOK, NEW e \in batch, NEW c \in Conn, WriteNext(e, c)
    PROVE  TypeOK'
<1> USE DEF TypeOK, SocketsTypeOK, ServerTypeOK, sockVars, userVars, remoteVars
<1>1. CASE SendFails(e, c)
  <2>1. conn' \in [Conn -> Connection]
    BY <1>1, ConnType, ConnectionFields DEF SendFails, ConnectionState
  <2> QED  BY <1>1, <2>1 DEF SendFails, SendEvent, Rest
<1>2. CASE SendPartial(e, c)
  <2>1. PICK k \in 0 .. Pending(c) - 1 :
          Sends(c, k) /\ conn' = [conn EXCEPT ![c].bytes_written = @ + k]
    BY <1>2 DEF SendPartial
  <2> HIDE DEF TypeOK
  <2>2. wire' \in [Conn -> Seq(Msg)]
    <3>1. k \in Int /\ k <= Pending(c)
      BY <2>1, PendingType
    <3> QED  BY <2>1, <3>1, SendsType
  <2> USE DEF TypeOK
  <2>3. conn[c].bytes_written + k \in Nat
    BY <2>1, ConnType, ConnectionFields, SMTT(30)
  <2>4. conn' \in [Conn -> Connection]
    BY <2>1, <2>3, ConnType, ConnectionFields
  <2> QED  BY <1>2, <2>1, <2>2, <2>4 DEF SendPartial, SendEvent, Sends, Rest
<1>3. ASSUME SendAll(e, c)
      PROVE  wire' \in [Conn -> Seq(Msg)] /\ UNCHANGED <<tcp, arrived, remoteVars>>
  <2> HIDE DEF TypeOK
  <2>1. Sends(c, Pending(c))
    BY <1>3 DEF SendAll
  <2>2. Pending(c) \in Int /\ Pending(c) <= Pending(c)
    BY PendingType
  <2>3. wire' \in [Conn -> Seq(Msg)]
    BY <2>1, <2>2, SendsType
  <2> QED  BY <2>1, <2>3 DEF Sends
<1>4. CASE SendHelloDone(e, c)
  <2> DEFINE active == [Flushed(c) EXCEPT ![c].state = "ACTIVE"]
             notice == Notice(c, "connected", conn[c].name)
  <2>1. notice \in Msg /\ notice.says \in Utterance(Speaker)
    BY NoticeType, MsgFields, ConnType, ConnectionFields DEF Speaker
  <2>2. active \in [Conn -> Connection]
    <3>1. Flushed(c) \in [Conn -> Connection]
      BY FlushedType
    <3>2. [Flushed(c)[c] EXCEPT !.state = "ACTIVE"] \in Connection
      BY <3>1, ConnectionFields DEF ConnectionState
    <3> QED  BY <3>1, <3>2
  <2>3. screen' \in Seq(Utterance(Speaker))
    BY <1>4, <2>1, ScreenType DEF SendHelloDone
  <2>4. SendAll(e, c)
    BY <1>4 DEF SendHelloDone
  <2> HIDE DEF active, notice
  <2>5. CASE BroadcastFails(active, None, notice)
    <3>1. RefuseBroadcast(active, None)
      BY <1>4, <2>5 DEF SendHelloDone, active, notice
    <3>2. conn' \in [Conn -> Connection] /\ interest' = interest /\ pc' = "cleanup"
      BY <2>1, <2>2, <3>1, BroadcastType
    <3> QED  BY <1>3, <2>3, <2>4, <3>2 DEF SendAll, SendEvent, Rest
  <2>6. CASE ~BroadcastFails(active, None, notice)
    <3>1. /\ conn' = Broadcast(active, None, notice)
          /\ interest' = WatchRecipients(interest, active, None)
          /\ pc' = pc
      BY <1>4, <2>6 DEF SendHelloDone, active, notice
    <3>2. conn' \in [Conn -> Connection] /\ interest' \in [Conn -> SUBSET EpollFlag]
      BY <2>1, <2>2, <3>1, BroadcastType
    <3> QED  BY <1>3, <2>3, <2>4, <3>1, <3>2 DEF SendAll, SendEvent, Rest
  <2> QED  BY <2>5, <2>6
<1>5. CASE SendDone(e, c)
  <2>1. conn' \in [Conn -> Connection] /\ interest' \in [Conn -> SUBSET EpollFlag]
    BY <1>5, FlushedType, WatchType, InterestSets DEF SendDone
  <2>2. SendAll(e, c)
    BY <1>5 DEF SendDone
  <2> QED  BY <1>3, <1>5, <2>1, <2>2 DEF SendDone, SendAll, SendEvent, Rest
<1> QED  BY <1>1, <1>2, <1>4, <1>5 DEF WriteNext

(* The server's user.                                                       *)
LEMMA StdinType ==
    ASSUME TypeOK, NEW e \in batch, StdinNext(e)
    PROVE  TypeOK'
<1> USE DEF TypeOK, SocketsTypeOK, ServerTypeOK, sockVars, userVars, remoteVars
<1>1. CASE StdinEof(e)  BY <1>1 DEF StdinEof, StdinEvent, Rest
<1>2. CASE StdinIgnored(e)  BY <1>2 DEF StdinIgnored, StdinEvent, Rest
<1>3. CASE StdinChat(e)
  <2> DEFINE line(size) == ChatMessage(Host, "chat", lines + 1, size)
             said(size) == format_broadcast_message(server_name, line(size))
  <2>1. PICK size \in LineSizes :
          /\ screen' = Append(screen, line(size).says)
          /\ IF BroadcastFails(conn, None, said(size))
             THEN RefuseBroadcast(conn, None)
             ELSE /\ conn' = Broadcast(conn, None, said(size))
                  /\ interest' = WatchRecipients(interest, conn, None)
                  /\ pc' = pc
    BY <1>3 DEF StdinChat
  <2>2. line(size) \in Msg
    BY ServerAssumption, LineType DEF Topic
  <2>3. said(size) \in Msg /\ line(size).says \in Utterance(Speaker)
    BY <2>2, FormattedType, MsgFields
  <2>4. screen' \in Seq(Utterance(Speaker))
    BY <2>1, <2>3, ScreenType
  <2> HIDE DEF line, said
  <2>5. CASE BroadcastFails(conn, None, said(size))
    <3>1. conn' \in [Conn -> Connection] /\ interest' = interest /\ pc' = "cleanup"
      BY <2>1, <2>3, <2>5, BroadcastType
    <3> QED  BY <1>3, <2>4, <3>1 DEF StdinChat, StdinEvent, Rest
  <2>6. CASE ~BroadcastFails(conn, None, said(size))
    <3>1. /\ conn' = Broadcast(conn, None, said(size))
          /\ interest' = WatchRecipients(interest, conn, None)
          /\ pc' = pc
      BY <2>1, <2>6
    <3>2. /\ Broadcast(conn, None, said(size)) \in [Conn -> Connection]
          /\ WatchRecipients(interest, conn, None) \in [Conn -> SUBSET EpollFlag]
      BY <2>3, BroadcastType
    <3> QED  BY <1>3, <2>4, <3>1, <3>2 DEF StdinChat, StdinEvent, Rest
  <2> QED  BY <2>5, <2>6
<1>4. CASE StdinQuit(e)
  <2>1. ClosingNotice \in Msg /\ ClosingNotice.says \in Utterance(Speaker)
    BY ClosingNoticeType, MsgFields
  <2>2. CloseMessage \in Msg
    BY DEF CloseMessage, Msg, Message, MessageType, Utterance, Topic, Speaker
  <2>3. screen' \in Seq(Utterance(Speaker))
    BY <1>4, <2>1, ScreenType DEF StdinQuit
  <2>4. conn' \in [Conn -> Connection]
    BY <1>4, <2>1, <2>2, BroadcastType DEF StdinQuit
  <2>5. interest' \in [Conn -> SUBSET EpollFlag]
    BY <1>4, WatchType, InterestSets DEF StdinQuit
  <2> QED  BY <1>4, <2>3, <2>4, <2>5 DEF StdinQuit, StdinEvent, Rest
<1> QED  BY <1>1, <1>2, <1>3, <1>4 DEF StdinNext

LEMMA CleanupType == TypeOK /\ server_cleanup => TypeOK'
  BY NoConnectionType, CloseType
     DEF server_cleanup, TypeOK, SocketsTypeOK, ServerTypeOK, userVars, remoteVars

LEMMA InitType == Init => TypeOK
<1> SUFFICES ASSUME Init PROVE TypeOK  OBVIOUS
<1>1. <<>> \in Seq(Msg) /\ <<>> \in Seq(Utterance(Speaker))
  BY EmptySeq
<1>2. SocketsTypeOK
  BY <1>1 DEF Init, SocketsInit, SocketsTypeOK
<1>3. conn \in [Conn -> Connection]
  BY NoConnectionType DEF Init
<1>4. server_name \in Nat
  BY ServerAssumption DEF Init
<1> QED  BY <1>1, <1>2, <1>3, <1>4 DEF Init, TypeOK, ServerTypeOK

LEMMA TypeStep == TypeOK /\ [Next]_vars => TypeOK'
<1> SUFFICES ASSUME TypeOK, [Next]_vars PROVE TypeOK'  OBVIOUS
<1>1. CASE ServerNext
  BY <1>1, WaitType, DispatchType, AcceptType, HandshakeType, ReadType, ParseType,
     WriteType, StdinType, CleanupType DEF ServerNext
<1>2. CASE NetworkNext  BY <1>2, NetworkType
<1>3. CASE UNCHANGED vars
  BY <1>3 DEF vars, sockVars, serverVars, userVars, TypeOK, SocketsTypeOK, ServerTypeOK
<1> QED  BY <1>1, <1>2, <1>3 DEF Next

(* Every variable keeps to its type: in particular no handler ever leaves a *)
(* Connection object in one of the client's states of ConnectionState.      *)
THEOREM TypeCorrect == Spec => []TypeOK
  BY InitType, TypeStep, PTL DEF Spec

-----------------------------------------------------------------------------
(* The events.  FreshEvents, by the inductive invariant                    *)
(* TypeOK /\ EventDiscipline: no handler ever works on an event that       *)
(* outlived its connection.  WriteInterest, inductive together with TypeOK: *)
(* no handler forgets to ask for EPOLLOUT when it queues, or to stop asking *)
(* when it has written everything.                                         *)

(* The general step: connection objects may disappear but are not created   *)
(* and keep their descriptors, and so do the events, those of the objects   *)
(* that disappear among them.                                               *)
Survivors ==
    \A c \in Conn : conn'[c].state # "FREED" =>
        conn[c].state # "FREED" /\ conn'[c].fd = conn[c].fd

Kept == EventDiscipline' /\ Survivors

LEMMA Shrinking ==
    ASSUME EventDiscipline,
           \A c \in Conn : conn'[c].state # "FREED" =>
               conn[c].state # "FREED" /\ conn'[c].fd = conn[c].fd,
           \A c \in Conn : tcp'[c] \in {"none", "queued"} => tcp[c] \in {"none", "queued"},
           Running' =>
             /\ Running
             /\ batch' \subseteq batch
             /\ \A e \in batch' : e.owner # None => conn'[e.owner].state # "FREED"
             /\ pc' = "parse" => /\ reader' \in connections'
                                 /\ \A e \in batch' : e.owner # reader'
    PROVE  Kept
<1>1. \A c \in connections' : c \in connections /\ conn'[c].fd = conn[c].fd
  BY DEF connections
<1>2. LiveDescriptors'
  BY <1>1 DEF EventDiscipline, LiveDescriptors
<1>3. ASSUME Running' PROVE EventOwners'
  <2>1. /\ Running /\ batch' \subseteq batch
        /\ \A e \in batch' : e.owner # None => conn'[e.owner].state # "FREED"
        /\ pc' = "parse" => /\ reader' \in connections'
                            /\ \A e \in batch' : e.owner # reader'
    BY <1>3
  <2>2. ASSUME NEW e \in batch', e.owner # None
        PROVE  e.owner \in connections' /\ e.fd = conn'[e.owner].fd
    <3>1. e.owner \in connections /\ e.fd = conn[e.owner].fd
      BY <2>1, <2>2 DEF EventDiscipline, EventOwners
    <3> QED  BY <1>1, <2>1, <2>2, <3>1 DEF connections
  <2>3. \A e \in batch' : e.owner = None => e.fd \in {ListenFd, StdinFd}
    BY <2>1 DEF EventDiscipline, EventOwners
  <2>4. \A e1, e2 \in batch' : e1.owner # None /\ e1.owner = e2.owner => e1 = e2
    BY <2>1 DEF EventDiscipline, EventOwners
  <2> QED  BY <2>1, <2>2, <2>3, <2>4 DEF EventOwners
<1>4. EventOwners'
  BY <1>3 DEF EventOwners
<1> QED  BY <1>2, <1>4 DEF EventDiscipline, Kept, Survivors

(* The connection a handler finds by descriptor is the one the event was    *)
(* reported for, and no other event of the batch is about it.               *)
LEMMA FoundByDescriptor ==
    ASSUME EventDiscipline, Running, NEW e \in batch, NEW c \in get_connection_of(e.fd)
    PROVE  /\ c \in connections /\ c \in Conn /\ conn[c].state # "FREED"
           /\ e.owner = c
           /\ \A d \in batch \ {e} : d.owner # c
<1>1. c \in connections /\ c \in Conn /\ conn[c].state # "FREED" /\ conn[c].fd = e.fd
  BY DEF get_connection_of, connections
<1>2. e.fd \in Fd
  BY <1>1 DEF EventDiscipline, LiveDescriptors
<1>3. e.owner # None
  BY <1>2, ServerAssumption DEF EventDiscipline, EventOwners
<1>4. e.owner = c
  BY <1>1, <1>3 DEF EventDiscipline, EventOwners, LiveDescriptors
<1> QED  BY <1>1, <1>3, <1>4 DEF EventDiscipline, EventOwners

(* Broadcasting neither creates nor deletes a connection.                   *)
LEMMA BroadcastKeeps ==
    ASSUME NEW cs \in [Conn -> Connection], NEW sender, NEW m, NEW c \in Conn
    PROVE  /\ Broadcast(cs, sender, m)[c].fd = cs[c].fd
           /\ Broadcast(cs, sender, m)[c].state = cs[c].state
  BY DEF Broadcast, Queue, Connection

LEMMA QueueKeeps ==
    ASSUME NEW cs \in [Conn -> Connection], NEW to, NEW m, NEW c \in Conn
    PROVE  Queue(cs, to, m)[c].fd = cs[c].fd /\ Queue(cs, to, m)[c].state = cs[c].state
  BY DEF Queue, Connection

LEMMA StateKeeps ==
    ASSUME NEW cs \in [Conn -> Connection], NEW c \in Conn, cs[c].state # "FREED",
           NEW st \in ConnectionState \ {"FREED"}, NEW d \in Conn
    PROVE  /\ [cs EXCEPT ![c].state = st][d].fd = cs[d].fd
           /\ [cs EXCEPT ![c].state = st][d].state # "FREED" <=> cs[d].state # "FREED"
  BY DEF Connection

LEMMA RefuseKeeps ==
    ASSUME NEW cs \in [Conn -> Connection], NEW sender, RefuseBroadcast(cs, sender),
           NEW c \in Conn
    PROVE  /\ conn'[c].fd = cs[c].fd
           /\ conn'[c].state # "FREED" => cs[c].state # "FREED"
<1>1. PICK d \in Recipients(cs, sender) :
        conn' = [cs EXCEPT ![d].state = "CONNECTION_ERROR"]
  BY DEF RefuseBroadcast
<1>2. d \in Conn /\ cs[d].state = "ACTIVE" /\ cs[d] \in Connection /\ cs[c] \in Connection
  BY DEF Recipients
<1> QED  BY <1>1, <1>2 DEF Connection

LEMMA CloseKeeps ==
    ASSUME TypeOK, NEW cs, CloseSockets(cs), NEW c \in Conn,
           tcp'[c] \in {"none", "queued"}
    PROVE  tcp[c] \in {"none", "queued"}
  BY DEF CloseSockets

-----------------------------------------------------------------------------
(* The actions, one by one.                                                 *)

(* A step that leaves the objects alone and goes to another place of the    *)
(* loop, with no event more than before.                                    *)
LEMMA Passing ==
    ASSUME EventDiscipline, UNCHANGED conn,
           \A c \in Conn : tcp'[c] \in {"none", "queued"} => tcp[c] \in {"none", "queued"},
           Running' => Running /\ batch' \subseteq batch /\ pc' # "parse"
    PROVE  Kept
<1>1. Running' => \A e \in batch' : e.owner # None => conn'[e.owner].state # "FREED"
  BY DEF EventDiscipline, EventOwners, connections
<1> QED  BY <1>1, Shrinking

LEMMA WaitEvents == TypeOK /\ EventDiscipline /\ epoll_wait => EventDiscipline'
<1> SUFFICES ASSUME TypeOK, EventDiscipline, epoll_wait PROVE EventDiscipline'
  OBVIOUS
<1>1. PICK typed \in SUBSET StdinEvents : batch' \subseteq ReadyEvents \cup typed
  BY DEF epoll_wait, kSubset
<1>2. UNCHANGED <<conn, tcp>> /\ pc' = "dispatch" /\ connections' = connections
  BY DEF epoll_wait, sockVars, connections
<1>3. ASSUME NEW e \in batch'
      PROVE  \/ e.owner = None /\ e.fd \in {ListenFd, StdinFd}
             \/ /\ e \in ConnectionEvents
                /\ e.owner \in connections /\ e.fd = conn[e.owner].fd
                /\ e.owner # None
  <2>1. CASE e \in ConnectionEvents
    BY <2>1, ServerAssumption DEF ConnectionEvents, connections
  <2>2. CASE e \notin ConnectionEvents
    BY <1>1, <2>2 DEF ReadyEvents, StdinEvents
  <2> QED  BY <2>1, <2>2
<1>4. \A e1, e2 \in ConnectionEvents : e1.owner = e2.owner => e1 = e2
  BY DEF ConnectionEvents
<1>5. \A e1, e2 \in batch' : e1.owner # None /\ e1.owner = e2.owner => e1 = e2
  BY <1>3, <1>4
<1>6. EventOwners'
  BY <1>2, <1>3, <1>5 DEF EventOwners
<1>7. LiveDescriptors'
  BY <1>2 DEF EventDiscipline, LiveDescriptors
<1> QED  BY <1>6, <1>7 DEF EventDiscipline

LEMMA DispatchEvents ==
    EventDiscipline /\ ((\E e \in batch : SkipEvent(e)) \/ EndOfBatch) => Kept
  BY Passing DEF SkipEvent, EndOfBatch, Rest, sockVars, Running

LEMMA AcceptEvents ==
    ASSUME TypeOK, EventDiscipline, AcceptNext
    PROVE  EventDiscipline' /\ (Survivors \/ \E c \in Conn : AcceptOne(c))
<1>1. ASSUME NEW e \in batch, handle_accept_client_connection_event(e)
      PROVE  Kept
  BY <1>1, Passing DEF handle_accept_client_connection_event, Rest, sockVars, Running
<1>2. ASSUME NEW c \in Conn, AcceptOne(c) PROVE EventDiscipline'
  <2>1. PICK f \in FreeFds : conn' = [conn EXCEPT ![c] = NewConnection(f)]
    BY <1>2 DEF AcceptOne
  <2>2. f \in Fd /\ \A d \in connections : conn[d].fd # f
    BY DEF FreeFds
  <2>3. conn'[c] = NewConnection(f) /\ \A d \in Conn \ {c} : conn'[d] = conn[d]
    BY <2>1 DEF TypeOK, ServerTypeOK
  <2>4. NewConnection(f).fd = f /\ NewConnection(f).state = "WAITING_FOR_CLIENT_HELLO"
    BY DEF NewConnection, NoConnection
  <2>5. c \notin connections
    BY <1>2 DEF AcceptOne, EventDiscipline, LiveDescriptors
  <2>6. connections' = connections \cup {c}
    BY <2>3, <2>4 DEF connections
  <2>7. tcp'[c] = "accepted" /\ \A d \in Conn \ {c} : tcp'[d] = tcp[d]
    BY <1>2 DEF AcceptOne, TypeOK, SocketsTypeOK
  <2>8. \A d \in connections : d # c /\ d \in Conn
    BY <2>5 DEF connections
  <2>9. LiveDescriptors'
    <3>1. \A d \in connections' : conn'[d].fd \in Fd
      BY <2>2, <2>3, <2>4, <2>6, <2>8 DEF EventDiscipline, LiveDescriptors
    <3>2. \A d1, d2 \in connections' : conn'[d1].fd = conn'[d2].fd => d1 = d2
      BY <2>2, <2>3, <2>4, <2>6, <2>8 DEF EventDiscipline, LiveDescriptors
    <3>3. \A d \in Conn : tcp'[d] \in {"none", "queued"} => d \notin connections'
      BY <2>6, <2>7 DEF EventDiscipline, LiveDescriptors
    <3> QED  BY <3>1, <3>2, <3>3 DEF LiveDescriptors
  <2>10. EventOwners'
    <3>1. UNCHANGED <<pc, batch>> /\ pc = "accept" /\ Running
      BY <1>2 DEF AcceptOne, Running
    <3>2. \A e \in batch : e.owner # None =>
            e.owner \in connections' /\ e.fd = conn'[e.owner].fd
      BY <2>3, <2>6, <2>8, <3>1 DEF EventDiscipline, EventOwners
    <3> QED  BY <3>1, <3>2 DEF EventDiscipline, EventOwners
  <2> QED  BY <2>9, <2>10 DEF EventDiscipline
<1>3. ASSUME NEW c \in Conn, AcceptAborted(c) \/ AcceptNotWatched(c)
      PROVE  Kept
  <2>1. AcceptLost(c)
    BY <1>3 DEF AcceptAborted, AcceptNotWatched
  <2> QED  BY <2>1, CloseKeeps, Passing DEF AcceptLost, Running
<1>4. CASE AcceptDone
  BY <1>4, Passing DEF Kept, AcceptDone, sockVars, Running
<1>5. CASE AcceptWithoutDescriptor
  BY <1>5, Passing DEF Kept, AcceptWithoutDescriptor, sockVars, Running
<1> QED  BY <1>1, <1>2, <1>3, <1>4, <1>5 DEF AcceptNext, Kept

(* remove_connection, once the events that are left are about others.       *)
LEMMA Removing ==
    ASSUME TypeOK, EventDiscipline, Running, NEW c \in Conn, remove_connection(c),
           batch' \subseteq batch, \A e \in batch' : e.owner # c,
           pc' # "parse"
    PROVE  Kept
<1>1. conn'[c].state = "FREED" /\ \A d \in Conn \ {c} : conn'[d] = conn[d]
  BY DEF remove_connection, NoConnection, TypeOK, ServerTypeOK
<1>2. \A d \in Conn : tcp'[d] \in {"none", "queued"} => tcp[d] \in {"none", "queued"}
  BY CloseKeeps DEF remove_connection
<1>3. \A e \in batch' : e.owner # None => conn'[e.owner].state # "FREED"
  BY <1>1 DEF EventDiscipline, EventOwners, connections
<1> QED  BY <1>1, <1>2, <1>3, Shrinking

(* A step that handles the event e of c and keeps every object.             *)
LEMMA Handling ==
    ASSUME EventDiscipline, Running, NEW e \in batch, NEW c \in get_connection_of(e.fd),
           batch' = batch \ {e}, UNCHANGED tcp,
           \A d \in Conn : conn'[d].fd = conn[d].fd
                          /\ (conn'[d].state # "FREED" <=> conn[d].state # "FREED"),
           pc' = "parse" => reader' = c
    PROVE  Kept
<1>1. c \in connections' /\ \A d \in batch' : d.owner # c
  BY FoundByDescriptor DEF connections
<1>2. \A d \in batch' : d.owner # None => conn'[d.owner].state # "FREED"
  BY DEF EventDiscipline, EventOwners, connections
<1> QED  BY <1>1, <1>2, Shrinking

(* The event loop ends: nothing is left to show of the events.              *)
LEMMA Stopping ==
    ASSUME EventDiscipline, ~Running',
           \A c \in Conn : conn'[c].state # "FREED" =>
               conn[c].state # "FREED" /\ conn'[c].fd = conn[c].fd,
           \A c \in Conn : tcp'[c] \in {"none", "queued"} => tcp[c] \in {"none", "queued"}
    PROVE  Kept
  BY Shrinking

LEMMA HandshakeEvents ==
    ASSUME TypeOK, EventDiscipline, NEW e \in batch, NEW c \in Conn, HandshakeNext(e, c)
    PROVE  Kept
<1>1. HelloEvent(e, c)
  BY DEF HandshakeNext, HelloIncomplete, HelloRejected, HelloAccepted
<1>2. /\ Running /\ pc = "dispatch" /\ c \in get_connection_of(e.fd)
      /\ batch' = batch \ {e}
      /\ conn[c].state = "WAITING_FOR_CLIENT_HELLO"
  BY <1>1 DEF HelloEvent, Running, Rest, event_is_receive_client_hello
<1>3. \A d \in batch \ {e} : d.owner # c
  BY <1>2, FoundByDescriptor
<1>4. CASE HelloIncomplete(e, c)
  BY <1>2, <1>4, Passing DEF HelloIncomplete, sockVars
<1>5. CASE HelloRejected(e, c)
  BY <1>2, <1>3, <1>5, Removing DEF HelloRejected
<1>6. CASE HelloAccepted(e, c)
  <2>1. /\ \A d \in Conn : conn'[d].fd = conn[d].fd
                           /\ (conn'[d].state # "FREED" <=> conn[d].state # "FREED")
        /\ pc' \in {pc, "cleanup"}
    <3> DEFINE named(k) == Named(c, InputAfter(c, k))
    <3>1. PICK k \in ReadSizes(c) :
            /\ InputAfter(c, k) # <<>>
            /\ \/ /\ conn' = [Queue(named(k), {c}, ServerHello)
                               EXCEPT ![c].state = "SENDING_SERVER_HELLO"]
                  /\ pc' = pc
               \/ /\ conn' = [named(k) EXCEPT ![c].state = "CONNECTION_ERROR"]
                  /\ pc' = "cleanup"
      BY <1>6 DEF HelloAccepted
    <3>2. /\ named(k) \in [Conn -> Connection]
          /\ \A d \in Conn : named(k)[d].fd = conn[d].fd /\ named(k)[d].state = conn[d].state
      BY <3>1, InputType, NamedType
    <3> HIDE DEF named
    <3>3. ServerHello \in Msg
      BY DEF ServerHello, TypeOK, ServerTypeOK, Msg, Message, MessageType, Utterance,
             Topic, Speaker
    <3>4. Queue(named(k), {c}, ServerHello) \in [Conn -> Connection]
      BY <3>2, <3>3, QueueType
    <3>5. \A d \in Conn : /\ Queue(named(k), {c}, ServerHello)[d].fd = conn[d].fd
                          /\ Queue(named(k), {c}, ServerHello)[d].state = conn[d].state
      BY <3>2, QueueKeeps
    <3>6. conn[c].state # "FREED"
      BY <1>2
    <3>7. CASE conn' = [Queue(named(k), {c}, ServerHello)
                           EXCEPT ![c].state = "SENDING_SERVER_HELLO"] /\ pc' = pc
      <4> DEFINE cs == Queue(named(k), {c}, ServerHello)
      <4>1. cs \in [Conn -> Connection] /\ cs[c].state # "FREED"
        BY <3>4, <3>5, <3>6
      <4>2. "SENDING_SERVER_HELLO" \in ConnectionState \ {"FREED"}
        BY DEF ConnectionState
      <4>3. conn' = [cs EXCEPT ![c].state = "SENDING_SERVER_HELLO"]
        BY <3>7
      <4>4. \A d \in Conn : cs[d].fd = conn[d].fd /\ cs[d].state = conn[d].state
        BY <3>5
      <4> HIDE DEF cs
      <4>5. \A d \in Conn :
              /\ [cs EXCEPT ![c].state = "SENDING_SERVER_HELLO"][d].fd = cs[d].fd
              /\ [cs EXCEPT ![c].state = "SENDING_SERVER_HELLO"][d].state # "FREED"
                 <=> cs[d].state # "FREED"
        BY <4>1, <4>2, StateKeeps
      <4>6. \A d \in Conn : conn'[d].fd = cs[d].fd
                           /\ (conn'[d].state # "FREED" <=> cs[d].state # "FREED")
        BY <4>3, <4>5
      <4> QED  BY <3>7, <4>4, <4>6
    <3>8. CASE conn' = [named(k) EXCEPT ![c].state = "CONNECTION_ERROR"] /\ pc' = "cleanup"
      BY <3>2, <3>6, <3>8, StateKeeps DEF ConnectionState
    <3> QED  BY <3>1, <3>7, <3>8
  <2>2. UNCHANGED tcp
    BY <1>6 DEF HelloAccepted
  <2> QED  BY <1>2, <2>1, <2>2, Handling DEF Running
<1> QED  BY <1>4, <1>5, <1>6 DEF HandshakeNext

LEMMA ReadEvents ==
    ASSUME TypeOK, EventDiscipline, NEW e \in batch, NEW c \in Conn, ReadNext(e, c)
    PROVE  Kept
<1>1. /\ Running /\ pc = "dispatch" /\ c \in get_connection_of(e.fd)
      /\ batch' = batch \ {e}
      /\ conn[c].state = "ACTIVE"
  BY DEF ReadNext, ReadFails, ReadInput, ReadEvent, Running, Rest,
         event_is_read_network_package
<1>2. \A d \in batch \ {e} : d.owner # c
  BY <1>1, FoundByDescriptor
<1>3. CASE ReadFails(e, c)
  BY <1>1, <1>2, <1>3, Removing DEF ReadFails
<1>4. CASE ReadInput(e, c)
  <2>1. \A d \in Conn : /\ conn'[d].fd = conn[d].fd
                        /\ conn'[d].state # "FREED" <=> conn[d].state # "FREED"
    BY <1>1, <1>4 DEF ReadInput, TypeOK, ServerTypeOK, Connection
  <2>2. UNCHANGED tcp /\ reader' = c
    BY <1>4 DEF ReadInput
  <2> QED  BY <1>1, <2>1, <2>2, Handling
<1> QED  BY <1>3, <1>4 DEF ReadNext

LEMMA ParseEvents ==
    ASSUME TypeOK, EventDiscipline, NEW c \in Conn, ParseNext(c)
    PROVE  Kept
<1>1. /\ Running /\ pc = "parse" /\ c = reader /\ UNCHANGED batch
      /\ c \in connections /\ conn[c].state # "FREED"
      /\ \A e \in batch : e.owner # c
  BY DEF ParseNext, ParseNothing, ParseRejects, ParseLeave, ParseChat, Parsing, Running,
         EventDiscipline, EventOwners, connections
<1>2. CASE ParseNothing(c)
  BY <1>1, <1>2, Passing DEF ParseNothing, Parsing
<1>3. CASE ParseRejects(c)
  BY <1>1, <1>3, Removing DEF ParseRejects
<1>4. CASE ParseLeave(c)
  <2> DEFINE notice == Notice(c, "disconnected", conn[c].name)
  <2>1. conn \in [Conn -> Connection]
    BY DEF TypeOK, ServerTypeOK
  <2>2. CASE BroadcastFails(conn, c, notice)
    <3>1. RefuseBroadcast(conn, c) /\ UNCHANGED tcp
      BY <1>4, <2>2 DEF ParseLeave
    <3>2. ~Running'
      BY <3>1 DEF RefuseBroadcast, Running
    <3> QED  BY <2>1, <3>1, <3>2, RefuseKeeps, Stopping
  <2>3. CASE ~BroadcastFails(conn, c, notice)
    <3>1. /\ conn' = [Broadcast(conn, c, notice) EXCEPT ![c] = NoConnection]
          /\ CloseSockets({c}) /\ pc' = "dispatch"
      BY <1>4, <2>3 DEF ParseLeave
    <3>2. Broadcast(conn, c, notice) \in [Conn -> Connection]
      <4>1. notice \in Msg
        BY <1>1, NoticeType, ConnType, ConnectionFields DEF Speaker
      <4> QED  BY <2>1, <4>1, BroadcastType
    <3>3. \A d \in Conn \ {c} : conn'[d].fd = conn[d].fd /\ conn'[d].state = conn[d].state
      BY <2>1, <3>1, <3>2, BroadcastKeeps
    <3>4. conn'[c].state = "FREED"
      BY <3>1, <3>2 DEF NoConnection
    <3>5. \A d \in Conn : tcp'[d] \in {"none", "queued"} => tcp[d] \in {"none", "queued"}
      BY <3>1, CloseKeeps
    <3>6. \A e \in batch' : e.owner # None => conn'[e.owner].state # "FREED"
      BY <1>1, <3>3 DEF EventDiscipline, EventOwners, connections
    <3> QED  BY <1>1, <3>1, <3>3, <3>4, <3>5, <3>6, Shrinking
  <2> QED  BY <2>2, <2>3
<1>5. CASE ParseChat(c)
  <2> DEFINE m      == Head(conn[c].in_buffer)
             said   == format_broadcast_message(conn[c].name, m)
             popped == [conn EXCEPT ![c].in_buffer = Tail(@)]
  <2>1. m \in Msg /\ Tail(conn[c].in_buffer) \in Seq(Msg)
    BY <1>5, ConnType, ConnectionFields, HeadTailProperties DEF ParseChat
  <2>2. popped \in [Conn -> Connection]
    BY <2>1, ConnType, ConnectionFields DEF TypeOK, ServerTypeOK
  <2>3. \A d \in Conn : popped[d].fd = conn[d].fd /\ popped[d].state = conn[d].state
    BY DEF TypeOK, ServerTypeOK, Connection
  <2>4. UNCHANGED tcp
    BY <1>5 DEF ParseChat, sockVars
  <2> HIDE DEF m, said, popped
  <2>5. CASE BroadcastFails(popped, c, said)
    <3>1. RefuseBroadcast(popped, c)
      BY <1>5, <2>5 DEF ParseChat, m, said, popped
    <3>2. ~Running'
      BY <3>1 DEF RefuseBroadcast, Running
    <3> QED  BY <2>2, <2>3, <2>4, <3>1, <3>2, RefuseKeeps, Stopping
  <2>6. CASE ~BroadcastFails(popped, c, said)
    <3>1. conn' = Broadcast(popped, c, said) /\ UNCHANGED <<pc, reader>>
      BY <1>5, <2>6 DEF ParseChat, m, said, popped
    <3>2. \A d \in Conn : conn'[d].fd = conn[d].fd /\ conn'[d].state = conn[d].state
      BY <2>2, <2>3, <3>1, BroadcastKeeps
    <3>3. \A e \in batch' : e.owner # None => conn'[e.owner].state # "FREED"
      BY <1>1, <3>2 DEF EventDiscipline, EventOwners, connections
    <3>4. c \in connections'
      BY <1>1, <3>2 DEF connections
    <3> QED  BY <1>1, <2>4, <3>1, <3>2, <3>3, <3>4, Shrinking
  <2> QED  BY <2>5, <2>6
<1> QED  BY <1>2, <1>3, <1>4, <1>5 DEF ParseNext

LEMMA WriteEvents ==
    ASSUME TypeOK, EventDiscipline, NEW e \in batch, NEW c \in Conn, WriteNext(e, c)
    PROVE  Kept
<1>1. SendEvent(e, c)
  BY DEF WriteNext, SendFails, SendPartial, SendHelloDone, SendDone, SendAll
<1>2. /\ Running /\ pc = "dispatch" /\ c \in get_connection_of(e.fd)
      /\ batch' = batch \ {e}
      /\ conn[c].state \in {"SENDING_SERVER_HELLO", "ACTIVE"}
  BY <1>1 DEF SendEvent, Running, Rest, event_is_send_network_package
<1>3. conn \in [Conn -> Connection]
  BY DEF TypeOK, ServerTypeOK
<1>4. Flushed(c) \in [Conn -> Connection]
  BY FlushedType
<1>5. \A d \in Conn : Flushed(c)[d].fd = conn[d].fd /\ Flushed(c)[d].state = conn[d].state
  BY <1>3 DEF Flushed, Connection
<1>6. CASE SendFails(e, c)
  <2>1. ~Running' /\ UNCHANGED tcp
    BY <1>6 DEF SendFails, Running, sockVars
  <2>2. \A d \in Conn : conn'[d].state # "FREED" =>
            conn[d].state # "FREED" /\ conn'[d].fd = conn[d].fd
    BY <1>2, <1>3, <1>6 DEF SendFails, Connection
  <2> QED  BY <2>1, <2>2, Stopping
<1>7. CASE SendPartial(e, c)
  <2>1. UNCHANGED <<tcp, pc>>
    BY <1>7 DEF SendPartial, Sends
  <2>2. \A d \in Conn : conn'[d].fd = conn[d].fd /\ conn'[d].state = conn[d].state
    BY <1>3, <1>7 DEF SendPartial, Connection
  <2> QED  BY <1>2, <2>1, <2>2, Handling
<1>8. CASE SendHelloDone(e, c)
  <2> DEFINE active == [Flushed(c) EXCEPT ![c].state = "ACTIVE"]
             notice == Notice(c, "connected", conn[c].name)
  <2>1. active \in [Conn -> Connection]
    <3>1. [Flushed(c)[c] EXCEPT !.state = "ACTIVE"] \in Connection
      BY <1>4, ConnectionFields DEF ConnectionState
    <3> QED  BY <1>4, <3>1
  <2>2. \A d \in Conn : /\ active[d].fd = conn[d].fd
                        /\ active[d].state # "FREED" <=> conn[d].state # "FREED"
    <3>1. Flushed(c)[c].state # "FREED" /\ "ACTIVE" \in ConnectionState \ {"FREED"}
      BY <1>2, <1>5 DEF ConnectionState
    <3>2. \A d \in Conn : /\ active[d].fd = Flushed(c)[d].fd
                          /\ active[d].state # "FREED" <=> Flushed(c)[d].state # "FREED"
      BY <1>4, <3>1, StateKeeps
    <3> QED  BY <1>5, <3>2
  <2>3. UNCHANGED tcp
    BY <1>8 DEF SendHelloDone, SendAll, Sends
  <2> HIDE DEF active, notice
  <2>4. CASE BroadcastFails(active, None, notice)
    <3>1. RefuseBroadcast(active, None)
      BY <1>8, <2>4 DEF SendHelloDone, active, notice
    <3>2. ~Running'
      BY <3>1 DEF RefuseBroadcast, Running
    <3> QED  BY <2>1, <2>2, <2>3, <3>1, <3>2, RefuseKeeps, Stopping
  <2>5. CASE ~BroadcastFails(active, None, notice)
    <3>1. conn' = Broadcast(active, None, notice) /\ pc' = pc
      BY <1>8, <2>5 DEF SendHelloDone, active, notice
    <3>2. \A d \in Conn : conn'[d].fd = active[d].fd /\ conn'[d].state = active[d].state
      BY <2>1, <3>1, BroadcastKeeps
    <3> QED  BY <1>2, <2>2, <2>3, <3>1, <3>2, Handling
  <2> QED  BY <2>4, <2>5
<1>9. CASE SendDone(e, c)
  <2>1. UNCHANGED <<tcp, pc>> /\ conn' = Flushed(c)
    BY <1>9 DEF SendDone, SendAll, Sends
  <2> QED  BY <1>2, <1>5, <2>1, Handling
<1> QED  BY <1>6, <1>7, <1>8, <1>9 DEF WriteNext

(* A line of the server's user is about no connection.                      *)
LEMMA UserEvents ==
    ASSUME TypeOK, EventDiscipline, NEW e \in batch, StdinNext(e)
    PROVE  Kept
<1>1. StdinEvent(e)
  BY DEF StdinNext, StdinEof, StdinIgnored, StdinChat, StdinQuit
<1>2. Running /\ pc = "dispatch" /\ batch' \subseteq batch /\ UNCHANGED tcp
  BY <1>1 DEF StdinEvent, Running, Rest, sockVars
<1>3. conn \in [Conn -> Connection]
  BY DEF TypeOK, ServerTypeOK
<1>4. ASSUME \A d \in Conn : conn'[d].fd = conn[d].fd /\ conn'[d].state = conn[d].state,
             pc' # "parse"
      PROVE  Kept
  <2>1. \A d \in batch' : d.owner # None => conn'[d.owner].state # "FREED"
    BY <1>2, <1>4 DEF EventDiscipline, EventOwners, connections
  <2> QED  BY <1>2, <1>4, <2>1, Shrinking
<1>5. CASE StdinEof(e)  BY <1>4, <1>5 DEF StdinEof
<1>6. CASE StdinIgnored(e)  BY <1>2, <1>4, <1>6 DEF StdinIgnored
<1>7. CASE StdinChat(e)
  <2>1. \/ RefuseBroadcast(conn, None)
        \/ /\ \E said : conn' = Broadcast(conn, None, said)
           /\ pc' = pc
    BY <1>7 DEF StdinChat
  <2>2. CASE RefuseBroadcast(conn, None)
    <3>1. ~Running'
      BY <2>2 DEF RefuseBroadcast, Running
    <3> QED  BY <1>2, <1>3, <2>2, <3>1, RefuseKeeps, Stopping
  <2>3. CASE (\E said : conn' = Broadcast(conn, None, said)) /\ pc' = pc
    BY <1>2, <1>3, <1>4, <2>3, BroadcastKeeps
  <2> QED  BY <2>1, <2>2, <2>3
<1>8. CASE StdinQuit(e)
  <2>1. /\ conn' = Broadcast(Broadcast(conn, None, ClosingNotice), None, CloseMessage)
        /\ pc' \in {pc, "cleanup"}
    BY <1>8 DEF StdinQuit
  <2>2. Broadcast(conn, None, ClosingNotice) \in [Conn -> Connection]
    BY <1>3, ClosingNoticeType, BroadcastType
  <2>3. \A d \in Conn : conn'[d].fd = conn[d].fd /\ conn'[d].state = conn[d].state
    BY <1>3, <2>1, <2>2, BroadcastKeeps
  <2> QED  BY <1>2, <1>4, <2>1, <2>3
<1> QED  BY <1>5, <1>6, <1>7, <1>8 DEF StdinNext

LEMMA CleanupEvents == TypeOK /\ EventDiscipline /\ server_cleanup => Kept
<1> SUFFICES ASSUME TypeOK, EventDiscipline, server_cleanup PROVE Kept
  OBVIOUS
<1>1. ~Running' /\ \A c \in Conn : conn'[c].state = "FREED"
  BY DEF server_cleanup, Running, NoConnection
<1>2. \A c \in Conn : tcp'[c] \in {"none", "queued"} => tcp[c] \in {"none", "queued"}
  BY CloseKeeps DEF server_cleanup
<1> QED  BY <1>1, <1>2, Stopping

(* The remote programs open connections but create no object.               *)
LEMMA NetworkEvents == TypeOK /\ EventDiscipline /\ NetworkNext => EventDiscipline'
<1> SUFFICES ASSUME TypeOK, EventDiscipline, NetworkNext PROVE EventDiscipline'
  OBVIOUS
<1>1. UNCHANGED <<pc, conn, batch, reader>> /\ connections' = connections
  BY DEF NetworkNext, serverVars, connections
<1>2. \A c \in Conn : tcp'[c] \in {"none", "queued"} => tcp[c] \in {"none", "queued"}
  BY DEF NetworkNext, RemoteConnect, RemoteNext, RemoteSend, RemoteShutdown, RemoteReset,
         RemoteRead, TypeOK, SocketsTypeOK
<1> QED  BY <1>1, <1>2 DEF EventDiscipline, LiveDescriptors, EventOwners, Running

LEMMA InitEvents == Init => EventDiscipline
  BY DEF Init, EventDiscipline, LiveDescriptors, EventOwners, connections, NoConnection

(* Only accept() makes a connection object; all others keep theirs, with    *)
(* its descriptor, or lose it.                                              *)
LEMMA ObjectStep ==
    ASSUME TypeOK, EventDiscipline, ServerNext
    PROVE  EventDiscipline' /\ (Survivors \/ \E c \in Conn : AcceptOne(c))
<1>1. CASE epoll_wait
  BY <1>1, WaitEvents DEF epoll_wait, Survivors
<1>2. CASE (\E e \in batch : SkipEvent(e)) \/ EndOfBatch
  BY <1>2, DispatchEvents DEF Kept
<1>3. CASE AcceptNext  BY <1>3, AcceptEvents
<1>4. CASE \E e \in batch, c \in Conn :
             HandshakeNext(e, c) \/ ReadNext(e, c) \/ WriteNext(e, c)
  BY <1>4, HandshakeEvents, ReadEvents, WriteEvents DEF Kept
<1>5. CASE \E c \in Conn : ParseNext(c)
  BY <1>5, ParseEvents DEF Kept
<1>6. CASE (\E e \in batch : StdinNext(e)) \/ server_cleanup
  BY <1>6, UserEvents, CleanupEvents DEF Kept
<1> QED  BY <1>1, <1>2, <1>3, <1>4, <1>5, <1>6 DEF ServerNext

LEMMA EventStep == TypeOK /\ EventDiscipline /\ [Next]_vars => EventDiscipline'
<1> SUFFICES ASSUME TypeOK, EventDiscipline, [Next]_vars PROVE EventDiscipline'
  OBVIOUS
<1>1. CASE ServerNext  BY <1>1, ObjectStep
<1>2. CASE NetworkNext  BY <1>2, NetworkEvents
<1>3. CASE UNCHANGED vars
  BY <1>3 DEF vars, sockVars, serverVars, EventDiscipline, LiveDescriptors, EventOwners,
              Running, connections
<1> QED  BY <1>1, <1>2, <1>3 DEF Next

-----------------------------------------------------------------------------
(* Live connections hold different descriptors, and every event of a batch  *)
(* belongs to another one of them (server.cpp, the loop of                  *)
(* server_event_loop and remove_connection).                                *)
THEOREM EventsAreDisciplined == Spec => []EventDiscipline
<1>1. Init => TypeOK /\ EventDiscipline
  BY InitType, InitEvents
<1>2. (TypeOK /\ EventDiscipline) /\ [Next]_vars => (TypeOK /\ EventDiscipline)'
  BY TypeStep, EventStep
<1> QED  BY <1>1, <1>2, PTL DEF Spec

(* No handler ever sees an event of a connection that was deleted, or of a  *)
(* descriptor that was reused since epoll_wait returned, for any number of  *)
(* clients and descriptors and any MAX_EPOLL_EVENTS.                        *)
THEOREM EventsAreFresh == Spec => []FreshEvents
<1>1. EventDiscipline => FreshEvents
  BY DEF EventDiscipline, LiveDescriptors, EventOwners, FreshEvents, get_connection_of
<1> QED  BY <1>1, EventsAreDisciplined, PTL

-----------------------------------------------------------------------------
(* What a connection owes is what epoll watches for.                        *)
Matches(cs, is, c) == cs[c].out_buffer # <<>> <=> "EPOLLOUT" \in is[c]

(* A recipient of a broadcast has output and is watched for it, any other   *)
(* connection is as it was.                                                 *)
LEMMA BroadcastWatches ==
    ASSUME NEW cs \in [Conn -> Connection], NEW is, NEW sender, NEW m \in Msg, NEW c \in Conn
    PROVE  /\ c \in Recipients(cs, sender) =>
                Matches(Broadcast(cs, sender, m), WatchRecipients(is, cs, sender), c)
           /\ c \notin Recipients(cs, sender) =>
                /\ Broadcast(cs, sender, m)[c] = cs[c]
                /\ WatchRecipients(is, cs, sender)[c] = is[c]
<1>1. c \notin Recipients(cs, sender) =>
        /\ Broadcast(cs, sender, m)[c] = cs[c]
        /\ WatchRecipients(is, cs, sender)[c] = is[c]
  BY DEF Broadcast, Queue, WatchRecipients, Watch
<1>2. ASSUME c \in Recipients(cs, sender)
      PROVE  Matches(Broadcast(cs, sender, m), WatchRecipients(is, cs, sender), c)
  <2>1. cs[c].out_buffer \in Seq(Msg) /\ cs[c] \in Connection
    BY ConnectionFields
  <2>2. Append(cs[c].out_buffer, m) # <<>>
    BY <2>1, AppendProperties
  <2>3. Broadcast(cs, sender, m)[c].out_buffer = Append(cs[c].out_buffer, m)
    BY <1>2, <2>1 DEF Broadcast, Queue, Connection
  <2>4. WatchRecipients(is, cs, sender)[c] = ReadWrite
    BY <1>2 DEF WatchRecipients, Watch
  <2> QED  BY <2>2, <2>3, <2>4 DEF Matches, ReadWrite
<1> QED  BY <1>1, <1>2

(* The general step: each object matches, or is as it was.                  *)
Unchanged(c) == /\ conn[c].state # "FREED"
                /\ conn'[c].out_buffer = conn[c].out_buffer
                /\ interest'[c] = interest[c]

LEMMA Matching ==
    ASSUME WriteInterest,
           Running' => /\ Running
                       /\ \A c \in Conn : conn'[c].state # "FREED" =>
                            Matches(conn', interest', c) \/ Unchanged(c)
    PROVE  WriteInterest'
  BY DEF WriteInterest, Matches, Unchanged, connections

(* A step that touches neither the objects nor the interest sets.           *)
LEMMA Idling ==
    ASSUME WriteInterest, UNCHANGED <<conn, interest>>, Running' => Running
    PROVE  WriteInterest'
  BY Matching DEF Unchanged

LEMMA Ending ==
    ASSUME WriteInterest, pc' \in {"cleanup", "exited"}
    PROVE  WriteInterest'
  BY Matching DEF Running

-----------------------------------------------------------------------------
LEMMA LoopWrites ==
    ASSUME WriteInterest, epoll_wait \/ (\E e \in batch : SkipEvent(e)) \/ EndOfBatch
    PROVE  WriteInterest'
  BY Idling DEF epoll_wait, SkipEvent, EndOfBatch, Running

LEMMA AcceptWrites ==
    ASSUME TypeOK, WriteInterest, AcceptNext
    PROVE  WriteInterest'
<1>1. ASSUME NEW c \in Conn, AcceptOne(c) PROVE WriteInterest'
  <2>1. PICK f \in FreeFds : conn' = [conn EXCEPT ![c] = NewConnection(f)]
    BY <1>1 DEF AcceptOne
  <2>2. conn'[c].out_buffer = <<>> /\ \A d \in Conn \ {c} : conn'[d] = conn[d]
    BY <2>1 DEF NewConnection, NoConnection, TypeOK, ServerTypeOK
  <2>3. interest'[c] = ReadOnly /\ \A d \in Conn \ {c} : interest'[d] = interest[d]
    BY <1>1 DEF AcceptOne, TypeOK, ServerTypeOK
  <2>4. Matches(conn', interest', c)
    BY <2>2, <2>3 DEF Matches, ReadOnly
  <2>5. Running
    BY <1>1 DEF AcceptOne, Running
  <2> QED  BY <2>2, <2>3, <2>4, <2>5, Matching DEF Unchanged
<1>2. ASSUME NEW c \in Conn, AcceptAborted(c) \/ AcceptNotWatched(c)
      PROVE  WriteInterest'
  BY <1>2, Ending DEF AcceptAborted, AcceptNotWatched, AcceptLost
<1>3. ASSUME NEW e \in batch, handle_accept_client_connection_event(e)
      PROVE  WriteInterest'
  BY <1>3, Idling DEF handle_accept_client_connection_event, Running
<1>4. CASE AcceptDone  BY <1>4, Idling DEF AcceptDone, Running
<1>5. CASE AcceptWithoutDescriptor  BY <1>5, Ending DEF AcceptWithoutDescriptor
<1> QED  BY <1>1, <1>2, <1>3, <1>4, <1>5 DEF AcceptNext

LEMMA RemoveWrites ==
    ASSUME TypeOK, WriteInterest, Running, NEW c \in Conn, remove_connection(c)
    PROVE  WriteInterest'
<1>1. conn'[c].state = "FREED"
      /\ \A d \in Conn \ {c} : conn'[d] = conn[d] /\ interest'[d] = interest[d]
  BY DEF remove_connection, NoConnection, TypeOK, ServerTypeOK
<1> QED  BY <1>1, Matching DEF Unchanged

LEMMA HandshakeWrites ==
    ASSUME TypeOK, WriteInterest, NEW e \in batch, NEW c \in Conn, HandshakeNext(e, c)
    PROVE  WriteInterest'
<1>1. Running
  BY DEF HandshakeNext, HelloIncomplete, HelloRejected, HelloAccepted, HelloEvent, Running
<1>2. CASE HelloIncomplete(e, c)  BY <1>1, <1>2, Idling DEF HelloIncomplete
<1>3. CASE HelloRejected(e, c)  BY <1>1, <1>3, RemoveWrites DEF HelloRejected
<1>4. CASE HelloAccepted(e, c)
  <2>1. CASE ~protocol_payload_length_is_legal(server_name)
    BY <1>4, <2>1, Ending DEF HelloAccepted
  <2>2. CASE protocol_payload_length_is_legal(server_name)
    <3> DEFINE named(k) == Named(c, InputAfter(c, k))
    <3>1. PICK k \in ReadSizes(c) :
            /\ InputAfter(c, k) # <<>>
            /\ conn' = [Queue(named(k), {c}, ServerHello)
                           EXCEPT ![c].state = "SENDING_SERVER_HELLO"]
            /\ interest' = Watch(interest, {c}, ReadWrite)
      BY <1>4, <2>2 DEF HelloAccepted
    <3>2. named(k) \in [Conn -> Connection]
      BY <3>1, InputType, NamedType
    <3>3. \A d \in Conn \ {c} : named(k)[d] = conn[d]
      BY DEF Named, TypeOK, ServerTypeOK
    <3>4. ServerHello \in Msg
      BY DEF ServerHello, TypeOK, ServerTypeOK, Msg, Message, MessageType, Utterance,
             Topic, Speaker
    <3> HIDE DEF named
    <3>5. Queue(named(k), {c}, ServerHello)[c].out_buffer # <<>>
      <4>1. named(k)[c] \in Connection /\ named(k)[c].out_buffer \in Seq(Msg)
        BY <3>2, ConnectionFields
      <4>2. Append(named(k)[c].out_buffer, ServerHello) # <<>>
        BY <3>4, <4>1, AppendProperties
      <4> QED  BY <4>1, <4>2 DEF Queue, Connection
    <3>6. conn'[c].out_buffer # <<>>
      <4>1. Queue(named(k), {c}, ServerHello) \in [Conn -> Connection]
        BY <3>2, <3>4, QueueType
      <4> QED  BY <3>1, <3>5, <4>1 DEF Connection
    <3>7. \A d \in Conn \ {c} : conn'[d] = conn[d]
      BY <3>1, <3>3 DEF Queue
    <3>8. "EPOLLOUT" \in interest'[c]
          /\ \A d \in Conn \ {c} : interest'[d] = interest[d]
      BY <3>1 DEF Watch, ReadWrite
    <3> QED  BY <1>1, <3>6, <3>7, <3>8, Matching DEF Matches, Unchanged
  <2> QED  BY <2>1, <2>2
<1> QED  BY <1>2, <1>3, <1>4 DEF HandshakeNext

LEMMA ReadWrites ==
    ASSUME TypeOK, WriteInterest, NEW e \in batch, NEW c \in Conn, ReadNext(e, c)
    PROVE  WriteInterest'
<1>1. Running /\ conn[c].state = "ACTIVE"
  BY DEF ReadNext, ReadFails, ReadInput, ReadEvent, Running, event_is_read_network_package
<1>2. CASE ReadFails(e, c)  BY <1>1, <1>2, RemoveWrites DEF ReadFails
<1>3. CASE ReadInput(e, c)
  <2>1. UNCHANGED interest
        /\ \A d \in Conn : /\ conn'[d].out_buffer = conn[d].out_buffer
                           /\ conn'[d].state # "FREED" => conn[d].state # "FREED"
    BY <1>1, <1>3 DEF ReadInput, TypeOK, ServerTypeOK, Connection
  <2> QED  BY <1>1, <2>1, Matching DEF Unchanged
<1> QED  BY <1>2, <1>3 DEF ReadNext

(* A broadcast keeps WriteInterest, if the objects it starts from owe what  *)
(* they owed.                                                               *)
LEMMA TellWrites ==
    ASSUME WriteInterest, Running, NEW cs \in [Conn -> Connection],
           NEW sender, NEW m \in Msg,
           \A d \in Conn : /\ cs[d].out_buffer = conn[d].out_buffer
                           /\ cs[d].state # "FREED" => conn[d].state # "FREED",
           conn' = Broadcast(cs, sender, m),
           interest' = WatchRecipients(interest, cs, sender)
    PROVE  WriteInterest'
<1>1. ASSUME NEW d \in Conn, conn'[d].state # "FREED"
      PROVE  Matches(conn', interest', d) \/ Unchanged(d)
  <2>1. CASE d \in Recipients(cs, sender)
    BY <2>1, BroadcastWatches
  <2>2. CASE d \notin Recipients(cs, sender)
    <3>1. conn'[d] = cs[d] /\ interest'[d] = interest[d]
      BY <2>2, BroadcastWatches
    <3> QED  BY <1>1, <3>1 DEF Unchanged
  <2> QED  BY <2>1, <2>2
<1> QED  BY <1>1, Matching

LEMMA ParseWrites ==
    ASSUME TypeOK, WriteInterest, NEW c \in Conn, ParseNext(c)
    PROVE  WriteInterest'
<1>1. Running
  BY DEF ParseNext, ParseNothing, ParseRejects, ParseLeave, ParseChat, Parsing, Running
<1>2. CASE ParseNothing(c)  BY <1>1, <1>2, Idling DEF ParseNothing
<1>3. CASE ParseRejects(c)  BY <1>1, <1>3, RemoveWrites DEF ParseRejects
<1>4. CASE ParseLeave(c)
  <2> DEFINE notice == Notice(c, "disconnected", conn[c].name)
  <2>1. notice \in Msg
    BY NoticeType, ConnType, ConnectionFields DEF Speaker
  <2>2. CASE BroadcastFails(conn, c, notice)
    BY <1>4, <2>2, Ending DEF ParseLeave, RefuseBroadcast
  <2>3. CASE ~BroadcastFails(conn, c, notice)
    <3> DEFINE told    == Broadcast(conn, c, notice)
               watched == WatchRecipients(interest, conn, c)
    <3>1. /\ conn' = [told EXCEPT ![c] = NoConnection]
          /\ interest' = [watched EXCEPT ![c] = {}]
      BY <1>4, <2>3 DEF ParseLeave
    <3>2. conn \in [Conn -> Connection] /\ told \in [Conn -> Connection]
      BY <2>1, BroadcastType DEF TypeOK, ServerTypeOK
    <3>3. conn'[c].state = "FREED"
      BY <3>1, <3>2 DEF NoConnection
    <3>4. ASSUME NEW d \in Conn \ {c}, conn'[d].state # "FREED"
          PROVE  Matches(conn', interest', d) \/ Unchanged(d)
      <4>1. conn'[d] = told[d] /\ interest'[d] = watched[d]
        BY <3>1, <3>2 DEF WatchRecipients, Watch
      <4>2. CASE d \in Recipients(conn, c)
        <5>1. Matches(told, watched, d)
          BY <2>1, <3>2, <4>2, BroadcastWatches
        <5> QED  BY <4>1, <5>1 DEF Matches
      <4>3. CASE d \notin Recipients(conn, c)
        <5>1. told[d] = conn[d] /\ watched[d] = interest[d]
          BY <4>3 DEF Broadcast, Queue, WatchRecipients, Watch
        <5> QED  BY <3>4, <4>1, <5>1 DEF Unchanged
      <4> QED  BY <4>2, <4>3
    <3> QED  BY <1>1, <3>3, <3>4, Matching
  <2> QED  BY <2>2, <2>3
<1>5. CASE ParseChat(c)
  <2> DEFINE m      == Head(conn[c].in_buffer)
             said   == format_broadcast_message(conn[c].name, m)
             popped == [conn EXCEPT ![c].in_buffer = Tail(@)]
  <2>1. m \in Msg /\ Tail(conn[c].in_buffer) \in Seq(Msg)
    BY <1>5, ConnType, ConnectionFields, HeadTailProperties DEF ParseChat
  <2>2. said \in Msg
    BY <2>1, FormattedType, ConnType, ConnectionFields
  <2>3. popped \in [Conn -> Connection]
    BY <2>1, ConnType, ConnectionFields DEF TypeOK, ServerTypeOK
  <2>4. \A d \in Conn : /\ popped[d].out_buffer = conn[d].out_buffer
                        /\ popped[d].state = conn[d].state
    BY DEF TypeOK, ServerTypeOK, Connection
  <2>5. CASE BroadcastFails(popped, c, said)
    BY <1>5, <2>5, Ending DEF ParseChat, RefuseBroadcast
  <2>6. CASE ~BroadcastFails(popped, c, said)
    <3>1. /\ conn' = Broadcast(popped, c, said)
          /\ interest' = WatchRecipients(interest, popped, c)
      BY <1>5, <2>6 DEF ParseChat
    <3> QED  BY <1>1, <2>2, <2>3, <2>4, <3>1, TellWrites
  <2> QED  BY <2>5, <2>6
<1> QED  BY <1>2, <1>3, <1>4, <1>5 DEF ParseNext

LEMMA WriteWrites ==
    ASSUME TypeOK, WriteInterest, NEW e \in batch, NEW c \in Conn, WriteNext(e, c)
    PROVE  WriteInterest'
<1>1. Running /\ conn[c].state # "FREED"
  BY DEF WriteNext, SendFails, SendPartial, SendHelloDone, SendDone, SendAll, SendEvent,
         Running, event_is_send_network_package
<1>2. conn \in [Conn -> Connection] /\ interest \in [Conn -> SUBSET EpollFlag]
  BY DEF TypeOK, ServerTypeOK
<1>3. Flushed(c) \in [Conn -> Connection]
      /\ \A d \in Conn \ {c} : Flushed(c)[d] = conn[d]
  BY <1>2, FlushedType DEF Flushed
<1>4. Flushed(c)[c].out_buffer = <<>> /\ Flushed(c)[c].state = conn[c].state
  BY <1>2 DEF Flushed, Connection
<1>5. CASE SendFails(e, c)  BY <1>5, Ending DEF SendFails
<1>6. CASE SendPartial(e, c)
  <2>1. UNCHANGED interest
        /\ \A d \in Conn : /\ conn'[d].out_buffer = conn[d].out_buffer
                           /\ conn'[d].state = conn[d].state
    BY <1>2, <1>6 DEF SendPartial, Connection
  <2> QED  BY <1>1, <2>1, Matching DEF Unchanged
<1>7. CASE SendHelloDone(e, c)
  <2> DEFINE active == [Flushed(c) EXCEPT ![c].state = "ACTIVE"]
             notice == Notice(c, "connected", conn[c].name)
  <2>1. notice \in Msg
    BY NoticeType, ConnType, ConnectionFields DEF Speaker
  <2>2. active \in [Conn -> Connection]
    <3>1. [Flushed(c)[c] EXCEPT !.state = "ACTIVE"] \in Connection
      BY <1>3, ConnectionFields DEF ConnectionState
    <3> QED  BY <1>3, <3>1
  <2>3. \A d \in Conn \ {c} : active[d] = conn[d]
    BY <1>3
  <2>4. c \in Recipients(active, None)
    BY <1>3, ServerAssumption DEF Recipients, Connection
  <2>5. SendHelloDone(e, c) =>
          IF BroadcastFails(active, None, notice)
          THEN RefuseBroadcast(active, None)
          ELSE /\ conn' = Broadcast(active, None, notice)
               /\ interest' = WatchRecipients(interest, active, None)
    BY DEF SendHelloDone
  <2> HIDE DEF active, notice
  <2>6. CASE BroadcastFails(active, None, notice)
    BY <1>7, <2>5, <2>6, Ending DEF RefuseBroadcast
  <2>7. CASE ~BroadcastFails(active, None, notice)
    <3>1. /\ conn' = Broadcast(active, None, notice)
          /\ interest' = WatchRecipients(interest, active, None)
      BY <1>7, <2>5, <2>7
    <3>2. ASSUME NEW d \in Conn, conn'[d].state # "FREED"
          PROVE  Matches(conn', interest', d) \/ Unchanged(d)
      <4>1. CASE d \in Recipients(active, None)
        BY <2>1, <2>2, <3>1, <4>1, BroadcastWatches
      <4>2. CASE d \notin Recipients(active, None)
        <5>1. conn'[d] = active[d] /\ interest'[d] = interest[d]
          BY <2>1, <2>2, <3>1, <4>2, BroadcastWatches
        <5>2. active[d] = conn[d]
          BY <2>3, <2>4, <4>2
        <5> QED  BY <3>2, <5>1, <5>2 DEF Unchanged
      <4> QED  BY <4>1, <4>2
    <3> QED  BY <1>1, <3>2, Matching
  <2> QED  BY <2>6, <2>7
<1>8. CASE SendDone(e, c)
  <2>1. conn' = Flushed(c) /\ interest' = Watch(interest, {c}, ReadOnly)
    BY <1>8 DEF SendDone
  <2>2. interest'[c] = ReadOnly /\ \A d \in Conn \ {c} : interest'[d] = interest[d]
    BY <2>1 DEF Watch
  <2>3. Matches(conn', interest', c)
    BY <1>4, <2>1, <2>2 DEF Matches, ReadOnly
  <2> QED  BY <1>1, <1>3, <2>1, <2>2, <2>3, Matching DEF Unchanged
<1> QED  BY <1>5, <1>6, <1>7, <1>8 DEF WriteNext

LEMMA UserWrites ==
    ASSUME TypeOK, WriteInterest, NEW e \in batch, StdinNext(e)
    PROVE  WriteInterest'
<1>1. Running
  BY DEF StdinNext, StdinEof, StdinIgnored, StdinChat, StdinQuit, StdinEvent, Running
<1>2. conn \in [Conn -> Connection]
  BY DEF TypeOK, ServerTypeOK
<1>3. CASE StdinEof(e)  BY <1>3, Ending DEF StdinEof
<1>4. CASE StdinIgnored(e)  BY <1>1, <1>4, Idling DEF StdinIgnored
<1>5. CASE StdinChat(e)
  <2> DEFINE said(size) == format_broadcast_message(server_name,
                               ChatMessage(Host, "chat", lines + 1, size))
  <2>1. PICK size \in LineSizes :
          IF BroadcastFails(conn, None, said(size))
          THEN RefuseBroadcast(conn, None)
          ELSE /\ conn' = Broadcast(conn, None, said(size))
               /\ interest' = WatchRecipients(interest, conn, None)
    BY <1>5 DEF StdinChat
  <2>2. said(size) \in Msg
    <3>1. ChatMessage(Host, "chat", lines + 1, size) \in Msg
      BY ServerAssumption, LineType DEF Topic, TypeOK, ServerTypeOK
    <3> QED  BY <3>1, FormattedType DEF TypeOK, ServerTypeOK
  <2>3. CASE BroadcastFails(conn, None, said(size))
    BY <2>1, <2>3, Ending DEF RefuseBroadcast
  <2>4. CASE ~BroadcastFails(conn, None, said(size))
    BY <1>1, <1>2, <2>1, <2>2, <2>4, TellWrites
  <2> QED  BY <2>3, <2>4
<1>6. CASE StdinQuit(e)
  <2> DEFINE told == Broadcast(conn, None, ClosingNotice)
  <2>1. /\ conn' = Broadcast(told, None, CloseMessage)
        /\ interest' = Watch(interest, Recipients(told, None), WriteOnly)
    BY <1>6 DEF StdinQuit
  <2>2. CloseMessage \in Msg
    BY DEF CloseMessage, Msg, Message, MessageType, Utterance, Topic, Speaker
  <2>3. told \in [Conn -> Connection]
    BY <1>2, ClosingNoticeType, BroadcastType
  <2>4. Recipients(told, None) = Recipients(conn, None)
    BY <1>2 DEF Recipients, Broadcast, Queue, Connection
  <2> HIDE DEF told
  <2>5. ASSUME NEW d \in Conn, conn'[d].state # "FREED"
        PROVE  Matches(conn', interest', d) \/ Unchanged(d)
    <3>1. CASE d \in Recipients(told, None)
      <4>1. Matches(conn', WatchRecipients(interest, told, None), d)
        BY <2>1, <2>2, <2>3, <3>1, BroadcastWatches
      <4> QED  BY <2>1, <3>1, <4>1
               DEF Matches, Watch, WatchRecipients, WriteOnly, ReadWrite
    <3>2. CASE d \notin Recipients(told, None)
      <4>1. conn'[d] = told[d]
        BY <2>1, <3>2 DEF Broadcast, Queue
      <4>2. told[d] = conn[d]
        BY <2>4, <3>2 DEF told, Broadcast, Queue
      <4>3. interest'[d] = interest[d]
        BY <2>1, <3>2 DEF Watch
      <4> QED  BY <2>5, <4>1, <4>2, <4>3 DEF Unchanged
    <3> QED  BY <3>1, <3>2
  <2> QED  BY <1>1, <2>5, Matching
<1> QED  BY <1>3, <1>4, <1>5, <1>6 DEF StdinNext

LEMMA CleanupWrites == WriteInterest /\ server_cleanup => WriteInterest'
  BY Ending DEF server_cleanup

LEMMA NetworkWrites == WriteInterest /\ NetworkNext => WriteInterest'
  BY Idling DEF NetworkNext, serverVars, Running

LEMMA InitWrites == Init => WriteInterest
  BY DEF Init, WriteInterest, connections, NoConnection

LEMMA WriteStep == TypeOK /\ WriteInterest /\ [Next]_vars => WriteInterest'
<1> SUFFICES ASSUME TypeOK, WriteInterest, [Next]_vars PROVE WriteInterest'
  OBVIOUS
<1>1. CASE ServerNext
  BY <1>1, LoopWrites, AcceptWrites, HandshakeWrites, ReadWrites, ParseWrites,
     WriteWrites, UserWrites, CleanupWrites DEF ServerNext
<1>2. CASE NetworkNext  BY <1>2, NetworkWrites
<1>3. CASE UNCHANGED vars
  BY <1>3, Idling DEF vars, serverVars, Running
<1> QED  BY <1>1, <1>2, <1>3 DEF Next

-----------------------------------------------------------------------------
(* A byte queued for a client always has EPOLLOUT watched behind it, and an *)
(* empty buffer never has, for any number of clients and whatever they do   *)
(* (the epoll_fd_mod calls of server.cpp).                                  *)
THEOREM InterestFollowsOutput == Spec => []WriteInterest
<1>1. Init => TypeOK /\ WriteInterest
  BY InitType, InitWrites
<1>2. (TypeOK /\ WriteInterest) /\ [Next]_vars => (TypeOK /\ WriteInterest)'
  BY TypeStep, WriteStep
<1> QED  BY <1>1, <1>2, PTL DEF Spec
=============================================================================
