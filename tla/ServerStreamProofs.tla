------------------------- MODULE ServerStreamProofs -------------------------
(***************************************************************************)
(* Proofs about what the server commits itself to send.  StreamIsLegal:    *)
(* whatever the names and the lines are, no client is sent a frame that its*)
(* parser would refuse for its length.  HelloFirst: whatever handlers      *)
(* queue, and however the kernel takes it, a client is greeted first and   *)
(* once.                                                                   *)
(***************************************************************************)
EXTENDS ServerProofs, SelectionProofs

LegalMsg == {m \in Msg : protocol_payload_length_is_legal(m.size)}

(* What was sent and what is queued are sequences of legal frames.          *)
FramesAreLegal ==
    /\ wire \in [Conn -> Seq(LegalMsg)]
    /\ \A c \in Conn : conn[c].out_buffer \in Seq(LegalMsg)

LEMMA FramesGiveStreams == TypeOK /\ FramesAreLegal => StreamIsLegal
<1> SUFFICES ASSUME TypeOK, FramesAreLegal, NEW c \in Conn,
                    NEW i \in 1 .. Len(Stream(c))
             PROVE  protocol_payload_length_is_legal(Stream(c)[i].size)
  BY DEF StreamIsLegal
<1> DEFINE out == conn[c].out_buffer
           bw  == conn[c].bytes_written
<1>1. out \in Seq(LegalMsg) /\ bw \in Nat /\ Len(out) \in Nat
  BY ConnType, ConnectionFields, LenProperties DEF FramesAreLegal
<1>2. \A j \in bw + 1 .. Len(out) : out[j] \in LegalMsg
  BY <1>1, ElementOfSeq
<1>3. SubSeq(out, bw + 1, Len(out)) \in Seq(LegalMsg)
  BY <1>1, <1>2, SubSeqProperties
<1>4. Stream(c) \in Seq(LegalMsg)
  BY <1>3, ConcatProperties DEF Stream, FramesAreLegal
<1>5. Stream(c)[i] \in LegalMsg
  BY <1>4, ElementOfSeq
<1> QED  BY <1>5 DEF LegalMsg

(* A step that sends nothing.                                               *)
LEMMA NothingSent ==
    ASSUME FramesAreLegal, UNCHANGED wire,
           \A d \in Conn : \/ conn'[d].out_buffer = conn[d].out_buffer
                           \/ conn'[d].out_buffer \in Seq(LegalMsg)
    PROVE  FramesAreLegal'
  BY DEF FramesAreLegal

LEMMA NoOutput == NoConnection.out_buffer \in Seq(LegalMsg)
  BY EmptySeq DEF NoConnection

(* Queueing a legal frame.                                                  *)
LEMMA QueueLegal ==
    ASSUME NEW cs \in [Conn -> Connection], NEW to, NEW m \in LegalMsg, NEW d \in Conn,
           cs[d].out_buffer \in Seq(LegalMsg)
    PROVE  Queue(cs, to, m)[d].out_buffer \in Seq(LegalMsg)
<1>1. CASE d \in to
  <2>1. Queue(cs, to, m)[d].out_buffer = Append(cs[d].out_buffer, m)
    BY <1>1 DEF Queue, Connection
  <2> QED  BY <2>1, AppendProperties
<1>2. CASE d \notin to  BY <1>2 DEF Queue
<1> QED  BY <1>1, <1>2

(* A broadcast that is not refused is legal or reaches nobody.              *)
LEMMA BroadcastLegal ==
    ASSUME NEW cs \in [Conn -> Connection], NEW sender, NEW m \in Msg, NEW d \in Conn,
           ~BroadcastFails(cs, sender, m),
           cs[d].out_buffer \in Seq(LegalMsg)
    PROVE  Broadcast(cs, sender, m)[d].out_buffer \in Seq(LegalMsg)
<1>1. CASE protocol_payload_length_is_legal(m.size)
  <2>1. m \in LegalMsg
    BY <1>1 DEF LegalMsg
  <2> QED  BY <2>1, QueueLegal DEF Broadcast
<1>2. CASE ~protocol_payload_length_is_legal(m.size)
  <2>1. Recipients(cs, sender) = {}
    BY <1>2 DEF BroadcastFails
  <2> QED  BY <2>1 DEF Broadcast, Queue
<1> QED  BY <1>1, <1>2

(* A refused broadcast queues nothing.                                      *)
LEMMA RefusalLegal ==
    ASSUME NEW cs \in [Conn -> Connection], NEW sender, NEW d \in Conn,
           RefuseBroadcast(cs, sender)
    PROVE  conn'[d].out_buffer = cs[d].out_buffer
  BY DEF RefuseBroadcast, Connection

-----------------------------------------------------------------------------
LEMMA LoopSends ==
    ASSUME FramesAreLegal, epoll_wait \/ (\E e \in batch : SkipEvent(e)) \/ EndOfBatch
    PROVE  FramesAreLegal'
  BY NothingSent DEF epoll_wait, SkipEvent, EndOfBatch, sockVars

LEMMA AcceptSends ==
    ASSUME TypeOK, FramesAreLegal, AcceptNext
    PROVE  FramesAreLegal'
<1>1. ASSUME NEW c \in Conn, AcceptOne(c) PROVE FramesAreLegal'
  <2>1. PICK f \in FreeFds : conn' = [conn EXCEPT ![c] = NewConnection(f)]
    BY <1>1 DEF AcceptOne
  <2>2. conn'[c].out_buffer \in Seq(LegalMsg)
    BY <2>1, EmptySeq DEF NewConnection, NoConnection, TypeOK, ServerTypeOK
  <2>3. \A d \in Conn \ {c} : conn'[d] = conn[d]
    BY <2>1 DEF TypeOK, ServerTypeOK
  <2> QED  BY <1>1, <2>2, <2>3, NothingSent DEF AcceptOne
<1>2. ASSUME NEW c \in Conn, AcceptAborted(c) \/ AcceptNotWatched(c)
      PROVE  FramesAreLegal'
  BY <1>2, NothingSent DEF AcceptAborted, AcceptNotWatched, AcceptLost
<1>3. ASSUME NEW e \in batch, handle_accept_client_connection_event(e)
      PROVE  FramesAreLegal'
  BY <1>3, NothingSent DEF handle_accept_client_connection_event, sockVars
<1>4. CASE AcceptDone  BY <1>4, NothingSent DEF AcceptDone, sockVars
<1>5. CASE AcceptWithoutDescriptor
  BY <1>5, NothingSent DEF AcceptWithoutDescriptor, sockVars
<1> QED  BY <1>1, <1>2, <1>3, <1>4, <1>5 DEF AcceptNext

LEMMA RemoveSends ==
    ASSUME TypeOK, FramesAreLegal, NEW c \in Conn, remove_connection(c), UNCHANGED wire
    PROVE  FramesAreLegal'
<1>1. conn'[c] = NoConnection /\ \A d \in Conn \ {c} : conn'[d] = conn[d]
  BY DEF remove_connection, TypeOK, ServerTypeOK
<1> QED  BY <1>1, NoOutput, NothingSent

LEMMA HandshakeSends ==
    ASSUME TypeOK, FramesAreLegal, NEW e \in batch, NEW c \in Conn, HandshakeNext(e, c)
    PROVE  FramesAreLegal'
<1>1. CASE HelloIncomplete(e, c)
  BY <1>1, NothingSent DEF HelloIncomplete, sockVars
<1>2. CASE HelloRejected(e, c)  BY <1>2, RemoveSends DEF HelloRejected
<1>3. CASE HelloAccepted(e, c)
  <2> DEFINE named(k) == Named(c, InputAfter(c, k))
  <2>1. PICK k \in ReadSizes(c) :
          /\ InputAfter(c, k) # <<>>
          /\ IF protocol_payload_length_is_legal(server_name)
             THEN conn' = [Queue(named(k), {c}, ServerHello)
                             EXCEPT ![c].state = "SENDING_SERVER_HELLO"]
             ELSE conn' = [named(k) EXCEPT ![c].state = "CONNECTION_ERROR"]
    BY <1>3 DEF HelloAccepted
  <2>2. named(k) \in [Conn -> Connection]
    BY <2>1, InputType, NamedType
  <2>3. \A d \in Conn : named(k)[d].out_buffer = conn[d].out_buffer
    BY DEF Named, TypeOK, ServerTypeOK, Connection
  <2>4. UNCHANGED wire
    BY <1>3 DEF HelloAccepted
  <2>5. ServerHello \in Msg /\ ServerHello.size = server_name
    BY DEF ServerHello, TypeOK, ServerTypeOK, Msg, Message, MessageType, Utterance,
           Topic, Speaker
  <2> HIDE DEF named
  <2>6. CASE protocol_payload_length_is_legal(server_name)
    <3>1. ServerHello \in LegalMsg
      BY <2>5, <2>6 DEF LegalMsg
    <3> DEFINE queued == Queue(named(k), {c}, ServerHello)
    <3>2. \A d \in Conn : queued[d].out_buffer \in Seq(LegalMsg)
      BY <2>2, <2>3, <3>1, QueueLegal DEF FramesAreLegal
    <3>3. queued \in [Conn -> Connection]
      BY <2>2, <2>5, QueueType
    <3>4. conn' = [queued EXCEPT ![c].state = "SENDING_SERVER_HELLO"]
      BY <2>1, <2>6
    <3> HIDE DEF queued
    <3>5. \A d \in Conn : conn'[d].out_buffer = queued[d].out_buffer
      BY <3>3, <3>4 DEF Connection
    <3> QED  BY <2>4, <3>2, <3>5, NothingSent
  <2>7. CASE ~protocol_payload_length_is_legal(server_name)
    <3>1. \A d \in Conn : conn'[d].out_buffer = conn[d].out_buffer
      BY <2>1, <2>2, <2>3, <2>7 DEF Connection
    <3> QED  BY <2>4, <3>1, NothingSent
  <2> QED  BY <2>6, <2>7
<1> QED  BY <1>1, <1>2, <1>3 DEF HandshakeNext

LEMMA ReadSends ==
    ASSUME TypeOK, FramesAreLegal, NEW e \in batch, NEW c \in Conn, ReadNext(e, c)
    PROVE  FramesAreLegal'
<1>1. CASE ReadFails(e, c)  BY <1>1, RemoveSends DEF ReadFails
<1>2. CASE ReadInput(e, c)
  <2>1. UNCHANGED wire /\ \A d \in Conn : conn'[d].out_buffer = conn[d].out_buffer
    BY <1>2 DEF ReadInput, TypeOK, ServerTypeOK, Connection
  <2> QED  BY <2>1, NothingSent
<1> QED  BY <1>1, <1>2 DEF ReadNext

(* A broadcast of a parse round or of the server's user, sent or refused.   *)
LEMMA TellSends ==
    ASSUME FramesAreLegal, UNCHANGED wire,
           NEW cs \in [Conn -> Connection], NEW sender, NEW m \in Msg,
           \A d \in Conn : cs[d].out_buffer = conn[d].out_buffer,
           IF BroadcastFails(cs, sender, m)
           THEN RefuseBroadcast(cs, sender)
           ELSE conn' = Broadcast(cs, sender, m)
    PROVE  FramesAreLegal'
<1>1. CASE BroadcastFails(cs, sender, m)
  BY <1>1, RefusalLegal, NothingSent
<1>2. CASE ~BroadcastFails(cs, sender, m)
  <2>1. \A d \in Conn : conn'[d].out_buffer \in Seq(LegalMsg)
    BY <1>2, BroadcastLegal DEF FramesAreLegal
  <2> QED  BY <2>1, NothingSent
<1> QED  BY <1>1, <1>2

LEMMA ParseSends ==
    ASSUME TypeOK, FramesAreLegal, NEW c \in Conn, ParseNext(c)
    PROVE  FramesAreLegal'
<1>1. CASE ParseNothing(c)  BY <1>1, NothingSent DEF ParseNothing, Parsing
<1>2. CASE ParseRejects(c)  BY <1>2, RemoveSends DEF ParseRejects, Parsing
<1>3. CASE ParseLeave(c)
  <2> DEFINE notice == Notice(c, "disconnected", conn[c].name)
  <2>1. notice \in Msg
    BY NoticeType, ConnType, ConnectionFields DEF Speaker
  <2>2. UNCHANGED wire
    BY <1>3 DEF ParseLeave, Parsing
  <2>3. conn \in [Conn -> Connection]
    BY DEF TypeOK, ServerTypeOK
  <2>4. CASE BroadcastFails(conn, c, notice)
    <3>1. RefuseBroadcast(conn, c)
      BY <1>3, <2>4 DEF ParseLeave
    <3> QED  BY <2>2, <2>3, <3>1, RefusalLegal, NothingSent
  <2>5. CASE ~BroadcastFails(conn, c, notice)
    <3>1. conn' = [Broadcast(conn, c, notice) EXCEPT ![c] = NoConnection]
      BY <1>3, <2>5 DEF ParseLeave
    <3>2. \A d \in Conn : Broadcast(conn, c, notice)[d].out_buffer \in Seq(LegalMsg)
      BY <2>1, <2>3, <2>5, BroadcastLegal DEF FramesAreLegal
    <3>3. Broadcast(conn, c, notice) \in [Conn -> Connection]
      BY <2>1, <2>3, BroadcastType
    <3>4. \A d \in Conn : conn'[d].out_buffer \in Seq(LegalMsg)
      BY <3>1, <3>2, <3>3, NoOutput
    <3> QED  BY <2>2, <3>4, NothingSent
  <2> QED  BY <2>4, <2>5
<1>4. CASE ParseChat(c)
  <2> DEFINE m      == Head(conn[c].in_buffer)
             said   == format_broadcast_message(conn[c].name, m)
             popped == [conn EXCEPT ![c].in_buffer = Tail(@)]
  <2>1. m \in Msg /\ Tail(conn[c].in_buffer) \in Seq(Msg)
    BY <1>4, ConnType, ConnectionFields, HeadTailProperties DEF ParseChat
  <2>2. said \in Msg
    BY <2>1, FormattedType, ConnType, ConnectionFields
  <2>3. popped \in [Conn -> Connection]
    BY <2>1, ConnType, ConnectionFields DEF TypeOK, ServerTypeOK
  <2>4. \A d \in Conn : popped[d].out_buffer = conn[d].out_buffer
    BY DEF TypeOK, ServerTypeOK, Connection
  <2>5. /\ UNCHANGED wire
        /\ IF BroadcastFails(popped, c, said)
           THEN RefuseBroadcast(popped, c)
           ELSE conn' = Broadcast(popped, c, said)
    BY <1>4 DEF ParseChat, sockVars
  <2> HIDE DEF m, said, popped
  <2> QED  BY <2>2, <2>3, <2>4, <2>5, TellSends
<1> QED  BY <1>1, <1>2, <1>3, <1>4 DEF ParseNext

(* What the kernel takes from out_buffer was legal there.                   *)
LEMMA SendsLegal ==
    ASSUME TypeOK, FramesAreLegal, NEW c \in Conn, NEW k \in Int, k <= Pending(c),
           Sends(c, k)
    PROVE  wire' \in [Conn -> Seq(LegalMsg)]
<1> DEFINE out == conn[c].out_buffer
           bw  == conn[c].bytes_written
<1>1. out \in Seq(LegalMsg) /\ bw \in Nat /\ Len(out) \in Nat
  BY ConnType, ConnectionFields, LenProperties DEF FramesAreLegal
<1>2. \A i \in bw + 1 .. bw + k : out[i] \in LegalMsg
  BY <1>1, ElementOfSeq DEF Pending
<1>3. SubSeq(out, bw + 1, bw + k) \in Seq(LegalMsg)
  BY <1>1, <1>2, SubSeqProperties
<1>4. wire' = [wire EXCEPT ![c] = @ \o SubSeq(out, bw + 1, bw + k)]
  BY DEF Sends
<1> QED  BY <1>3, <1>4, ConcatProperties DEF FramesAreLegal

LEMMA WriteSends ==
    ASSUME TypeOK, FramesAreLegal, NEW e \in batch, NEW c \in Conn, WriteNext(e, c)
    PROVE  FramesAreLegal'
<1>1. conn \in [Conn -> Connection]
  BY DEF TypeOK, ServerTypeOK
<1>2. Pending(c) \in Int /\ Pending(c) <= Pending(c)
  BY PendingType
<1>3. Flushed(c) \in [Conn -> Connection]
  BY FlushedType
<1>4. \A d \in Conn : Flushed(c)[d].out_buffer \in Seq(LegalMsg)
  BY <1>1, EmptySeq DEF Flushed, FramesAreLegal, Connection
<1>5. SendAll(e, c) => wire' \in [Conn -> Seq(LegalMsg)]
  BY <1>2, SendsLegal DEF SendAll
<1>6. CASE SendFails(e, c)
  <2>1. UNCHANGED wire /\ \A d \in Conn : conn'[d].out_buffer = conn[d].out_buffer
    BY <1>1, <1>6 DEF SendFails, sockVars, Connection
  <2> QED  BY <2>1, NothingSent
<1>7. CASE SendPartial(e, c)
  <2>1. PICK k \in 0 .. Pending(c) - 1 :
          Sends(c, k) /\ conn' = [conn EXCEPT ![c].bytes_written = @ + k]
    BY <1>7 DEF SendPartial
  <2>2. k \in Int /\ k <= Pending(c)
    BY <1>2, <2>1
  <2>3. wire' \in [Conn -> Seq(LegalMsg)]
    BY <2>1, <2>2, SendsLegal
  <2>4. \A d \in Conn : conn'[d].out_buffer = conn[d].out_buffer
    BY <1>1, <2>1 DEF Connection
  <2> QED  BY <2>3, <2>4 DEF FramesAreLegal
<1>8. CASE SendHelloDone(e, c)
  <2> DEFINE active == [Flushed(c) EXCEPT ![c].state = "ACTIVE"]
             notice == Notice(c, "connected", conn[c].name)
  <2>1. notice \in Msg
    BY NoticeType, ConnType, ConnectionFields DEF Speaker
  <2>2. active \in [Conn -> Connection]
    <3>1. [Flushed(c)[c] EXCEPT !.state = "ACTIVE"] \in Connection
      BY <1>3, ConnectionFields DEF ConnectionState
    <3> QED  BY <1>3, <3>1
  <2>3. \A d \in Conn : active[d].out_buffer \in Seq(LegalMsg)
    BY <1>3, <1>4 DEF Connection
  <2>4. IF BroadcastFails(active, None, notice)
        THEN RefuseBroadcast(active, None)
        ELSE conn' = Broadcast(active, None, notice)
    BY <1>8 DEF SendHelloDone
  <2>5. wire' \in [Conn -> Seq(LegalMsg)]
    BY <1>5, <1>8 DEF SendHelloDone
  <2> HIDE DEF active, notice
  <2>6. \A d \in Conn : conn'[d].out_buffer \in Seq(LegalMsg)
    BY <2>1, <2>2, <2>3, <2>4, RefusalLegal, BroadcastLegal
  <2> QED  BY <2>5, <2>6 DEF FramesAreLegal
<1>9. CASE SendDone(e, c)
  BY <1>4, <1>5, <1>9 DEF SendDone, FramesAreLegal
<1> QED  BY <1>6, <1>7, <1>8, <1>9 DEF WriteNext

LEMMA UserSends ==
    ASSUME TypeOK, FramesAreLegal, NEW e \in batch, StdinNext(e)
    PROVE  FramesAreLegal'
<1>1. UNCHANGED wire
  BY DEF StdinNext, StdinEof, StdinIgnored, StdinChat, StdinQuit, StdinEvent, sockVars
<1>2. conn \in [Conn -> Connection]
  BY DEF TypeOK, ServerTypeOK
<1>3. CASE StdinEof(e)  BY <1>1, <1>3, NothingSent DEF StdinEof
<1>4. CASE StdinIgnored(e)  BY <1>1, <1>4, NothingSent DEF StdinIgnored
<1>5. CASE StdinChat(e)
  <2> DEFINE said(size) == format_broadcast_message(server_name,
                               ChatMessage(Host, "chat", lines + 1, size))
  <2>1. PICK size \in LineSizes :
          IF BroadcastFails(conn, None, said(size))
          THEN RefuseBroadcast(conn, None)
          ELSE conn' = Broadcast(conn, None, said(size))
    BY <1>5 DEF StdinChat
  <2>2. said(size) \in Msg
    <3>1. ChatMessage(Host, "chat", lines + 1, size) \in Msg
      BY ServerAssumption, LineType DEF Topic, TypeOK, ServerTypeOK
    <3> QED  BY <3>1, FormattedType DEF TypeOK, ServerTypeOK
  <2> HIDE DEF said
  <2> QED  BY <1>1, <1>2, <2>1, <2>2, TellSends
<1>6. CASE StdinQuit(e)
  <2> DEFINE told == Broadcast(conn, None, ClosingNotice)
  <2>1. conn' = Broadcast(told, None, CloseMessage)
    BY <1>6 DEF StdinQuit
  <2>2. ClosingNotice \in LegalMsg
    BY ClosingNoticeType DEF LegalMsg, ClosingNotice, ChatMessage, format_broadcast_message,
       FormattedSize, NoticeSize, ServerNameSize, protocol_payload_length_is_legal,
       MAX_PAYLOAD_SIZE
  <2>3. CloseMessage \in LegalMsg
    BY DEF LegalMsg, CloseMessage, Msg, Message, MessageType, Utterance, Topic, Speaker,
           protocol_payload_length_is_legal, MAX_PAYLOAD_SIZE
  <2>4. told \in [Conn -> Connection]
    BY <1>2, ClosingNoticeType, BroadcastType
  <2>5. \A d \in Conn : told[d].out_buffer \in Seq(LegalMsg)
    BY <1>2, <2>2, QueueLegal DEF Broadcast, FramesAreLegal
  <2> HIDE DEF told
  <2>6. \A d \in Conn : conn'[d].out_buffer \in Seq(LegalMsg)
    BY <2>1, <2>3, <2>4, <2>5, QueueLegal DEF Broadcast
  <2> QED  BY <1>1, <2>6, NothingSent
<1> QED  BY <1>3, <1>4, <1>5, <1>6 DEF StdinNext

LEMMA CleanupSends == FramesAreLegal /\ server_cleanup => FramesAreLegal'
  BY NoOutput, NothingSent DEF server_cleanup

LEMMA NetworkSends == FramesAreLegal /\ NetworkNext => FramesAreLegal'
  BY NothingSent DEF NetworkNext, serverVars, RemoteConnect, RemoteNext, RemoteSend,
                     RemoteShutdown, RemoteReset, RemoteRead

LEMMA InitSends == Init => FramesAreLegal
  BY NoOutput, EmptySeq DEF Init, SocketsInit, FramesAreLegal

LEMMA SendStep == TypeOK /\ FramesAreLegal /\ [Next]_vars => FramesAreLegal'
<1> SUFFICES ASSUME TypeOK, FramesAreLegal, [Next]_vars PROVE FramesAreLegal'
  OBVIOUS
<1>1. CASE ServerNext
  BY <1>1, LoopSends, AcceptSends, HandshakeSends, ReadSends, ParseSends, WriteSends,
     UserSends, CleanupSends DEF ServerNext
<1>2. CASE NetworkNext  BY <1>2, NetworkSends
<1>3. CASE UNCHANGED vars
  BY <1>3, NothingSent DEF vars, sockVars, serverVars
<1> QED  BY <1>1, <1>2, <1>3 DEF Next

-----------------------------------------------------------------------------
(* No frame that is sent to a client, or queued for it, is longer than the  *)
(* client's parser accepts, whatever names and lines of whatever length the *)
(* remote programs and the server's user choose (protocol_queue_message and *)
(* the length tests of server.cpp before it).                               *)
THEOREM StreamsAreLegal == Spec => []StreamIsLegal
<1>1. Init => TypeOK /\ FramesAreLegal
  BY InitType, InitSends
<1>2. (TypeOK /\ FramesAreLegal) /\ [Next]_vars => (TypeOK /\ FramesAreLegal)'
  BY TypeStep, SendStep
<1>3. TypeOK /\ FramesAreLegal => StreamIsLegal
  BY FramesGiveStreams
<1> QED  BY <1>1, <1>2, <1>3, PTL DEF Spec

-----------------------------------------------------------------------------
(* What follows the frames w that were sent, for the object k: Stream(c) is *)
(* StreamOf(wire[c], conn[c]).                                              *)
StreamOf(w, k) ==
    w \o SubSeq(k.out_buffer, k.bytes_written + 1, Len(k.out_buffer))

StartsWithHello(s) == \A i \in 1 .. Len(s) : s[i].type = "SERVER_HELLO" <=> i = 1

(* A client that has not introduced itself has been told nothing, one that  *)
(* may hear broadcasts has been told something, the hello.                  *)
Good(w, k) ==
    /\ k.bytes_written <= Len(k.out_buffer)
    /\ StartsWithHello(StreamOf(w, k))
    /\ k.state = "WAITING_FOR_CLIENT_HELLO" => StreamOf(w, k) = <<>>
    /\ k.state \in {"SENDING_SERVER_HELLO", "ACTIVE"} => StreamOf(w, k) # <<>>

Greeting ==
    /\ \A c \in Conn : Good(wire[c], conn[c])
    /\ \A c \in Conn : tcp[c] \in {"none", "queued"} => wire[c] = <<>>

LEMMA StreamType ==
    ASSUME NEW w \in Seq(Msg), NEW k \in Connection
    PROVE  /\ StreamOf(w, k) \in Seq(Msg)
           /\ SubSeq(k.out_buffer, k.bytes_written + 1, Len(k.out_buffer)) \in Seq(Msg)
           /\ Len(k.out_buffer) \in Nat /\ k.bytes_written \in Nat
           /\ k.out_buffer \in Seq(Msg)
<1>1. /\ Len(k.out_buffer) \in Nat /\ k.bytes_written \in Nat
      /\ k.out_buffer \in Seq(Msg)
  BY ConnectionFields, LenProperties
<1>2. \A i \in k.bytes_written + 1 .. Len(k.out_buffer) : k.out_buffer[i] \in Msg
  BY <1>1, ElementOfSeq
<1>3. SubSeq(k.out_buffer, k.bytes_written + 1, Len(k.out_buffer)) \in Seq(Msg)
  <2>1. k.bytes_written + 1 \in Int /\ Len(k.out_buffer) \in Int  BY <1>1
  <2> QED  BY <1>2, <2>1, SubSeqProperties
<1> QED  BY <1>1, <1>3, ConcatProperties DEF StreamOf

(* Queueing appends to the stream.                                          *)
LEMMA StreamGrows ==
    ASSUME NEW w \in Seq(Msg), NEW k \in Connection, NEW m \in Msg, NEW k2,
           k.bytes_written <= Len(k.out_buffer),
           k2.out_buffer = Append(k.out_buffer, m), k2.bytes_written = k.bytes_written
    PROVE  StreamOf(w, k2) = Append(StreamOf(w, k), m)
<1>1. PICK q \in Seq(Msg) : q = k.out_buffer  BY StreamType
<1>2. PICK b \in 0 .. Len(q) : b = k.bytes_written  BY <1>1, StreamType, SMTT(30)
<1>3. StreamOf(w, k2) = w \o Left(Append(q, m), b) /\ StreamOf(w, k) = w \o Left(q, b)
  BY <1>1, <1>2 DEF StreamOf, Left
<1>4. PICK r \in Seq(Msg) : r = Left(q, b)  BY LeftShape
<1>5. Left(Append(q, m), b) = Append(r, m)  BY <1>4, LeftGrows
<1>6. <<m>> \in Seq(Msg)  OBVIOUS
<1>7. w \o (r \o <<m>>) = (w \o r) \o <<m>>  BY <1>6, ConcatAssociative
<1>8. Append(r, m) = r \o <<m>>  BY AppendIsConcat
<1>9. w \o r \in Seq(Msg)  BY ConcatProperties
<1>10. Append(w \o r, m) = (w \o r) \o <<m>>  BY <1>9, AppendIsConcat
<1> QED  BY <1>3, <1>4, <1>5, <1>7, <1>8, <1>10

(* Sending moves the border between what was sent and what is queued.       *)
LEMMA StreamStays ==
    ASSUME NEW w \in Seq(Msg), NEW k \in Connection, NEW k2,
           NEW j \in Nat, k.bytes_written + j <= Len(k.out_buffer),
           k2.out_buffer = k.out_buffer /\ k2.bytes_written = k.bytes_written + j
    PROVE  StreamOf(w \o SubSeq(k.out_buffer, k.bytes_written + 1, k.bytes_written + j), k2)
             = StreamOf(w, k)
<1>1. PICK q \in Seq(Msg) : q = k.out_buffer  BY StreamType
<1>2. Len(q) \in Nat  BY LenProperties
<1>3. PICK b \in Nat : b = k.bytes_written /\ b + j <= Len(q)  BY <1>1, StreamType
<1> DEFINE x == SubSeq(q, b + 1, b + j)
           y == SubSeq(q, b + j + 1, Len(q))
<1>4. x \o y = SubSeq(q, b + 1, Len(q))
  <2>1. PICK l \in 1 .. Len(q) + 1 : l = b + 1  BY <1>2, <1>3
  <2>2. PICK k1 \in l - 1 .. Len(q) : k1 = b + j  BY <1>2, <1>3, <2>1
  <2>3. Len(q) \in k1 .. Len(q)  BY <1>2, <2>2
  <2>4. SubSeq(q, l, k1) \o SubSeq(q, k1 + 1, Len(q)) = SubSeq(q, l, Len(q))
    BY <2>3, ConcatAdjacentSubSeq
  <2> QED  BY <2>1, <2>2, <2>4
<1>5. x \in Seq(Msg) /\ y \in Seq(Msg)
  <2>1. \A i \in 1 .. Len(q) : q[i] \in Msg  BY ElementOfSeq
  <2>2. /\ b + 1 \in Int /\ b + j \in Int /\ b + j + 1 \in Int /\ Len(q) \in Int
        /\ \A i \in b + 1 .. b + j : q[i] \in Msg
        /\ \A i \in b + j + 1 .. Len(q) : q[i] \in Msg
    BY <1>2, <1>3, <2>1
  <2> QED  BY <2>2, SubSeqProperties
<1> HIDE DEF x, y
<1>6. (w \o x) \o y = w \o (x \o y)  BY <1>5, ConcatAssociative
<1>7. StreamOf(w \o x, k2) = (w \o x) \o y  BY <1>1, <1>3 DEF StreamOf, y
<1>8. StreamOf(w, k) = w \o (x \o y)  BY <1>1, <1>3, <1>4 DEF StreamOf
<1> QED  BY <1>1, <1>3, <1>6, <1>7, <1>8 DEF x

(* An object with no output.                                                *)
LEMMA StreamSent ==
    ASSUME NEW w \in Seq(Msg), NEW k, k.out_buffer = <<>>, k.bytes_written = 0
    PROVE  StreamOf(w, k) = w
<1>1. Len(<<>>) = 0 /\ SubSeq(<<>>, 0 + 1, 0) = <<>>  BY SubSeqEmpty, EmptySeq
<1>2. w \o <<>> = w  BY ConcatEmptySeq
<1> QED  BY <1>1, <1>2 DEF StreamOf

LEMMA HelloPrefix ==
    ASSUME NEW s \in Seq(Msg), NEW t \in Seq(Msg), StartsWithHello(s \o t)
    PROVE  StartsWithHello(s)
<1>1. /\ Len(s) \in Nat /\ Len(t) \in Nat /\ Len(s \o t) = Len(s) + Len(t)
      /\ \A i \in 1 .. Len(s) + Len(t) : (s \o t)[i] = IF i <= Len(s) THEN s[i] ELSE t[i - Len(s)]
  BY ConcatProperties, LenProperties
<1>2. \A i \in 1 .. Len(s) : i \in 1 .. Len(s) + Len(t) /\ (s \o t)[i] = s[i]
  BY <1>1
<1> QED  BY <1>1, <1>2 DEF StartsWithHello

(* The hello goes to who has heard nothing, the rest to who has heard it.   *)
LEMMA HelloAppend ==
    ASSUME NEW s \in Seq(Msg), StartsWithHello(s), NEW m \in Msg,
           m.type = "SERVER_HELLO" <=> s = <<>>
    PROVE  StartsWithHello(Append(s, m))
<1> DEFINE a == Append(s, m)
<1>1. /\ Len(s) \in Nat /\ Len(a) = Len(s) + 1
      /\ \A i \in 1 .. Len(s) : a[i] = s[i]
      /\ a[Len(s) + 1] = m
  BY AppendProperties, LenProperties
<1>2. s = <<>> <=> Len(s) = 0  BY EmptySeq
<1> HIDE DEF a
<1>3. ASSUME NEW i \in 1 .. Len(a) PROVE a[i].type = "SERVER_HELLO" <=> i = 1
  <2>1. CASE i = Len(s) + 1  BY <1>1, <1>2, <2>1
  <2>2. CASE i # Len(s) + 1
    <3>1. i \in 1 .. Len(s)  BY <1>1, <2>2
    <3> QED  BY <1>1, <3>1 DEF StartsWithHello
  <2> QED  BY <2>1, <2>2
<1> QED  BY <1>3 DEF StartsWithHello, a

-----------------------------------------------------------------------------
(* What a step may do to one connection.                                    *)

(* Neither the output nor what the state allows to be told changes.         *)
LEMMA GoodKept ==
    ASSUME NEW w, NEW k, NEW k2, Good(w, k),
           k2.out_buffer = k.out_buffer, k2.bytes_written = k.bytes_written,
           k2.state = "WAITING_FOR_CLIENT_HELLO" => k.state = "WAITING_FOR_CLIENT_HELLO",
           k2.state \in {"SENDING_SERVER_HELLO", "ACTIVE"} =>
             k.state \in {"SENDING_SERVER_HELLO", "ACTIVE"}
    PROVE  Good(w, k2)
<1>1. StreamOf(w, k2) = StreamOf(w, k)  BY DEF StreamOf
<1> QED  BY <1>1 DEF Good

LEMMA GoodQueued ==
    ASSUME NEW w \in Seq(Msg), NEW k \in Connection, NEW m \in Msg, NEW k2 \in Connection,
           Good(w, k),
           k2.out_buffer = Append(k.out_buffer, m), k2.bytes_written = k.bytes_written,
           k2.state # "WAITING_FOR_CLIENT_HELLO",
           m.type = "SERVER_HELLO" <=> StreamOf(w, k) = <<>>
    PROVE  Good(w, k2)
<1>1. StreamOf(w, k2) = Append(StreamOf(w, k), m)  BY StreamGrows DEF Good
<1>2. StreamOf(w, k) \in Seq(Msg)  BY StreamType
<1>3. StreamOf(w, k2) # <<>>  BY <1>1, <1>2, AppendProperties
<1>4. StartsWithHello(StreamOf(w, k2))
  BY <1>1, <1>2, HelloAppend DEF Good
<1>5. k2.bytes_written <= Len(k2.out_buffer)
  <2>1. PICK q \in Seq(Msg) : q = k.out_buffer  BY StreamType
  <2>2. PICK b \in Nat : b = k.bytes_written  BY StreamType
  <2>3. Len(q) \in Nat /\ Len(Append(q, m)) = Len(q) + 1
    BY LenProperties, AppendProperties
  <2>4. b <= Len(q)  BY <2>1, <2>2 DEF Good
  <2>5. b <= Len(Append(q, m))  BY <2>3, <2>4
  <2> QED  BY <2>1, <2>2, <2>5
<1> QED  BY <1>3, <1>4, <1>5 DEF Good

(* The output is gone: deleted, or sent.                                    *)
LEMMA GoodEmpty ==
    ASSUME NEW w \in Seq(Msg), NEW k2, k2.out_buffer = <<>>, k2.bytes_written = 0,
           StartsWithHello(w),
           k2.state = "WAITING_FOR_CLIENT_HELLO" => w = <<>>,
           k2.state \in {"SENDING_SERVER_HELLO", "ACTIVE"} => w # <<>>
    PROVE  Good(w, k2)
<1>1. StreamOf(w, k2) = w  BY StreamSent
<1>2. Len(<<>>) = 0  BY EmptySeq
<1> QED  BY <1>1, <1>2 DEF Good

LEMMA GoodDeleted ==
    ASSUME NEW w \in Seq(Msg), NEW k \in Connection, Good(w, k)
    PROVE  Good(w, NoConnection)
<1>1. StartsWithHello(w)
  BY StreamType, HelloPrefix DEF Good, StreamOf
<1> QED  BY <1>1, GoodEmpty DEF NoConnection

LEMMA GoodSent ==
    ASSUME NEW w \in Seq(Msg), NEW k \in Connection, NEW k2, Good(w, k),
           NEW j \in Nat, k.bytes_written + j <= Len(k.out_buffer),
           k2.out_buffer = k.out_buffer, k2.bytes_written = k.bytes_written + j,
           k2.state = k.state
    PROVE  Good(w \o SubSeq(k.out_buffer, k.bytes_written + 1, k.bytes_written + j), k2)
  BY StreamStays DEF Good

LEMMA GoodFlushed ==
    ASSUME NEW w \in Seq(Msg), NEW k \in Connection, NEW k2, Good(w, k),
           k.state \in {"SENDING_SERVER_HELLO", "ACTIVE"},
           k2.out_buffer = <<>>, k2.bytes_written = 0,
           k2.state # "WAITING_FOR_CLIENT_HELLO",
           NEW j, j = Len(k.out_buffer) - k.bytes_written
    PROVE  Good(w \o SubSeq(k.out_buffer, k.bytes_written + 1, k.bytes_written + j), k2)
<1>1. Len(k.out_buffer) \in Nat /\ k.bytes_written \in Nat  BY StreamType
<1>2. k.bytes_written + j = Len(k.out_buffer)  BY <1>1
<1>3. StreamOf(w, k) \in Seq(Msg) /\ StreamOf(w, k) # <<>> /\ StartsWithHello(StreamOf(w, k))
  BY StreamType DEF Good
<1>4. Good(StreamOf(w, k), k2)  BY <1>3, GoodEmpty
<1> QED  BY <1>2, <1>4 DEF StreamOf

(* Queueing for active connections.                                         *)
LEMMA QueueGood ==
    ASSUME NEW cs \in [Conn -> Connection], NEW to, NEW m \in Msg, NEW d \in Conn,
           NEW w \in Seq(Msg), Good(w, cs[d]),
           m.type # "SERVER_HELLO", d \in to => cs[d].state = "ACTIVE"
    PROVE  Good(w, Queue(cs, to, m)[d])
<1>1. CASE d \in to
  <2> DEFINE k == cs[d]
             k2 == Queue(cs, to, m)[d]
  <2>1. k \in Connection /\ k2 \in Connection  BY QueueType
  <2>2. /\ k2.out_buffer = Append(k.out_buffer, m)
        /\ k2.bytes_written = k.bytes_written /\ k2.state = k.state
    BY <1>1, <2>1 DEF Queue, Connection
  <2>3. StreamOf(w, k) # <<>>  BY <1>1 DEF Good
  <2> HIDE DEF k2
  <2>4. Good(w, k2)  BY <1>1, <2>1, <2>2, <2>3, GoodQueued
  <2> QED  BY <2>4 DEF k2
<1>2. CASE d \notin to  BY <1>2 DEF Queue
<1> QED  BY <1>1, <1>2

LEMMA BroadcastGood ==
    ASSUME NEW cs \in [Conn -> Connection], NEW sender, NEW m \in Msg, NEW d \in Conn,
           NEW w \in Seq(Msg), Good(w, cs[d]), m.type # "SERVER_HELLO"
    PROVE  Good(w, Broadcast(cs, sender, m)[d])
  BY QueueGood DEF Broadcast, Recipients

LEMMA RefusalGood ==
    ASSUME NEW cs \in [Conn -> Connection], NEW sender, NEW d \in Conn,
           NEW w, Good(w, cs[d]), RefuseBroadcast(cs, sender)
    PROVE  Good(w, conn'[d])
<1>1. PICK c \in Conn : conn' = [cs EXCEPT ![c].state = "CONNECTION_ERROR"]
  BY DEF RefuseBroadcast, Recipients
<1>2. /\ conn'[d].out_buffer = cs[d].out_buffer
      /\ conn'[d].bytes_written = cs[d].bytes_written
      /\ conn'[d].state \in {"CONNECTION_ERROR", cs[d].state}
  BY <1>1 DEF Connection
<1> QED  BY <1>2, GoodKept

-----------------------------------------------------------------------------
(* The steps.                                                               *)

LEMMA Told ==
    ASSUME TypeOK, NEW c \in Conn
    PROVE  wire[c] \in Seq(Msg) /\ conn[c] \in Connection /\ conn \in [Conn -> Connection]
  BY DEF TypeOK, SocketsTypeOK, ServerTypeOK

(* A step that sends nothing and opens no connection.                       *)
LEMMA GreetingKept ==
    ASSUME Greeting, UNCHANGED wire,
           \A d \in Conn : tcp'[d] \in {"none", "queued"} => tcp[d] \in {"none", "queued"},
           \A d \in Conn : conn'[d] = conn[d] \/ Good(wire[d], conn'[d])
    PROVE  Greeting'
  BY DEF Greeting

LEMMA Closing ==
    ASSUME NEW cs, CloseSockets(cs)
    PROVE  \A d \in Conn : tcp'[d] \in {"none", "queued"} => tcp[d] \in {"none", "queued"}
  BY DEF CloseSockets

LEMMA LoopGreets ==
    ASSUME Greeting, epoll_wait \/ (\E e \in batch : SkipEvent(e)) \/ EndOfBatch
    PROVE  Greeting'
  BY GreetingKept DEF epoll_wait, SkipEvent, EndOfBatch, sockVars

LEMMA AcceptGreets ==
    ASSUME TypeOK, Greeting, AcceptNext
    PROVE  Greeting'
<1>1. ASSUME NEW c \in Conn, AcceptOne(c) PROVE Greeting'
  <2>1. PICK f \in FreeFds : conn' = [conn EXCEPT ![c] = NewConnection(f)]
    BY <1>1 DEF AcceptOne
  <2>2. /\ conn'[c].out_buffer = <<>> /\ conn'[c].bytes_written = 0
        /\ conn'[c].state = "WAITING_FOR_CLIENT_HELLO"
    BY <2>1, Told DEF NewConnection, NoConnection
  <2>3. \A d \in Conn \ {c} : conn'[d] = conn[d]  BY <2>1, Told
  <2>4. wire[c] = <<>> /\ <<>> \in Seq(Msg) /\ StartsWithHello(<<>>)
    <3>1. wire[c] = <<>>  BY <1>1 DEF AcceptOne, Greeting
    <3>2. Len(<<>>) = 0 /\ <<>> \in Seq(Msg)  BY EmptySeq
    <3> QED  BY <3>1, <3>2 DEF StartsWithHello
  <2>5. Good(wire[c], conn'[c])  BY <2>2, <2>4, GoodEmpty
  <2>6. UNCHANGED wire /\ tcp' = [tcp EXCEPT ![c] = "accepted"]
    BY <1>1 DEF AcceptOne
  <2>7. \A d \in Conn : tcp'[d] \in {"none", "queued"} => tcp[d] \in {"none", "queued"}
    BY <2>6 DEF TypeOK, SocketsTypeOK
  <2> QED  BY <2>3, <2>5, <2>6, <2>7, GreetingKept
<1>2. ASSUME NEW c \in Conn, AcceptAborted(c) \/ AcceptNotWatched(c)
      PROVE  Greeting'
  BY <1>2, Closing, GreetingKept DEF AcceptAborted, AcceptNotWatched, AcceptLost
<1>3. ASSUME NEW e \in batch, handle_accept_client_connection_event(e)
      PROVE  Greeting'
  BY <1>3, GreetingKept DEF handle_accept_client_connection_event, sockVars
<1>4. CASE AcceptDone  BY <1>4, GreetingKept DEF AcceptDone, sockVars
<1>5. CASE AcceptWithoutDescriptor
  BY <1>5, GreetingKept DEF AcceptWithoutDescriptor, sockVars
<1> QED  BY <1>1, <1>2, <1>3, <1>4, <1>5 DEF AcceptNext

LEMMA RemoveGreets ==
    ASSUME TypeOK, Greeting, NEW c \in Conn, remove_connection(c), UNCHANGED wire
    PROVE  Greeting'
<1>1. conn'[c] = NoConnection /\ \A d \in Conn \ {c} : conn'[d] = conn[d]
  BY Told DEF remove_connection
<1>2. Good(wire[c], NoConnection)  BY Told, GoodDeleted DEF Greeting
<1>3. \A d \in Conn : tcp'[d] \in {"none", "queued"} => tcp[d] \in {"none", "queued"}
  BY Closing DEF remove_connection
<1> QED  BY <1>1, <1>2, <1>3, GreetingKept

LEMMA HandshakeGreets ==
    ASSUME TypeOK, Greeting, NEW e \in batch, NEW c \in Conn, HandshakeNext(e, c)
    PROVE  Greeting'
<1>1. CASE HelloIncomplete(e, c)
  BY <1>1, GreetingKept DEF HelloIncomplete, sockVars
<1>2. CASE HelloRejected(e, c)  BY <1>2, RemoveGreets DEF HelloRejected
<1>3. CASE HelloAccepted(e, c)
  <2> DEFINE named(i) == Named(c, InputAfter(c, i))
  <2>1. PICK i \in ReadSizes(c) :
          /\ InputAfter(c, i) # <<>>
          /\ IF protocol_payload_length_is_legal(server_name)
             THEN conn' = [Queue(named(i), {c}, ServerHello)
                             EXCEPT ![c].state = "SENDING_SERVER_HELLO"]
             ELSE conn' = [named(i) EXCEPT ![c].state = "CONNECTION_ERROR"]
    BY <1>3 DEF HelloAccepted
  <2>2. named(i) \in [Conn -> Connection]  BY <2>1, InputType, NamedType
  <2>3. \A d \in Conn : /\ named(i)[d].out_buffer = conn[d].out_buffer
                        /\ named(i)[d].bytes_written = conn[d].bytes_written
                        /\ d # c => named(i)[d] = conn[d]
    BY Told DEF Named, Connection
  <2>4. UNCHANGED <<wire, tcp>>  BY <1>3 DEF HelloAccepted
  <2>5. ServerHello \in Msg /\ ServerHello.type = "SERVER_HELLO"
    BY DEF ServerHello, TypeOK, ServerTypeOK, Msg, Message, MessageType, Utterance,
           Topic, Speaker
  <2>6. Good(wire[c], conn[c]) /\ StreamOf(wire[c], conn[c]) = <<>>
    BY <1>3 DEF HelloAccepted, HelloEvent, event_is_receive_client_hello, Greeting, Good
  <2> HIDE DEF named
  <2>7. CASE protocol_payload_length_is_legal(server_name)
    <3> DEFINE queued == Queue(named(i), {c}, ServerHello)
    <3>1. queued \in [Conn -> Connection]  BY <2>2, <2>5, QueueType
    <3>2. conn' = [queued EXCEPT ![c].state = "SENDING_SERVER_HELLO"]
      BY <2>1, <2>7
    <3>3. \A d \in Conn \ {c} : queued[d] = conn[d]  BY <2>3 DEF Queue
    <3>4. /\ queued[c].out_buffer = Append(conn[c].out_buffer, ServerHello)
          /\ queued[c].bytes_written = conn[c].bytes_written
      BY <2>2, <2>3 DEF Queue, Connection
    <3> HIDE DEF queued
    <3>5. \A d \in Conn \ {c} : conn'[d] = conn[d]  BY <3>1, <3>2, <3>3
    <3>6. /\ conn'[c].out_buffer = Append(conn[c].out_buffer, ServerHello)
          /\ conn'[c].bytes_written = conn[c].bytes_written
          /\ conn'[c].state = "SENDING_SERVER_HELLO"
      BY <3>1, <3>2, <3>4 DEF Connection
    <3>7. conn'[c] \in Connection
      <4>1. queued[c] \in Connection /\ conn'[c] = [queued[c] EXCEPT !.state = "SENDING_SERVER_HELLO"]
        BY <3>1, <3>2
      <4> QED  BY <4>1, ConnectionFields DEF ConnectionState
    <3>8. Good(wire[c], conn'[c])
      BY <2>5, <2>6, <3>6, <3>7, Told, GoodQueued
    <3> QED  BY <2>4, <3>5, <3>8, GreetingKept
  <2>8. CASE ~protocol_payload_length_is_legal(server_name)
    <3>1. /\ conn'[c].out_buffer = conn[c].out_buffer
          /\ conn'[c].bytes_written = conn[c].bytes_written
          /\ conn'[c].state = "CONNECTION_ERROR"
          /\ \A d \in Conn \ {c} : conn'[d] = conn[d]
      BY <2>1, <2>2, <2>3, <2>8 DEF Connection
    <3>2. Good(wire[c], conn'[c])  BY <2>6, <3>1, GoodKept
    <3> QED  BY <2>4, <3>1, <3>2, GreetingKept
  <2> QED  BY <2>7, <2>8
<1> QED  BY <1>1, <1>2, <1>3 DEF HandshakeNext

LEMMA ReadGreets ==
    ASSUME TypeOK, Greeting, NEW e \in batch, NEW c \in Conn, ReadNext(e, c)
    PROVE  Greeting'
<1>1. CASE ReadFails(e, c)  BY <1>1, RemoveGreets DEF ReadFails
<1>2. CASE ReadInput(e, c)
  <2>1. UNCHANGED <<wire, tcp>>  BY <1>2 DEF ReadInput
  <2>2. \A d \in Conn : /\ conn'[d].out_buffer = conn[d].out_buffer
                        /\ conn'[d].bytes_written = conn[d].bytes_written
                        /\ conn'[d].state \in {conn[d].state, "CLOSED"}
    BY <1>2, Told DEF ReadInput, Connection
  <2>3. \A d \in Conn : Good(wire[d], conn'[d])
    BY <2>2, GoodKept DEF Greeting
  <2> QED  BY <2>1, <2>3, GreetingKept
<1> QED  BY <1>1, <1>2 DEF ReadNext

(* A broadcast of a handler, sent or refused.                               *)
LEMMA TellGood ==
    ASSUME NEW cs \in [Conn -> Connection], NEW sender, NEW m \in Msg,
           m.type # "SERVER_HELLO", NEW d \in Conn, NEW w \in Seq(Msg), Good(w, cs[d]),
           IF BroadcastFails(cs, sender, m)
           THEN RefuseBroadcast(cs, sender)
           ELSE conn' = Broadcast(cs, sender, m)
    PROVE  Good(w, conn'[d])
<1>1. CASE BroadcastFails(cs, sender, m)  BY <1>1, RefusalGood
<1>2. CASE ~BroadcastFails(cs, sender, m)  BY <1>2, BroadcastGood
<1> QED  BY <1>1, <1>2

LEMMA BroadcastKind ==
    /\ \A n, m : format_broadcast_message(n, m).type = "BROADCAST"
    /\ \A c, what, n : Notice(c, what, n).type = "BROADCAST"
  BY DEF format_broadcast_message, Notice

LEMMA ParseGreets ==
    ASSUME TypeOK, Greeting, NEW c \in Conn, ParseNext(c)
    PROVE  Greeting'
<1>1. CASE ParseNothing(c)
  BY <1>1, GreetingKept DEF ParseNothing, Parsing
<1>2. CASE ParseRejects(c)  BY <1>2, RemoveGreets DEF ParseRejects, Parsing
<1>3. CASE ParseLeave(c)
  <2> DEFINE notice == Notice(c, "disconnected", conn[c].name)
  <2>1. notice \in Msg /\ notice.type # "SERVER_HELLO"
    BY NoticeType, ConnType, ConnectionFields, BroadcastKind DEF Speaker
  <2>2. UNCHANGED wire  BY <1>3 DEF ParseLeave, Parsing
  <2>3. conn \in [Conn -> Connection]  BY Told
  <2>4. \A d \in Conn : wire[d] \in Seq(Msg) /\ Good(wire[d], conn[d])
    BY Told DEF Greeting
  <2>5. CASE BroadcastFails(conn, c, notice)
    <3>1. RefuseBroadcast(conn, c) /\ UNCHANGED tcp
      BY <1>3, <2>5 DEF ParseLeave
    <3>2. \A d \in Conn : Good(wire[d], conn'[d])
      BY <2>3, <2>4, <3>1, RefusalGood
    <3> QED  BY <2>2, <3>1, <3>2, GreetingKept
  <2>6. CASE ~BroadcastFails(conn, c, notice)
    <3> DEFINE told == Broadcast(conn, c, notice)
    <3>1. conn' = [told EXCEPT ![c] = NoConnection] /\ CloseSockets({c})
      BY <1>3, <2>6 DEF ParseLeave
    <3>2. told \in [Conn -> Connection]  BY <2>1, <2>3, BroadcastType
    <3>3. \A d \in Conn : Good(wire[d], told[d])
      BY <2>1, <2>3, <2>4, BroadcastGood
    <3> HIDE DEF told
    <3>4. Good(wire[c], NoConnection)
      BY <2>3, <2>4, GoodDeleted
    <3>5. \A d \in Conn : Good(wire[d], conn'[d])
      BY <3>1, <3>2, <3>3, <3>4
    <3> QED  BY <2>2, <3>1, <3>5, Closing, GreetingKept
  <2> QED  BY <2>5, <2>6
<1>4. CASE ParseChat(c)
  <2> DEFINE m      == Head(conn[c].in_buffer)
             said   == format_broadcast_message(conn[c].name, m)
             popped == [conn EXCEPT ![c].in_buffer = Tail(@)]
  <2>1. m \in Msg /\ Tail(conn[c].in_buffer) \in Seq(Msg)
    BY <1>4, ConnType, ConnectionFields, HeadTailProperties DEF ParseChat
  <2>2. said \in Msg /\ said.type # "SERVER_HELLO"
    BY <2>1, FormattedType, ConnType, ConnectionFields, BroadcastKind
  <2>3. popped \in [Conn -> Connection]
    BY <2>1, ConnType, ConnectionFields DEF TypeOK, ServerTypeOK
  <2>4. \A d \in Conn : /\ popped[d].out_buffer = conn[d].out_buffer
                        /\ popped[d].bytes_written = conn[d].bytes_written
                        /\ popped[d].state = conn[d].state
    BY Told DEF Connection
  <2>5. /\ UNCHANGED <<wire, tcp>>
        /\ IF BroadcastFails(popped, c, said)
           THEN RefuseBroadcast(popped, c)
           ELSE conn' = Broadcast(popped, c, said)
    BY <1>4 DEF ParseChat, sockVars
  <2> HIDE DEF m, said, popped
  <2>6. \A d \in Conn : wire[d] \in Seq(Msg) /\ Good(wire[d], popped[d])
    BY <2>4, Told, GoodKept DEF Greeting
  <2>7. \A d \in Conn : Good(wire[d], conn'[d])
    BY <2>2, <2>3, <2>5, <2>6, TellGood
  <2> QED  BY <2>5, <2>7, GreetingKept
<1> QED  BY <1>1, <1>2, <1>3, <1>4 DEF ParseNext

(* A step that sends, on one accepted connection.                           *)
LEMMA GreetingSent ==
    ASSUME Greeting, NEW c \in Conn, tcp[c] \notin {"none", "queued"}, UNCHANGED tcp,
           \A d \in Conn \ {c} : wire'[d] = wire[d],
           \A d \in Conn : Good(wire'[d], conn'[d])
    PROVE  Greeting'
  BY DEF Greeting

(* What send() takes moves to the wire of c.                                *)
LEMMA SendsShape ==
    ASSUME TypeOK, NEW c \in Conn, NEW j, Sends(c, j)
    PROVE  /\ wire'[c] = wire[c] \o SubSeq(conn[c].out_buffer, conn[c].bytes_written + 1,
                                           conn[c].bytes_written + j)
           /\ \A d \in Conn \ {c} : wire'[d] = wire[d]
           /\ UNCHANGED tcp
  BY DEF Sends, TypeOK, SocketsTypeOK

LEMMA WriteGreets ==
    ASSUME TypeOK, TypeOK', EventDiscipline, Greeting,
           NEW e \in batch, NEW c \in Conn, WriteNext(e, c)
    PROVE  Greeting'
<1>1. conn[c].state \in {"SENDING_SERVER_HELLO", "ACTIVE"}
  BY DEF WriteNext, SendFails, SendPartial, SendHelloDone, SendDone, SendAll, SendEvent,
         event_is_send_network_package
<1>2. tcp[c] \notin {"none", "queued"}
  BY <1>1 DEF EventDiscipline, LiveDescriptors, connections
<1>3. \A d \in Conn : /\ wire[d] \in Seq(Msg) /\ conn[d] \in Connection
                      /\ wire'[d] \in Seq(Msg) /\ Good(wire[d], conn[d])
  BY DEF TypeOK, SocketsTypeOK, ServerTypeOK, Greeting
<1>4. conn \in [Conn -> Connection] /\ Flushed(c) \in [Conn -> Connection]
  BY Told, FlushedType
<1>5. /\ Flushed(c)[c].out_buffer = <<>> /\ Flushed(c)[c].bytes_written = 0
      /\ Flushed(c)[c].state = conn[c].state
      /\ \A d \in Conn \ {c} : Flushed(c)[d] = conn[d]
  BY <1>4 DEF Flushed, Connection
<1>6. CASE SendFails(e, c)
  <2>1. /\ UNCHANGED <<wire, tcp>>
        /\ \A d \in Conn : /\ conn'[d].out_buffer = conn[d].out_buffer
                            /\ conn'[d].bytes_written = conn[d].bytes_written
                            /\ conn'[d].state \in {conn[d].state, "CONNECTION_ERROR"}
    BY <1>4, <1>6 DEF SendFails, sockVars, Connection
  <2>2. \A d \in Conn : Good(wire[d], conn'[d])  BY <1>3, <2>1, GoodKept
  <2> QED  BY <2>1, <2>2, GreetingKept
<1>7. CASE SendPartial(e, c)
  <2>1. PICK j \in 0 .. Pending(c) - 1 :
          Sends(c, j) /\ conn' = [conn EXCEPT ![c].bytes_written = @ + j]
    BY <1>7 DEF SendPartial
  <2>2. /\ conn'[c].out_buffer = conn[c].out_buffer
        /\ conn'[c].bytes_written = conn[c].bytes_written + j
        /\ conn'[c].state = conn[c].state
        /\ \A d \in Conn \ {c} : conn'[d] = conn[d]
    BY <1>4, <2>1 DEF Connection
  <2>3. j \in Nat /\ conn[c].bytes_written + j <= Len(conn[c].out_buffer)
    <3>1. PICK n \in Nat : n = Len(conn[c].out_buffer)  BY <1>3, StreamType
    <3>2. PICK b \in Nat : b = conn[c].bytes_written  BY <1>3, StreamType
    <3>3. j \in 0 .. n - b - 1  BY <2>1, <3>1, <3>2 DEF Pending
    <3> QED  BY <3>1, <3>2, <3>3
  <2>4. Good(wire'[c], conn'[c])
    <3>1. Good(wire[c] \o SubSeq(conn[c].out_buffer, conn[c].bytes_written + 1,
                                 conn[c].bytes_written + j), conn'[c])
      BY <1>3, <2>2, <2>3, GoodSent
    <3> QED  BY <2>1, <3>1, SendsShape
  <2>5. \A d \in Conn : Good(wire'[d], conn'[d])
    BY <1>3, <2>1, <2>2, <2>4, SendsShape
  <2> QED  BY <1>2, <2>1, <2>5, SendsShape, GreetingSent
<1>8. ASSUME NEW k, k.out_buffer = <<>>, k.bytes_written = 0,
             k.state # "WAITING_FOR_CLIENT_HELLO", SendAll(e, c)
      PROVE  /\ Good(wire'[c], k)
             /\ \A d \in Conn \ {c} : wire'[d] = wire[d]
             /\ UNCHANGED tcp
  <2>1. Sends(c, Pending(c))  BY <1>8 DEF SendAll
  <2>2. Good(wire[c] \o SubSeq(conn[c].out_buffer, conn[c].bytes_written + 1,
                               conn[c].bytes_written + Pending(c)), k)
    BY <1>1, <1>3, <1>8, GoodFlushed DEF Pending
  <2> QED  BY <2>1, <2>2, SendsShape
<1>9. CASE SendHelloDone(e, c)
  <2> DEFINE active == [Flushed(c) EXCEPT ![c].state = "ACTIVE"]
             notice == Notice(c, "connected", conn[c].name)
  <2>1. notice \in Msg /\ notice.type # "SERVER_HELLO"
    BY NoticeType, ConnType, ConnectionFields, BroadcastKind DEF Speaker
  <2>2. active \in [Conn -> Connection]
    <3>1. [Flushed(c)[c] EXCEPT !.state = "ACTIVE"] \in Connection
      BY <1>4, ConnectionFields DEF ConnectionState
    <3> QED  BY <1>4, <3>1
  <2>3. /\ active[c].out_buffer = <<>> /\ active[c].bytes_written = 0
        /\ active[c].state = "ACTIVE"
        /\ \A d \in Conn \ {c} : active[d] = conn[d]
    BY <1>4, <1>5 DEF Connection
  <2>4. IF BroadcastFails(active, None, notice)
        THEN RefuseBroadcast(active, None)
        ELSE conn' = Broadcast(active, None, notice)
    BY <1>9 DEF SendHelloDone
  <2> HIDE DEF active, notice
  <2>5. /\ Good(wire'[c], active[c])
        /\ \A d \in Conn \ {c} : wire'[d] = wire[d]
        /\ UNCHANGED tcp
    BY <1>8, <1>9, <2>3 DEF SendHelloDone
  <2>6. \A d \in Conn : Good(wire'[d], active[d])
    BY <1>3, <2>3, <2>5
  <2>7. \A d \in Conn : Good(wire'[d], conn'[d])
    BY <1>3, <2>1, <2>2, <2>4, <2>6, TellGood
  <2> QED  BY <1>2, <2>5, <2>7, GreetingSent
<1>10. CASE SendDone(e, c)
  <2>1. SendAll(e, c) /\ conn' = Flushed(c)  BY <1>10 DEF SendDone
  <2>2. /\ Good(wire'[c], conn'[c])
        /\ \A d \in Conn \ {c} : wire'[d] = wire[d]
        /\ UNCHANGED tcp
    BY <1>1, <1>5, <1>8, <2>1
  <2>3. \A d \in Conn : Good(wire'[d], conn'[d])
    BY <1>3, <1>5, <2>1, <2>2
  <2> QED  BY <1>2, <2>2, <2>3, GreetingSent
<1> QED  BY <1>6, <1>7, <1>9, <1>10 DEF WriteNext

LEMMA UserGreets ==
    ASSUME TypeOK, Greeting, NEW e \in batch, StdinNext(e)
    PROVE  Greeting'
<1>1. UNCHANGED <<wire, tcp>>
  BY DEF StdinNext, StdinEof, StdinIgnored, StdinChat, StdinQuit, StdinEvent, sockVars
<1>2. conn \in [Conn -> Connection]  BY DEF TypeOK, ServerTypeOK
<1>3. \A d \in Conn : wire[d] \in Seq(Msg) /\ Good(wire[d], conn[d])
  BY Told DEF Greeting
<1>4. CASE StdinEof(e)  BY <1>1, <1>4, GreetingKept DEF StdinEof
<1>5. CASE StdinIgnored(e)  BY <1>1, <1>5, GreetingKept DEF StdinIgnored
<1>6. CASE StdinChat(e)
  <2> DEFINE said(size) == format_broadcast_message(server_name,
                               ChatMessage(Host, "chat", lines + 1, size))
  <2>1. PICK size \in LineSizes :
          IF BroadcastFails(conn, None, said(size))
          THEN RefuseBroadcast(conn, None)
          ELSE conn' = Broadcast(conn, None, said(size))
    BY <1>6 DEF StdinChat
  <2>2. said(size) \in Msg /\ said(size).type # "SERVER_HELLO"
    <3>1. ChatMessage(Host, "chat", lines + 1, size) \in Msg
      BY ServerAssumption, LineType DEF Topic, TypeOK, ServerTypeOK
    <3> QED  BY <3>1, FormattedType, BroadcastKind DEF TypeOK, ServerTypeOK
  <2> HIDE DEF said
  <2>3. \A d \in Conn : Good(wire[d], conn'[d])
    BY <1>2, <1>3, <2>1, <2>2, TellGood
  <2> QED  BY <1>1, <2>3, GreetingKept
<1>7. CASE StdinQuit(e)
  <2> DEFINE told == Broadcast(conn, None, ClosingNotice)
  <2>1. conn' = Broadcast(told, None, CloseMessage)
    BY <1>7 DEF StdinQuit
  <2>2. ClosingNotice \in Msg /\ ClosingNotice.type # "SERVER_HELLO"
    BY ClosingNoticeType, BroadcastKind DEF ClosingNotice
  <2>3. CloseMessage \in Msg /\ CloseMessage.type # "SERVER_HELLO"
    BY DEF CloseMessage, Msg, Message, MessageType, Utterance, Topic, Speaker
  <2>4. told \in [Conn -> Connection]
    BY <1>2, ClosingNoticeType, BroadcastType
  <2>5. \A d \in Conn : Good(wire[d], told[d])
    BY <1>2, <1>3, <2>2, BroadcastGood
  <2> HIDE DEF told
  <2>6. \A d \in Conn : Good(wire[d], conn'[d])
    BY <1>3, <2>1, <2>3, <2>4, <2>5, BroadcastGood
  <2> QED  BY <1>1, <2>6, GreetingKept
<1> QED  BY <1>4, <1>5, <1>6, <1>7 DEF StdinNext

LEMMA CleanupGreets == TypeOK /\ Greeting /\ server_cleanup => Greeting'
<1> SUFFICES ASSUME TypeOK, Greeting, server_cleanup PROVE Greeting'
  OBVIOUS
<1>1. UNCHANGED wire /\ \A d \in Conn : conn'[d] = NoConnection
  BY DEF server_cleanup
<1>2. \A d \in Conn : Good(wire[d], NoConnection)
  BY Told, GoodDeleted DEF Greeting
<1>3. \A d \in Conn : tcp'[d] \in {"none", "queued"} => tcp[d] \in {"none", "queued"}
  BY Closing DEF server_cleanup
<1> QED  BY <1>1, <1>2, <1>3, GreetingKept

LEMMA NetworkGreets == TypeOK /\ Greeting /\ NetworkNext => Greeting'
<1> SUFFICES ASSUME TypeOK, Greeting, NetworkNext PROVE Greeting'
  OBVIOUS
<1>1. UNCHANGED <<wire, conn>>
  BY DEF NetworkNext, serverVars, RemoteConnect, RemoteNext, RemoteSend, RemoteShutdown,
         RemoteReset, RemoteRead
<1>2. \A d \in Conn : tcp'[d] \in {"none", "queued"} => tcp[d] \in {"none", "queued"}
  BY DEF NetworkNext, RemoteConnect, RemoteNext, RemoteSend, RemoteShutdown,
         RemoteReset, RemoteRead, TypeOK, SocketsTypeOK
<1> QED  BY <1>1, <1>2, GreetingKept

LEMMA InitGreets == Init => Greeting
<1> SUFFICES ASSUME Init PROVE Greeting
  OBVIOUS
<1>1. \A c \in Conn : wire[c] = <<>> /\ conn[c] = NoConnection
  BY DEF Init, SocketsInit
<1>2. <<>> \in Seq(Msg) /\ StartsWithHello(<<>>)
  BY EmptySeq DEF StartsWithHello
<1>3. Good(<<>>, NoConnection)
  <2>1. /\ NoConnection.out_buffer = <<>> /\ NoConnection.bytes_written = 0
        /\ NoConnection.state = "FREED"
    BY DEF NoConnection
  <2>2. PICK w \in Seq(Msg) : w = <<>> /\ StartsWithHello(w)  BY <1>2
  <2>3. Good(w, NoConnection)  BY <2>1, <2>2, GoodEmpty
  <2> QED  BY <2>2, <2>3
<1> QED  BY <1>1, <1>3 DEF Greeting

LEMMA GreetStep ==
    TypeOK /\ TypeOK' /\ EventDiscipline /\ Greeting /\ [Next]_vars => Greeting'
<1> SUFFICES ASSUME TypeOK, TypeOK', EventDiscipline, Greeting, [Next]_vars
             PROVE  Greeting'
  OBVIOUS
<1>1. CASE ServerNext
  BY <1>1, LoopGreets, AcceptGreets, HandshakeGreets, ReadGreets, ParseGreets,
     WriteGreets, UserGreets, CleanupGreets DEF ServerNext
<1>2. CASE NetworkNext  BY <1>2, NetworkGreets
<1>3. CASE UNCHANGED vars
  BY <1>3, GreetingKept DEF vars, sockVars, serverVars
<1> QED  BY <1>1, <1>2, <1>3 DEF Next

-----------------------------------------------------------------------------
(* A client hears its SERVER_HELLO first and never again, however many      *)
(* broadcasts other handlers queue while it is being greeted, and however   *)
(* the kernel splits the output (server.cpp,                                *)
(* handle_receive_client_hello_event, handle_send_network_package_event and *)
(* broadcast_message_to_other_clients).                                     *)
THEOREM HelloComesFirst == Spec => []HelloFirst
<1>1. Init => TypeOK /\ EventDiscipline /\ Greeting
  BY InitType, InitEvents, InitGreets
<1>2. (TypeOK /\ EventDiscipline /\ Greeting) /\ [Next]_vars
        => (TypeOK /\ EventDiscipline /\ Greeting)'
  BY TypeStep, EventStep, GreetStep
<1>3. Greeting => HelloFirst
  BY DEF Greeting, Good, StartsWithHello, StreamOf, HelloFirst, Stream
<1> QED  BY <1>1, <1>2, <1>3, PTL DEF Spec
=============================================================================
