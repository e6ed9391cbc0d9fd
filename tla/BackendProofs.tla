--------------------------- MODULE BackendProofs ----------------------------
(***************************************************************************)
(* Proofs about the server over its event library: the registrations and   *)
(* the cached lookup are right, and the room is the same on both builds.   *)
(***************************************************************************)
EXTENDS Backend, ServerRoomProofs

-----------------------------------------------------------------------------
(* The emulation of epoll_wait is a wait like any other.                    *)

LEMMA PollReports ==
    ASSUME TypeOK, EventDiscipline, poll_wait
    PROVE  \A e \in batch' :
             \/ /\ e.owner \in connections /\ e.fd = conn[e.owner].fd /\ e.fd \in Fd
                /\ e.flags \subseteq EpollFlag
                /\ e = [fd |-> e.fd, flags |-> e.flags, owner |-> e.owner]
             \/ e = [fd |-> ListenFd, flags |-> {"EPOLLIN"}, owner |-> None]
             \/ e \in StdinEvents
<1>1. PICK hups \in SUBSET PollHangups, typed \in SUBSET StdinEvents : batch' \subseteq PollReady(hups, typed)
  BY DEF poll_wait
<1>2. ASSUME NEW c \in connections
      PROVE  LET e == PollEvent(conn[c].fd, PollFlags(c, hups), c)
             IN  /\ e.owner \in connections /\ e.fd = conn[e.owner].fd /\ e.fd \in Fd
                 /\ e.flags \subseteq EpollFlag
                 /\ e = [fd |-> e.fd, flags |-> e.flags, owner |-> e.owner]
  <2>1. conn[c].fd \in Fd  BY DEF EventDiscipline, LiveDescriptors
  <2>2. PollFlags(c, hups) \subseteq EpollFlag  BY DEF PollFlags, EpollFlag
  <2> QED  BY <2>1, <2>2 DEF PollEvent
<1>3. ASSUME NEW e \in ReadyEvents, e.fd = ListenFd
      PROVE  e = [fd |-> ListenFd, flags |-> {"EPOLLIN"}, owner |-> None]
  <2>1. ASSUME e \in ConnectionEvents PROVE FALSE
    <3>1. e.fd \in Fd  BY <2>1 DEF ConnectionEvents, EventDiscipline, LiveDescriptors
    <3> QED  BY <1>3, <3>1, ServerAssumption
  <2> QED  BY <2>1 DEF ReadyEvents
<1> QED  BY <1>1, <1>2, <1>3 DEF PollReady

LEMMA PollStep ==
    ASSUME TypeOK, EventDiscipline, poll_wait
    PROVE  TypeOK' /\ EventDiscipline'
<1>1. /\ UNCHANGED <<sockVars, conn, interest, reader, server_closing, screen, userVars>>
      /\ pc = "wait" /\ pc' = "dispatch" /\ connections' = connections
  BY DEF poll_wait, connections
<1>2. batch' \in SUBSET Event
  <2> SUFFICES ASSUME NEW e \in batch' PROVE e \in Event
    OBVIOUS
  <2>1. StdinEvents \subseteq Event  BY EventType
  <2>2. [fd |-> ListenFd, flags |-> {"EPOLLIN"}, owner |-> None] \in Event
    BY DEF Event, EpollFlag
  <2> QED  BY <2>1, <2>2, PollReports DEF Event, connections
<1>3. TypeOK'
  BY <1>1, <1>2 DEF TypeOK, SocketsTypeOK, ServerTypeOK, sockVars, userVars, remoteVars
<1>4. ASSUME NEW e \in batch'
      PROVE  IF e.owner = None THEN e.fd \in {ListenFd, StdinFd}
             ELSE e.owner \in connections /\ e.fd = conn[e.owner].fd
  BY PollReports, ServerAssumption DEF StdinEvents, connections
<1>5. ASSUME NEW e1 \in batch', NEW e2 \in batch', e1.owner # None, e1.owner = e2.owner
      PROVE  e1 = e2
  <2>1. PICK hups \in SUBSET PollHangups, typed \in SUBSET StdinEvents : batch' \subseteq PollReady(hups, typed)
    BY DEF poll_wait
  <2>2. ASSUME NEW e \in batch', e.owner # None
        PROVE  e = PollEvent(conn[e.owner].fd, PollFlags(e.owner, hups), e.owner)
    <3>1. CASE e \in {PollEvent(conn[c].fd, PollFlags(c, hups), c) : c \in connections}
      BY <3>1 DEF PollEvent
    <3>2. CASE e \in ReadyEvents /\ e.fd = ListenFd
      <4>1. e \notin ConnectionEvents
        BY <3>2, ServerAssumption DEF ConnectionEvents, EventDiscipline, LiveDescriptors
      <4> QED  BY <2>2, <3>2, <4>1 DEF ReadyEvents
    <3>3. CASE e \in typed  BY <2>2, <3>3 DEF StdinEvents
    <3> QED  BY <2>1, <3>1, <3>2, <3>3 DEF PollReady
  <2> QED  BY <1>5, <2>2
<1>6. EventOwners'  BY <1>1, <1>4, <1>5 DEF EventOwners
<1>7. LiveDescriptors'
  BY <1>1 DEF EventDiscipline, LiveDescriptors, sockVars
<1> QED  BY <1>3, <1>6, <1>7 DEF EventDiscipline

LEMMA PollIdles ==
    ASSUME Orderly, poll_wait
    PROVE  Orderly' /\ RoomStep
<1>1. TypeOK /\ EventDiscipline /\ Greeting /\ Places /\ Ordered /\ Typing
  BY DEF Orderly, Base
<1>2. TypeOK' /\ EventDiscipline'  BY <1>1, PollStep
<1>3. /\ UNCHANGED <<sockVars, conn, interest, reader, server_closing, screen, userVars>>
      /\ pc = "wait" /\ pc' = "dispatch"
  BY DEF poll_wait
<1>4. Greeting'  BY <1>1, <1>3, GreetingKept DEF sockVars
<1>5. Idles
  <2>1. lines' >= lines  BY <1>1, <1>3, Lines DEF userVars
  <2> QED  BY <1>1, <1>3, <2>1, IdleStep DEF sockVars, Running, Outside, remoteVars
<1>6. Places'
  BY <1>1, <1>3, PlacesKept, NoneClosed DEF Running
<1>7. RoomStep  BY <1>5 DEF RoomStep
<1>8. Base'  BY <1>2, <1>4, <1>6 DEF Base
<1>9. Ordered'
  <2>1. Silence' /\ Numbering' /\ ChatOrder' /\ HostOrder'
    BY <1>1, <1>2, <1>7, NumberedSpeakers, SilenceStep, NumberingStep, ChatStep, HostStep
       DEF Orderly, Ordered
  <2> QED  BY <2>1 DEF Ordered
<1>10. Typing'
  <2>1. lines' = lines  BY <1>3 DEF userVars
  <2>2. ASSUME NEW e \in batch', e.fd = StdinFd PROVE e = TypedLine /\ lines < MaxLines
    <3>1. StdinFd \notin Fd /\ StdinFd # ListenFd  BY ServerAssumption
    <3> QED  BY <1>1, <2>2, <3>1, PollReports DEF StdinEvents, TypedLine
  <2> QED  BY <1>1, <2>1, <2>2 DEF Typing
<1> QED  BY <1>7, <1>8, <1>9, <1>10 DEF Orderly

-----------------------------------------------------------------------------
(* What the handlers ask of epoll (the calls of epoll_register,             *)
(* epoll_fd_mod and epoll_fd_remove in server.cpp): something for a live    *)
(* connection, nothing for any other, and input as long as the room is not  *)
(* closing.                                                                 *)

Asks(c) ==
    IF conn[c].state = "FREED" THEN interest[c] = {}
    ELSE \/ interest[c] \in {ReadOnly, ReadWrite}
         \/ interest[c] = WriteOnly /\ server_closing

Watching == \A c \in Conn : Asks(c)

SameAsks(c) == /\ interest'[c] = interest[c]
               /\ conn'[c].state = "FREED" <=> conn[c].state = "FREED"

LEMMA Asking ==
    ASSUME Watching, server_closing => server_closing',
           \A c \in Conn : SameAsks(c) \/ Asks(c)'
    PROVE  Watching'
  BY DEF Watching, Asks, SameAsks

LEMMA IdleAsks ==
    ASSUME Watching, UNCHANGED <<conn, interest, server_closing>>
    PROVE  Watching'
  BY DEF Watching, Asks

(* remove_connection takes the descriptor out of epoll with the object.     *)
LEMMA RemoveAsks ==
    ASSUME TypeOK, Watching, NEW c \in Conn, remove_connection(c), UNCHANGED server_closing
    PROVE  Watching'
<1>1. /\ conn'[c].state = "FREED" /\ interest'[c] = {}
      /\ \A d \in Conn \ {c} : conn'[d] = conn[d] /\ interest'[d] = interest[d]
  BY DEF remove_connection, NoConnection, TypeOK, ServerTypeOK
<1> QED  BY <1>1, Asking DEF Asks, SameAsks

LEMMA RefuseAsks ==
    ASSUME Watching, NEW cs \in [Conn -> Connection], NEW sender,
           \A d \in Conn : cs[d].state = "FREED" <=> conn[d].state = "FREED",
           RefuseBroadcast(cs, sender), UNCHANGED server_closing
    PROVE  Watching'
<1>1. PICK r \in Recipients(cs, sender) : conn' = [cs EXCEPT ![r].state = "CONNECTION_ERROR"]
  BY DEF RefuseBroadcast
<1>2. r \in Conn /\ cs[r].state = "ACTIVE"  BY DEF Recipients
<1>3. conn'[r].state = "CONNECTION_ERROR" /\ \A d \in Conn \ {r} : conn'[d] = cs[d]
  BY <1>1, <1>2 DEF Connection
<1>4. UNCHANGED interest  BY DEF RefuseBroadcast
<1> QED  BY <1>2, <1>3, <1>4, Asking DEF SameAsks

LEMMA TellAsks ==
    ASSUME Watching, NEW cs \in [Conn -> Connection], NEW sender, NEW m \in Msg,
           \A d \in Conn : cs[d].state = "FREED" <=> conn[d].state = "FREED",
           conn' = Broadcast(cs, sender, m),
           interest' = WatchRecipients(interest, cs, sender), UNCHANGED server_closing
    PROVE  Watching'
<1>1. ASSUME NEW d \in Conn
      PROVE  conn'[d].state = cs[d].state
  BY DEF Broadcast, Queue, Connection
<1>2. ASSUME NEW d \in Conn PROVE SameAsks(d) \/ Asks(d)'
  <2>1. CASE d \in Recipients(cs, sender)
    <3>1. interest'[d] = ReadWrite  BY <2>1 DEF WatchRecipients, Watch
    <3>2. conn'[d].state = "ACTIVE"  BY <1>1, <2>1 DEF Recipients
    <3> QED  BY <3>1, <3>2 DEF Asks
  <2>2. CASE d \notin Recipients(cs, sender)
    <3>1. interest'[d] = interest[d]  BY <2>2 DEF WatchRecipients, Watch
    <3> QED  BY <1>1, <3>1 DEF SameAsks
  <2> QED  BY <2>1, <2>2
<1> QED  BY <1>2, Asking

LEMMA AcceptAsks ==
    ASSUME TypeOK, Watching, AcceptNext
    PROVE  Watching'
<1>1. ASSUME NEW c \in Conn, AcceptOne(c) PROVE Watching'
  <2>1. PICK f \in FreeFds : conn' = [conn EXCEPT ![c] = NewConnection(f)]
    BY <1>1 DEF AcceptOne
  <2>2. /\ conn'[c].state = "WAITING_FOR_CLIENT_HELLO"
        /\ \A d \in Conn \ {c} : conn'[d] = conn[d]
    BY <2>1 DEF NewConnection, NoConnection, TypeOK, ServerTypeOK
  <2>3. /\ interest'[c] = ReadOnly /\ UNCHANGED server_closing
        /\ \A d \in Conn \ {c} : interest'[d] = interest[d]
    BY <1>1 DEF AcceptOne, TypeOK, ServerTypeOK
  <2> QED  BY <2>2, <2>3, Asking DEF Asks, SameAsks
<1>2. ASSUME NEW c \in Conn, AcceptAborted(c) \/ AcceptNotWatched(c) PROVE Watching'
  BY <1>2, IdleAsks DEF AcceptAborted, AcceptNotWatched, AcceptLost
<1>3. ASSUME NEW e \in batch, handle_accept_client_connection_event(e) PROVE Watching'
  BY <1>3, IdleAsks DEF handle_accept_client_connection_event
<1>4. CASE AcceptDone  BY <1>4, IdleAsks DEF AcceptDone
<1>5. CASE AcceptWithoutDescriptor  BY <1>5, IdleAsks DEF AcceptWithoutDescriptor
<1> QED  BY <1>1, <1>2, <1>3, <1>4, <1>5 DEF AcceptNext

LEMMA HandshakeAsks ==
    ASSUME TypeOK, Watching, NEW e \in batch, NEW c \in Conn, HandshakeNext(e, c)
    PROVE  Watching'
<1>1. CASE HelloIncomplete(e, c)
  BY <1>1, IdleAsks DEF HelloIncomplete, HelloEvent
<1>2. CASE HelloRejected(e, c)
  BY <1>2, RemoveAsks DEF HelloRejected, HelloEvent
<1>3. CASE HelloAccepted(e, c)
  <2> DEFINE named(k) == Named(c, InputAfter(c, k))
  <2>0. UNCHANGED server_closing /\ conn[c].state = "WAITING_FOR_CLIENT_HELLO"
    BY <1>3 DEF HelloAccepted, HelloEvent, event_is_receive_client_hello
  <2>1. CASE ~protocol_payload_length_is_legal(server_name)
    <3>1. PICK k \in ReadSizes(c) :
            /\ InputAfter(c, k) # <<>>
            /\ conn' = [named(k) EXCEPT ![c].state = "CONNECTION_ERROR"]
            /\ UNCHANGED interest
      BY <1>3, <2>1 DEF HelloAccepted
    <3>2. named(k) \in [Conn -> Connection] /\ \A d \in Conn \ {c} : named(k)[d] = conn[d]
      BY <3>1, InputType, NamedType DEF Named, TypeOK, ServerTypeOK
    <3>3. conn'[c].state = "CONNECTION_ERROR" /\ \A d \in Conn \ {c} : conn'[d] = conn[d]
      BY <3>1, <3>2 DEF Connection
    <3> QED  BY <2>0, <3>1, <3>3, Asking DEF SameAsks
  <2>2. CASE protocol_payload_length_is_legal(server_name)
    <3>1. PICK k \in ReadSizes(c) :
            /\ InputAfter(c, k) # <<>>
            /\ conn' = [Queue(named(k), {c}, ServerHello)
                           EXCEPT ![c].state = "SENDING_SERVER_HELLO"]
            /\ interest' = Watch(interest, {c}, ReadWrite)
      BY <1>3, <2>2 DEF HelloAccepted
    <3>2. named(k) \in [Conn -> Connection]
      BY <3>1, InputType, NamedType
    <3>3. \A d \in Conn \ {c} : named(k)[d] = conn[d]
      BY DEF Named, TypeOK, ServerTypeOK
    <3>4. ServerHello \in Msg
      BY DEF ServerHello, TypeOK, ServerTypeOK, Msg, Message, MessageType, Utterance,
             Topic, Speaker
    <3> HIDE DEF named
    <3>5. Queue(named(k), {c}, ServerHello) \in [Conn -> Connection]
      BY <3>2, <3>4, QueueType
    <3>6. conn'[c].state = "SENDING_SERVER_HELLO" /\ \A d \in Conn \ {c} : conn'[d] = conn[d]
      BY <3>1, <3>3, <3>5 DEF Queue, Connection
    <3>7. interest'[c] = ReadWrite /\ \A d \in Conn \ {c} : interest'[d] = interest[d]
      BY <3>1 DEF Watch
    <3> QED  BY <2>0, <3>6, <3>7, Asking DEF Asks, SameAsks
  <2> QED  BY <2>1, <2>2
<1> QED  BY <1>1, <1>2, <1>3 DEF HandshakeNext

LEMMA ReadAsks ==
    ASSUME TypeOK, Watching, NEW e \in batch, NEW c \in Conn, ReadNext(e, c)
    PROVE  Watching'
<1>1. conn[c].state = "ACTIVE" /\ UNCHANGED server_closing
  BY DEF ReadNext, ReadFails, ReadInput, ReadEvent, event_is_read_network_package
<1>2. CASE ReadFails(e, c)  BY <1>1, <1>2, RemoveAsks DEF ReadFails
<1>3. CASE ReadInput(e, c)
  <2>1. UNCHANGED interest
        /\ \A d \in Conn : conn'[d].state = "FREED" <=> conn[d].state = "FREED"
    BY <1>1, <1>3 DEF ReadInput, TypeOK, ServerTypeOK, Connection
  <2> QED  BY <1>1, <2>1, Asking DEF SameAsks
<1> QED  BY <1>2, <1>3 DEF ReadNext

LEMMA ParseAsks ==
    ASSUME TypeOK, Watching, NEW c \in Conn, ParseNext(c)
    PROVE  Watching'
<1>1. UNCHANGED server_closing
  BY DEF ParseNext, ParseNothing, ParseRejects, ParseLeave, ParseChat, Parsing
<1>2. CASE ParseNothing(c)  BY <1>1, <1>2, IdleAsks DEF ParseNothing
<1>3. CASE ParseRejects(c)  BY <1>1, <1>3, RemoveAsks DEF ParseRejects
<1>4. CASE ParseLeave(c)
  <2> DEFINE notice == Notice(c, "disconnected", conn[c].name)
  <2>1. notice \in Msg
    BY NoticeType, ConnType, ConnectionFields DEF Speaker
  <2>2. conn \in [Conn -> Connection]  BY DEF TypeOK, ServerTypeOK
  <2>3. CASE BroadcastFails(conn, c, notice)
    BY <1>1, <1>4, <2>2, <2>3, RefuseAsks DEF ParseLeave
  <2>4. CASE ~BroadcastFails(conn, c, notice)
    <3> DEFINE told    == Broadcast(conn, c, notice)
               watched == WatchRecipients(interest, conn, c)
    <3>1. /\ conn' = [told EXCEPT ![c] = NoConnection]
          /\ interest' = [watched EXCEPT ![c] = {}]
      BY <1>4, <2>4 DEF ParseLeave
    <3>2. told \in [Conn -> Connection] /\ c \in DOMAIN watched
      BY <2>1, <2>2, BroadcastType DEF WatchRecipients, Watch
    <3>3. conn'[c].state = "FREED" /\ interest'[c] = {}
      BY <3>1, <3>2 DEF NoConnection
    <3>4. ASSUME NEW d \in Conn \ {c} PROVE SameAsks(d) \/ Asks(d)'
      <4>1. conn'[d] = told[d] /\ interest'[d] = watched[d]
        BY <3>1, <3>2 DEF WatchRecipients, Watch
      <4>2. told[d].state = conn[d].state
        BY <2>2 DEF Broadcast, Queue, Connection
      <4>3. CASE d \in Recipients(conn, c)
        <5>1. watched[d] = ReadWrite /\ conn[d].state = "ACTIVE"
          BY <4>3 DEF WatchRecipients, Watch, Recipients
        <5> QED  BY <4>1, <4>2, <5>1 DEF Asks
      <4>4. CASE d \notin Recipients(conn, c)
        <5>1. watched[d] = interest[d]  BY <4>4 DEF WatchRecipients, Watch
        <5> QED  BY <4>1, <4>2, <5>1 DEF SameAsks
      <4> QED  BY <4>3, <4>4
    <3> QED  BY <1>1, <3>3, <3>4, Asking DEF Asks
  <2> QED  BY <2>3, <2>4
<1>5. CASE ParseChat(c)
  <2> DEFINE m      == Head(conn[c].in_buffer)
             said   == format_broadcast_message(conn[c].name, m)
             popped == [conn EXCEPT ![c].in_buffer = Tail(@)]
  <2>1. m \in Msg /\ Tail(conn[c].in_buffer) \in Seq(Msg)
    BY <1>5, ConnType, ConnectionFields, HeadTailProperties DEF ParseChat
  <2>2. said \in Msg
    BY <2>1, FormattedType, ConnType, ConnectionFields
  <2>3. popped \in [Conn -> Connection]
    BY <2>1, ConnType, ConnectionFields DEF TypeOK, ServerTypeOK
  <2>4. \A d \in Conn : popped[d].state = conn[d].state
    BY DEF TypeOK, ServerTypeOK, Connection
  <2>5. CASE BroadcastFails(popped, c, said)
    <3>1. RefuseBroadcast(popped, c)  BY <1>5, <2>5 DEF ParseChat
    <3> QED  BY <1>1, <2>3, <2>4, <3>1, RefuseAsks
  <2>6. CASE ~BroadcastFails(popped, c, said)
    <3>1. /\ conn' = Broadcast(popped, c, said)
          /\ interest' = WatchRecipients(interest, popped, c)
      BY <1>5, <2>6 DEF ParseChat
    <3> QED  BY <1>1, <2>2, <2>3, <2>4, <3>1, TellAsks
  <2> QED  BY <2>5, <2>6
<1> QED  BY <1>2, <1>3, <1>4, <1>5 DEF ParseNext

LEMMA WriteAsks ==
    ASSUME TypeOK, Watching, NEW e \in batch, NEW c \in Conn, WriteNext(e, c)
    PROVE  Watching'
<1>1. conn[c].state \in {"SENDING_SERVER_HELLO", "ACTIVE"} /\ UNCHANGED server_closing
  BY DEF WriteNext, SendFails, SendPartial, SendHelloDone, SendDone, SendAll, SendEvent,
         event_is_send_network_package
<1>2. conn \in [Conn -> Connection] /\ interest \in [Conn -> SUBSET EpollFlag]
  BY DEF TypeOK, ServerTypeOK
<1>3. Flushed(c) \in [Conn -> Connection]
      /\ \A d \in Conn : Flushed(c)[d].state = conn[d].state
  BY <1>2, FlushedType DEF Flushed, Connection
<1>4. CASE SendFails(e, c) \/ SendPartial(e, c)
  <2>1. UNCHANGED interest
        /\ \A d \in Conn : conn'[d].state = "FREED" <=> conn[d].state = "FREED"
    BY <1>1, <1>2, <1>4 DEF SendFails, SendPartial, Connection
  <2> QED  BY <1>1, <2>1, Asking DEF SameAsks
<1>5. CASE SendHelloDone(e, c)
  <2> DEFINE active == [Flushed(c) EXCEPT ![c].state = "ACTIVE"]
             notice == Notice(c, "connected", conn[c].name)
  <2>1. notice \in Msg
    BY NoticeType, ConnType, ConnectionFields DEF Speaker
  <2>2. active \in [Conn -> Connection]
    <3>1. [Flushed(c)[c] EXCEPT !.state = "ACTIVE"] \in Connection
      BY <1>3, ConnectionFields DEF ConnectionState
    <3> QED  BY <1>3, <3>1
  <2>3. \A d \in Conn : active[d].state = "FREED" <=> conn[d].state = "FREED"
    BY <1>1, <1>3 DEF Connection
  <2>4. SendHelloDone(e, c) =>
          IF BroadcastFails(active, None, notice)
          THEN RefuseBroadcast(active, None)
          ELSE /\ conn' = Broadcast(active, None, notice)
               /\ interest' = WatchRecipients(interest, active, None)
    BY DEF SendHelloDone
  <2> HIDE DEF active, notice
  <2>5. CASE BroadcastFails(active, None, notice)
    BY <1>1, <1>5, <2>2, <2>3, <2>4, <2>5, RefuseAsks
  <2>6. CASE ~BroadcastFails(active, None, notice)
    BY <1>1, <1>5, <2>1, <2>2, <2>3, <2>4, <2>6, TellAsks
  <2> QED  BY <2>5, <2>6
<1>6. CASE SendDone(e, c)
  <2>1. conn' = Flushed(c) /\ interest' = Watch(interest, {c}, ReadOnly)
    BY <1>6 DEF SendDone
  <2>2. interest'[c] = ReadOnly /\ \A d \in Conn \ {c} : interest'[d] = interest[d]
    BY <2>1 DEF Watch
  <2> QED  BY <1>1, <1>3, <2>1, <2>2, Asking DEF Asks, SameAsks
<1> QED  BY <1>4, <1>5, <1>6 DEF WriteNext

LEMMA UserAsks ==
    ASSUME TypeOK, Watching, NEW e \in batch, StdinNext(e)
    PROVE  Watching'
<1>1. conn \in [Conn -> Connection]
  BY DEF TypeOK, ServerTypeOK
<1>2. CASE StdinEof(e)  BY <1>2, IdleAsks DEF StdinEof
<1>3. CASE StdinIgnored(e)  BY <1>3, IdleAsks DEF StdinIgnored
<1>4. CASE StdinChat(e)
  <2> DEFINE said(size) == format_broadcast_message(server_name,
                               ChatMessage(Host, "chat", lines + 1, size))
  <2>1. PICK size \in LineSizes :
          IF BroadcastFails(conn, None, said(size))
          THEN RefuseBroadcast(conn, None)
          ELSE /\ conn' = Broadcast(conn, None, said(size))
               /\ interest' = WatchRecipients(interest, conn, None)
    BY <1>4 DEF StdinChat
  <2>2. said(size) \in Msg
    <3>1. ChatMessage(Host, "chat", lines + 1, size) \in Msg
      BY ServerAssumption, LineType DEF Topic, TypeOK, ServerTypeOK
    <3> QED  BY <3>1, FormattedType DEF TypeOK, ServerTypeOK
  <2>3. UNCHANGED server_closing  BY <1>4 DEF StdinChat
  <2>4. CASE BroadcastFails(conn, None, said(size))
    BY <1>1, <2>1, <2>3, <2>4, RefuseAsks
  <2>5. CASE ~BroadcastFails(conn, None, said(size))
    BY <1>1, <2>1, <2>2, <2>3, <2>5, TellAsks
  <2> QED  BY <2>4, <2>5
<1>5. CASE StdinQuit(e)
  <2> DEFINE told == Broadcast(conn, None, ClosingNotice)
  <2>1. /\ conn' = Broadcast(told, None, CloseMessage) /\ server_closing'
        /\ interest' = Watch(interest, Recipients(told, None), WriteOnly)
    BY <1>5 DEF StdinQuit
  <2>a. told \in [Conn -> Connection]
    BY <1>1, ClosingNoticeType, BroadcastType
  <2>b. \A d \in Conn : told[d].state = conn[d].state
    BY <1>1 DEF Broadcast, Queue, Connection
  <2>2. told \in [Conn -> Connection] /\ \A d \in Conn : told[d].state = conn[d].state
    BY <2>a, <2>b
  <2> HIDE DEF told
  <2>3. \A d \in Conn : conn'[d].state = conn[d].state
    BY <2>1, <2>2 DEF Broadcast, Queue, Connection
  <2>4. ASSUME NEW d \in Conn PROVE SameAsks(d) \/ Asks(d)'
    <3>1. CASE d \in Recipients(told, None)
      <4>1. interest'[d] = WriteOnly  BY <2>1, <3>1 DEF Watch
      <4>2. conn'[d].state = "ACTIVE"  BY <2>2, <2>3, <3>1 DEF Recipients
      <4> QED  BY <2>1, <4>1, <4>2 DEF Asks
    <3>2. CASE d \notin Recipients(told, None)
      <4>1. interest'[d] = interest[d]  BY <2>1, <3>2 DEF Watch
      <4> QED  BY <2>3, <4>1 DEF SameAsks
    <3> QED  BY <3>1, <3>2
  <2> QED  BY <2>1, <2>4, Asking
<1> QED  BY <1>2, <1>3, <1>4, <1>5 DEF StdinNext

LEMMA AskStep ==
    ASSUME TypeOK, Watching, [Next]_vars
    PROVE  Watching'
<1>1. CASE epoll_wait \/ (\E e \in batch : SkipEvent(e)) \/ EndOfBatch
  BY <1>1, IdleAsks DEF epoll_wait, SkipEvent, EndOfBatch
<1>2. CASE server_cleanup
  <2>1. \A c \in Conn : conn'[c].state = "FREED" /\ interest'[c] = {}
    BY <1>2 DEF server_cleanup, NoConnection
  <2> QED  BY <2>1 DEF Watching, Asks
<1>3. CASE ServerNext
  BY <1>1, <1>2, <1>3, AcceptAsks, HandshakeAsks, ReadAsks, ParseAsks, WriteAsks, UserAsks
     DEF ServerNext
<1>4. CASE NetworkNext  BY <1>4, IdleAsks DEF NetworkNext, serverVars
<1>5. CASE UNCHANGED vars  BY <1>5, IdleAsks DEF vars, serverVars
<1> QED  BY <1>3, <1>4, <1>5 DEF Next

-----------------------------------------------------------------------------
(* The registrations and the lookup.                                        *)

LEMMA LookupType ==
    ASSUME BackendTypeOK, NEW f
    PROVE  Lookup(f) \in Address \cup {None}
<1>1. Found(f) \in Address \cup {None}
  <2>1. CASE get_connection_of(f) = {}  BY <2>1 DEF Found
  <2>2. CASE get_connection_of(f) # {}
    <3>1. (CHOOSE c \in get_connection_of(f) : TRUE) \in Conn
      BY <2>2 DEF get_connection_of, connections
    <3> QED  BY <2>2, <3>1 DEF Found, BackendTypeOK
  <2> QED  BY <2>1, <2>2
<1>2. cached \in Address \cup {None}  BY DEF BackendTypeOK
<1> QED  BY <1>1, <1>2 DEF Lookup

LEMMA LookupIs ==
    ASSUME EventDiscipline
    PROVE  LookupFindsOwner
<1> SUFFICES ASSUME Running, NEW e \in batch
             PROVE  Lookup(e.fd) = IF e.owner = None THEN None ELSE address[e.owner]
  BY DEF LookupFindsOwner
<1>1. ASSUME cached \in Live
      PROVE  \E d \in connections : address[d] = cached /\ FdAt(cached) = conn[d].fd
  BY <1>1 DEF Live, FdAt
<1>2. CASE e.owner = None
  <2>1. e.fd \notin Fd  BY <1>2, ServerAssumption DEF EventDiscipline, EventOwners
  <2>2. get_connection_of(e.fd) = {}
    BY <2>1 DEF get_connection_of, EventDiscipline, LiveDescriptors
  <2>3. ~ (cached \in Live /\ FdAt(cached) = e.fd)
    BY <1>1, <2>1 DEF EventDiscipline, LiveDescriptors
  <2> QED  BY <1>2, <2>2, <2>3 DEF Lookup, Found
<1>3. CASE e.owner # None
  <2>1. e.owner \in connections /\ e.fd = conn[e.owner].fd
    BY <1>3 DEF EventDiscipline, EventOwners
  <2>2. get_connection_of(e.fd) = {e.owner}
    BY <2>1 DEF get_connection_of, EventDiscipline, LiveDescriptors
  <2>3. Found(e.fd) = address[e.owner]  BY <2>2 DEF Found
  <2>4. ASSUME cached \in Live, FdAt(cached) = e.fd PROVE cached = address[e.owner]
    <3>1. PICK d \in connections : address[d] = cached /\ FdAt(cached) = conn[d].fd
      BY <1>1, <2>4
    <3>2. d = e.owner  BY <2>1, <2>4, <3>1 DEF EventDiscipline, LiveDescriptors
    <3> QED  BY <3>1, <3>2
  <2> QED  BY <1>3, <2>3, <2>4 DEF Lookup
<1> QED  BY <1>2, <1>3

(* The table is two fixed entries and one for each connection, with what    *)
(* was last asked for it, and holds none of them twice.                     *)
Fixed  == {Entry(ListenFd, {"EPOLLIN"}), Entry(StdinFd, {"EPOLLIN"})}
Row(c) == Entry(conn[c].fd, interest[c])
Table  ==
    /\ Elements(entries) = Fixed \cup {Row(c) : c \in connections}
    /\ Distinct(entries)

(* Two entries of one descriptor are one entry.                             *)
LEMMA OneEntry ==
    ASSUME EventDiscipline,
           NEW e1 \in Fixed \cup {Row(c) : c \in connections},
           NEW e2 \in Fixed \cup {Row(c) : c \in connections},
           e1.fd = e2.fd
    PROVE  e1 = e2
<1>1. ListenFd # StdinFd /\ ListenFd \notin Fd /\ StdinFd \notin Fd
  BY ServerAssumption
<1>2. \A c \in connections : conn[c].fd \in Fd
  BY DEF EventDiscipline, LiveDescriptors
<1>a. \A e \in Fixed : e.fd \notin Fd  BY <1>1 DEF Fixed, Entry
<1>3. ASSUME NEW c \in connections, e1 = Row(c) PROVE e1 = e2
  <2>1. e1.fd = conn[c].fd /\ e1.fd \in Fd  BY <1>2, <1>3 DEF Row, Entry
  <2>2. e2 \notin Fixed  BY <1>a, <2>1
  <2>3. PICK d \in connections : e2 = Row(d)  BY <2>2
  <2>4. d = c  BY <2>1, <2>3 DEF Row, Entry, EventDiscipline, LiveDescriptors
  <2> QED  BY <1>3, <2>3, <2>4
<1>4. ASSUME NEW c \in connections, e2 = Row(c) PROVE e1 = e2
  <2>1. e1.fd \in Fd  BY <1>2, <1>4 DEF Row, Entry
  <2>2. e1 \notin Fixed  BY <1>a, <2>1
  <2> QED  BY <1>3, <2>2
<1>5. CASE e1 \in Fixed /\ e2 \in Fixed  BY <1>1, <1>5 DEF Fixed, Entry
<1> QED  BY <1>3, <1>4, <1>5

LEMMA OnePlace ==
    ASSUME EventDiscipline, Table,
           NEW i \in 1 .. Len(entries), NEW j \in 1 .. Len(entries),
           entries[i].fd = entries[j].fd
    PROVE  i = j
<1>1. entries[i] \in Elements(entries) /\ entries[j] \in Elements(entries)
  BY DEF Elements
<1>2. entries[i] = entries[j]  BY <1>1, OneEntry DEF Table
<1> QED  BY <1>2 DEF Table, Distinct

LEMMA TableIs ==
    ASSUME EventDiscipline, Watching, WriteInterest, Running => Table
    PROVE  RegistrationsMatch
<1> SUFFICES ASSUME Running, Table PROVE RegistrationsMatch
  BY DEF RegistrationsMatch
<1>1. \A i, j \in 1 .. Len(entries) : entries[i].fd = entries[j].fd => i = j
  BY OnePlace
<1>2. {entries[i].fd : i \in 1 .. Len(entries)}
        = {ListenFd, StdinFd} \cup {conn[c].fd : c \in connections}
  <2>1. {entries[i].fd : i \in 1 .. Len(entries)} = {e.fd : e \in Elements(entries)}
    BY DEF Elements
  <2>2. {e.fd : e \in Fixed} = {ListenFd, StdinFd}
    BY DEF Fixed, Entry
  <2>3. \A c \in connections : Row(c).fd = conn[c].fd  BY DEF Row, Entry
  <2>4. {e.fd : e \in Fixed \cup {Row(c) : c \in connections}}
          = {e.fd : e \in Fixed} \cup {conn[c].fd : c \in connections}
    BY <2>3
  <2> QED  BY <2>1, <2>2, <2>4 DEF Table
<1>3. ASSUME NEW c \in connections PROVE Asked(conn[c].fd) = interest[c]
  <2>1. PICK i \in 1 .. Len(entries) : entries[i] = Row(c)
    BY DEF Table, Elements
  <2>2. entries[i].fd = conn[c].fd /\ entries[i].events = interest[c]
    BY <2>1 DEF Row, Entry
  <2>3. {j \in 1 .. Len(entries) : entries[j].fd = conn[c].fd} = {i}
    BY <1>1, <2>2
  <2>4. {entries[k].events : k \in {j \in 1 .. Len(entries) : entries[j].fd = conn[c].fd}}
          = {interest[c]}
    BY <2>2, <2>3
  <2> QED  BY <2>4 DEF Asked
<1>4. ASSUME NEW c \in connections
      PROVE  /\ "EPOLLOUT" \in Asked(conn[c].fd) <=> conn[c].out_buffer # <<>>
             /\ "EPOLLIN" \in Asked(conn[c].fd) \/ server_closing
  <2>1. "EPOLLOUT" \in interest[c] <=> conn[c].out_buffer # <<>>
    BY DEF WriteInterest, connections
  <2>2. "EPOLLIN" \in interest[c] \/ server_closing
    BY DEF Watching, Asks, connections, ReadOnly, ReadWrite
  <2> QED  BY <1>3, <2>1, <2>2
<1> QED  BY <1>1, <1>2, <1>4 DEF RegistrationsMatch

LEMMA NewObject ==
    ASSUME TypeOK, EventDiscipline, NEW c \in Conn, AcceptOne(c)
    PROVE  /\ c \notin connections /\ connections' = connections \cup {c}
           /\ \A d \in connections : conn'[d].fd = conn[d].fd
           /\ Arrived(c) /\ \A d \in Conn : Arrived(d) => d = c
<1>1. PICK f \in FreeFds : conn' = [conn EXCEPT ![c] = NewConnection(f)]  BY DEF AcceptOne
<1>2. conn'[c] = NewConnection(f) /\ \A d \in Conn \ {c} : conn'[d] = conn[d]
  BY <1>1 DEF TypeOK, ServerTypeOK
<1>3. NewConnection(f).state = "WAITING_FOR_CLIENT_HELLO"  BY DEF NewConnection, NoConnection
<1>4. c \notin connections  BY DEF AcceptOne, EventDiscipline, LiveDescriptors
<1>5. connections' = connections \cup {c}  BY <1>2, <1>3 DEF connections
<1>6. \A d \in connections : d # c /\ d \in Conn  BY <1>4 DEF connections
<1>7. Arrived(c) /\ \A d \in Conn : Arrived(d) => d = c
  BY <1>2, <1>3, <1>4 DEF Arrived, connections
<1> QED  BY <1>2, <1>4, <1>5, <1>6, <1>7

(* The calls are those of the descriptors whose connections come and go.    *)
LEMMA CallsAre ==
    ASSUME TypeOK, Watching, Watching'
    PROVE  /\ Added = connections' \ connections
           /\ Removed = connections \ connections'
           /\ Modified = {c \in connections \cap connections' : interest'[c] # interest[c]}
<1>1. ReadOnly # {} /\ ReadWrite # {} /\ WriteOnly # {}
  BY DEF ReadOnly, ReadWrite, WriteOnly
<1>2. \A c \in Conn : interest[c] = {} <=> c \notin connections
  BY <1>1 DEF Watching, Asks, connections
<1>3. \A c \in Conn : interest'[c] = {} <=> c \notin connections'
  BY <1>1 DEF Watching, Asks, connections
<1>4. connections \subseteq Conn /\ connections' \subseteq Conn  BY DEF connections
<1> QED  BY <1>2, <1>3, <1>4 DEF Added, Removed, Modified

LEMMA AddressType ==
    ASSUME BackendTypeOK, DispatchStep
    PROVE  /\ cached' \in Address \cup {None} /\ backend' \in Backends
           /\ address' \in [Conn -> Address \cup {None}]
<1>1. cached' \in Address \cup {None}  BY LookupType DEF DispatchStep, BackendTypeOK
<1>2. address' \in [Conn -> Address \cup {None}]  BY DEF DispatchStep, BackendTypeOK
<1> QED  BY <1>1, <1>2 DEF DispatchStep, BackendTypeOK

(* accept_nonblocking and epoll_register.                                   *)
LEMMA AddStep ==
    ASSUME BackendTypeOK, TypeOK', EventDiscipline, EventDiscipline', Watching, Watching', Table,
           NEW c \in Conn, AcceptOne(c), DispatchStep
    PROVE  BackendTypeOK' /\ Table'
<1>1. TypeOK  BY DEF BackendTypeOK
<1>2. /\ c \notin connections /\ connections' = connections \cup {c}
      /\ \A d \in connections : conn'[d].fd = conn[d].fd
  BY <1>1, NewObject
<1>3. Added = {c}  BY <1>1, <1>2, CallsAre
<1> DEFINE f == conn'[c].fd
           x == Entry(f, interest'[c])
<1>4. entries' = IF Registered(f) THEN entries ELSE Append(entries, x)
  <2>1. pc # "cleanup"  BY DEF AcceptOne
  <2> QED  BY <1>3, <2>1 DEF DispatchStep, EpollCalls, EPOLL_CTL_ADD
<1>5. f \in Fd /\ \A d \in connections : conn[d].fd # f
  BY <1>2 DEF EventDiscipline, LiveDescriptors
<1>6. \A e \in Elements(entries) : e.fd # f
  BY <1>5, ServerAssumption DEF Table, Fixed, Row, Entry
<1>7. ~Registered(f)  BY <1>6 DEF Registered, Elements
<1>8. x \in PollEntry
  <2>1. interest'[c] \in SUBSET EpollFlag  BY DEF TypeOK, ServerTypeOK
  <2> QED  BY <1>5, <2>1 DEF Entry, PollEntry
<1>9. x \notin Elements(entries)  BY <1>6 DEF Entry
<1>10. PICK s \in Seq(PollEntry) : s = entries  BY DEF BackendTypeOK
<1>a. PICK y \in PollEntry : y = x  BY <1>8
<1>11. /\ Append(s, y) \in Seq(PollEntry)
       /\ Elements(Append(s, y)) = Elements(s) \cup {y}
       /\ Distinct(Append(s, y)) <=> Distinct(s) /\ y \notin Elements(s)
  BY ElementsAppend, AppendProperties
<1>12. entries' = Append(s, y)  BY <1>4, <1>7, <1>10, <1>a
<1>13. BackendTypeOK'
  BY <1>11, <1>12, AddressType DEF BackendTypeOK
<1>14. Table'
  <2>1. \A d \in connections : d # c /\ d \in Conn  BY <1>2 DEF connections
  <2>2. \A d \in connections : interest'[d] = interest[d]
    BY <2>1 DEF AcceptOne, TypeOK, ServerTypeOK, BackendTypeOK
  <2>3. \A d \in connections : Row(d)' = Row(d)  BY <1>2, <2>2 DEF Row
  <2>4. Row(c)' = y  BY <1>a DEF Row
  <2>5. {Row(d)' : d \in connections'} = {Row(d) : d \in connections} \cup {y}
    BY <1>2, <2>3, <2>4
  <2>6. Elements(s) = Fixed \cup {Row(d) : d \in connections} /\ Distinct(s)
    BY <1>10 DEF Table
  <2>7. /\ Elements(Append(s, y)) = Fixed \cup {Row(d)' : d \in connections'}
        /\ Distinct(Append(s, y))
    BY <1>9, <1>10, <1>a, <1>11, <2>5, <2>6
  <2> QED  BY <1>12, <2>7 DEF Table
<1> QED  BY <1>13, <1>14

(* epoll_fd_mod of the descriptors of a table.                              *)
LEMMA ModType ==
    ASSUME NEW s \in Seq(PollEntry), NEW asked,
           \A f \in DOMAIN asked : asked[f] \in SUBSET EpollFlag
    PROVE  LET new(e) == IF e.fd \in DOMAIN asked THEN Entry(e.fd, asked[e.fd]) ELSE e
           IN  /\ EPOLL_CTL_MOD(s, asked) \in Seq(PollEntry)
               /\ Elements(EPOLL_CTL_MOD(s, asked)) = {new(e) : e \in Elements(s)}
               /\ (\A i, j \in 1 .. Len(s) : s[i].fd = s[j].fd => i = j) =>
                    Distinct(EPOLL_CTL_MOD(s, asked))
<1> DEFINE new(e) == IF e.fd \in DOMAIN asked THEN Entry(e.fd, asked[e.fd]) ELSE e
           t == [i \in 1 .. Len(s) |-> new(s[i])]
<1>1. Len(s) \in Nat /\ \A i \in 1 .. Len(s) : s[i] \in PollEntry
  BY LenProperties, ElementOfSeq
<1>2. ASSUME NEW e \in PollEntry PROVE new(e) \in PollEntry /\ new(e).fd = e.fd
  BY <1>2 DEF PollEntry, Entry
<1>3. t = EPOLL_CTL_MOD(s, asked)  BY DEF EPOLL_CTL_MOD
<1>4. \A i \in 1 .. Len(s) : t[i] = new(s[i]) /\ t[i] \in PollEntry /\ t[i].fd = s[i].fd
  BY <1>1, <1>2
<1> HIDE DEF new
<1>5. t \in Seq(PollEntry) /\ Len(t) = Len(s)
  <2>1. t \in [1 .. Len(s) -> PollEntry]  BY <1>4
  <2>2. DOMAIN t = 1 .. Len(s)  OBVIOUS
  <2> HIDE DEF t
  <2>3. t \in Seq(PollEntry)  BY <1>1, <2>1, SeqDef
  <2> QED  BY <1>1, <2>2, <2>3, LenProperties
<1> HIDE DEF t
<1>6. Elements(t) = {new(e) : e \in Elements(s)}  BY <1>4, <1>5 DEF Elements
<1>7. ASSUME \A i, j \in 1 .. Len(s) : s[i].fd = s[j].fd => i = j
      PROVE  Distinct(t)
  BY <1>4, <1>5, <1>7 DEF Distinct
<1>8. /\ EPOLL_CTL_MOD(s, asked) \in Seq(PollEntry)
      /\ Elements(EPOLL_CTL_MOD(s, asked)) = {new(e) : e \in Elements(s)}
      /\ (\A i, j \in 1 .. Len(s) : s[i].fd = s[j].fd => i = j) =>
           Distinct(EPOLL_CTL_MOD(s, asked))
  BY <1>3, <1>5, <1>6, <1>7
<1> QED  BY <1>8 DEF new

(* remove_connection and the steps that change what is watched.             *)
LEMMA DelStep ==
    ASSUME BackendTypeOK, TypeOK', EventDiscipline, Watching, Watching',
           Running' => Running /\ Table, Survivors, DispatchStep
    PROVE  BackendTypeOK' /\ (Running' => Table')
<1>1. TypeOK  BY DEF BackendTypeOK
<1>2. connections' \subseteq connections /\ \A d \in connections' : conn'[d].fd = conn[d].fd
  BY DEF Survivors, connections
<1>3. /\ Added = {} /\ Removed = connections \ connections'
      /\ Modified = {c \in connections' : interest'[c] # interest[c]}
  BY <1>1, <1>2, CallsAre
<1> DEFINE gone == {conn[c].fd : c \in Removed}
           S    == {e \in PollEntry : e.fd \notin gone}
<1>4. PICK s \in Seq(PollEntry) : s = entries  BY DEF BackendTypeOK
<1> DEFINE kept == Only(s, S)
<1>5. IF pc = "cleanup" THEN entries' = entries
      ELSE entries' = EPOLL_CTL_MOD(kept, AskedAnew)
  BY <1>3, <1>4 DEF DispatchStep, EpollCalls, EPOLL_CTL_DEL
<1>6. /\ DOMAIN AskedAnew = {conn[c].fd : c \in Modified}
      /\ \A c \in Modified : AskedAnew[conn[c].fd] = interest'[c]
  <2>1. ASSUME NEW c \in Modified PROVE AskedAnew[conn[c].fd] = interest'[c]
    <3>1. \A d \in Modified : conn[d].fd = conn[c].fd => d = c
      BY <1>2, <1>3 DEF EventDiscipline, LiveDescriptors
    <3>2. (CHOOSE d \in Modified : conn[d].fd = conn[c].fd) = c  BY <3>1
    <3> QED  BY <3>2 DEF AskedAnew
  <2> QED  BY <2>1 DEF AskedAnew
<1>7. \A f \in DOMAIN AskedAnew : AskedAnew[f] \in SUBSET EpollFlag
  BY <1>6 DEF Modified, TypeOK, ServerTypeOK
<1>8. /\ kept \in Seq(PollEntry)
      /\ Elements(kept) = Elements(s) \cap S
      /\ Distinct(s) => Distinct(kept)
  BY OnlyType, OnlyElements
<1> HIDE DEF kept
<1>9. entries' \in Seq(PollEntry)
  BY <1>4, <1>5, <1>7, <1>8, ModType
<1>10. BackendTypeOK'  BY <1>9, AddressType DEF BackendTypeOK
<1>11. ASSUME Running' PROVE Table'
  <2>1. Table /\ pc # "cleanup"  BY <1>11 DEF Running
  <2>2. entries' = EPOLL_CTL_MOD(kept, AskedAnew)  BY <1>5, <2>1
  <2>3. \A c \in connections : conn[c].fd \in gone <=> c \notin connections'
    BY <1>3 DEF EventDiscipline, LiveDescriptors
  <2>4. gone \subseteq Fd  BY <1>3 DEF EventDiscipline, LiveDescriptors
  <2>5. Elements(kept) = Fixed \cup {Row(c) : c \in connections'}
    <3>1. Elements(s) = Fixed \cup {Row(c) : c \in connections}  BY <1>4, <2>1 DEF Table
    <3>2. Elements(s) \subseteq PollEntry  BY ElementOfSeq DEF Elements
    <3>3. \A e \in Fixed : e \in S
      BY <2>4, <3>1, <3>2, ServerAssumption DEF Fixed, Entry
    <3>4. \A c \in connections : Row(c) \in S <=> c \in connections'
      BY <2>3, <3>1, <3>2 DEF Row, Entry
    <3> HIDE DEF S
    <3> QED  BY <1>2, <1>8, <3>1, <3>3, <3>4
  <2>6. Distinct(kept)  BY <1>4, <1>8, <2>1 DEF Table
  <2>7. \A i, j \in 1 .. Len(kept) : kept[i].fd = kept[j].fd => i = j
    <3> SUFFICES ASSUME NEW i \in 1 .. Len(kept), NEW j \in 1 .. Len(kept),
                        kept[i].fd = kept[j].fd
                 PROVE  i = j
      OBVIOUS
    <3>1. kept[i] \in Elements(kept) /\ kept[j] \in Elements(kept)  BY DEF Elements
    <3>2. /\ kept[i] \in Fixed \cup {Row(c) : c \in connections}
          /\ kept[j] \in Fixed \cup {Row(c) : c \in connections}
      BY <1>2, <2>5, <3>1
    <3>3. kept[i] = kept[j]  BY <3>2, OneEntry
    <3> QED  BY <2>6, <3>3 DEF Distinct
  <2> DEFINE new(e) == IF e.fd \in DOMAIN AskedAnew THEN Entry(e.fd, AskedAnew[e.fd]) ELSE e
  <2>8. Elements(entries') = {new(e) : e \in Elements(kept)} /\ Distinct(entries')
    BY <1>7, <1>8, <2>2, <2>7, ModType
  <2>9. ASSUME NEW c \in connections' PROVE new(Row(c)) = Row(c)'
    <3>1. Row(c).fd = conn[c].fd /\ conn'[c].fd = conn[c].fd
      BY <1>2, <2>9 DEF Row, Entry
    <3>2. CASE c \in Modified
      BY <1>6, <3>1, <3>2 DEF Row
    <3>3. CASE c \notin Modified
      <4>1. interest'[c] = interest[c]  BY <1>3, <2>9, <3>3
      <4>2. \A d \in Modified : conn[d].fd # conn[c].fd
        BY <1>2, <1>3, <2>9, <3>3 DEF EventDiscipline, LiveDescriptors
      <4>3. Row(c).fd \notin DOMAIN AskedAnew  BY <1>6, <3>1, <4>2
      <4> QED  BY <3>1, <4>1, <4>3 DEF Row
    <3> QED  BY <3>2, <3>3
  <2>10. ASSUME NEW e \in Fixed PROVE new(e) = e
    <3>1. DOMAIN AskedAnew \subseteq Fd
      BY <1>2, <1>3, <1>6 DEF EventDiscipline, LiveDescriptors
    <3>2. e.fd \notin Fd  BY <2>10, ServerAssumption DEF Fixed, Entry
    <3> QED  BY <3>1, <3>2
  <2> HIDE DEF new
  <2>11. Elements(entries') = Fixed \cup {Row(c)' : c \in connections'}
    BY <2>5, <2>8, <2>9, <2>10
  <2> QED  BY <2>8, <2>11 DEF Table, Fixed
<1> QED  BY <1>10, <1>11

-----------------------------------------------------------------------------
(* The inductive invariant.                                                 *)

BackendInv ==
    /\ Orderly /\ BackendTypeOK
    /\ Watching /\ WriteInterest
    /\ Running => Table

LEMMA BackendStarts == BackendInit => BackendInv
<1> SUFFICES ASSUME BackendInit PROVE BackendInv
  OBVIOUS
<1>1. Orderly /\ TypeOK  BY Started DEF BackendInit, Orderly, Base
<1>2. connections = {} /\ Watching
  BY DEF BackendInit, Init, connections, NoConnection, Watching, Asks
<1>3. WriteInterest  BY InitWrites DEF BackendInit
<1> DEFINE l == Entry(ListenFd, {"EPOLLIN"})
           i == Entry(StdinFd, {"EPOLLIN"})
<1>4. l \in PollEntry /\ i \in PollEntry  BY DEF Entry, PollEntry, EpollFlag
<1>5. l # i  BY ServerAssumption DEF Entry
<1>6. entries = <<l, i>>  BY DEF BackendInit
<1> HIDE DEF l, i
<1>7. entries \in Seq(PollEntry) /\ Len(entries) = 2 /\ entries[1] = l /\ entries[2] = i
  BY <1>4, <1>6
<1>8. BackendTypeOK
  BY <1>1, <1>7, BackendAssumption DEF BackendInit, BackendTypeOK
<1>9. Table
  <2>1. 1 .. Len(entries) = {1, 2}  BY <1>7
  <2>2. Elements(entries) = {l, i} /\ Distinct(entries)
    BY <1>5, <1>7, <2>1 DEF Elements, Distinct
  <2> QED  BY <1>2, <2>2 DEF Table, Fixed, l, i
<1> QED  BY <1>1, <1>2, <1>3, <1>8, <1>9 DEF BackendInv

LEMMA BackendStep ==
    ASSUME BackendInv, [BackendNext]_allVars
    PROVE  BackendInv' /\ RoomStep
<1>1. /\ Orderly /\ BackendTypeOK /\ TypeOK /\ EventDiscipline
      /\ Watching /\ WriteInterest /\ (Running => Table)
  BY DEF BackendInv, Orderly, Base
<1>2. ASSUME [Next]_vars
      PROVE  /\ Orderly' /\ RoomStep /\ TypeOK' /\ EventDiscipline'
             /\ Watching' /\ WriteInterest'
  <2>1. Orderly' /\ RoomStep  BY <1>1, <1>2, OrderlyStep
  <2>2. Watching' /\ WriteInterest'  BY <1>1, <1>2, AskStep, WriteStep
  <2> QED  BY <2>1, <2>2 DEF Orderly, Base
<1>3. ASSUME Orderly', RoomStep, UNCHANGED libraryVars,
             UNCHANGED <<conn, interest, server_closing>>
      PROVE  BackendInv'
  <2>1. TypeOK' /\ (Running' => Running)  BY <1>3, Loop DEF Orderly, Base
  <2>2. BackendTypeOK'  BY <1>1, <1>3, <2>1 DEF BackendTypeOK, libraryVars
  <2>3. Watching' /\ WriteInterest'  BY <1>1, <1>3, <2>1, IdleAsks, Idling
  <2>4. Running' => Table'
    BY <1>1, <1>3, <2>1
       DEF Table, Elements, Distinct, Fixed, Row, libraryVars, connections
  <2> QED  BY <1>3, <2>2, <2>3, <2>4 DEF BackendInv
<1>4. CASE UNCHANGED allVars
  BY <1>2, <1>3, <1>4 DEF allVars, vars, serverVars
<1>5. CASE NetworkNext /\ UNCHANGED libraryVars
  BY <1>2, <1>3, <1>5 DEF NetworkNext, Next, serverVars
<1>6. CASE WaitStep
  <2>1. UNCHANGED <<conn, interest, server_closing>> /\ UNCHANGED libraryVars
    BY <1>6 DEF WaitStep, poll_wait, epoll_wait
  <2>2. Orderly' /\ RoomStep
    BY <1>1, <1>2, <1>6, PollIdles DEF WaitStep, Next, ServerNext
  <2> QED  BY <1>3, <2>1, <2>2
<1>7. CASE DispatchStep
  <2>1. ServerNext  BY <1>7 DEF DispatchStep
  <2>2. /\ Orderly' /\ RoomStep /\ TypeOK' /\ EventDiscipline'
        /\ Watching' /\ WriteInterest'
    BY <1>2, <2>1 DEF Next
  <2>3. Running' => Running  BY <2>2, Loop
  <2>4. CASE Survivors
    <3>1. BackendTypeOK' /\ (Running' => Table')
      BY <1>1, <1>7, <2>2, <2>3, <2>4, DelStep
    <3> QED  BY <2>2, <3>1 DEF BackendInv
  <2>5. ASSUME NEW c \in Conn, AcceptOne(c) PROVE BackendInv'
    <3>1. Running  BY <2>5 DEF AcceptOne, Running
    <3>2. BackendTypeOK' /\ Table'
      BY <1>1, <1>7, <2>2, <2>5, <3>1, AddStep
    <3> QED  BY <2>2, <3>2 DEF BackendInv
  <2> QED  BY <1>1, <2>1, <2>2, <2>4, <2>5, ObjectStep
<1> QED  BY <1>4, <1>5, <1>6, <1>7 DEF BackendNext

(* Types of the server's and of the library's state, on both builds.        *)
THEOREM BackendTypes == BackendSpec => []BackendTypeOK
<1>1. BackendInit => BackendInv  BY BackendStarts
<1>2. BackendInv /\ [BackendNext]_allVars => BackendInv'  BY BackendStep
<1>3. BackendInv => BackendTypeOK  BY DEF BackendInv
<1> QED  BY <1>1, <1>2, <1>3, PTL DEF BackendSpec

(* The calls of epoll_register, epoll_fd_mod and epoll_fd_remove leave the  *)
(* table with the descriptors of the live connections, each once, however   *)
(* descriptors are given again, and with output asked for exactly where     *)
(* some is queued (server.cpp, the handlers; epoll.cpp, epoll_ctl).         *)
THEOREM TableIsRight == BackendSpec => []RegistrationsMatch
<1>1. BackendInit => BackendInv  BY BackendStarts
<1>2. BackendInv /\ [BackendNext]_allVars => BackendInv'  BY BackendStep
<1>3. BackendInv => RegistrationsMatch  BY TableIs DEF BackendInv, Orderly, Base
<1> QED  BY <1>1, <1>2, <1>3, PTL DEF BackendSpec

(* The cached lookup answers as an uncached one would, although addresses   *)
(* and descriptors are used again (server.cpp, get_connection_of).          *)
THEOREM LookupIsRight == BackendSpec => []LookupFindsOwner
<1>1. BackendInit => BackendInv  BY BackendStarts
<1>2. BackendInv /\ [BackendNext]_allVars => BackendInv'  BY BackendStep
<1>3. BackendInv => LookupFindsOwner  BY LookupIs DEF BackendInv, Orderly, Base
<1> QED  BY <1>1, <1>2, <1>3, PTL DEF BackendSpec

(* With either event library the server is the same chat room: a change of  *)
(* the build changes no conversation (epoll.cpp under server.cpp).          *)
THEOREM BackendKeepsRoom == BackendSpec => ImplementsRoom
<1>1. BackendInit => BackendInv /\ Room!RoomInit
  BY BackendStarts, RoomStarts DEF BackendInit
<1>2. BackendInv /\ [BackendNext]_allVars => BackendInv' /\ [Room!RoomNext]_(Room!roomVars)
  BY BackendStep, OrderlySociable, RoomSimulation DEF BackendInv, Orderly
<1> QED  BY <1>1, <1>2, PTL DEF BackendSpec, ImplementsRoom, Room!RoomSpec
=============================================================================
