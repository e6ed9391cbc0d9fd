-------------------------- MODULE ServerRoomProofs --------------------------
(***************************************************************************)
(* Proofs that the server keeps a chat room: the lines of a client appear  *)
(* in order, every member hears the same conversation, the server's steps  *)
(* are steps of the abstract room, and "/quit" leaves nothing unsent.      *)
(*                                                                         *)
(* The first part reduces every step of the server and of the remote       *)
(* programs to a few kinds, stated without descriptors, events and buffer  *)
(* indices (RoomStep); the rest starts from these.                         *)
(***************************************************************************)
EXTENDS ServerRoom, ServerStreamProofs

(* What c has sent and the server has not parsed.                           *)
Unparsed(c) == conn[c].in_buffer \o arrived[c]

Outside(c) == tcp[c] \in {"none", "queued"}
Active     == {c \in Conn : conn[c].state = "ACTIVE"}

(* Clients are accepted and read from while the room is open only; the end  *)
(* of a stream is seen while that stream is parsed; nothing is left of a     *)
(* deleted connection.                                                      *)
Places ==
    /\ server_closing => pc \notin {"accept", "parse"}
    /\ pc = "parse" => reader \in Conn /\ conn[reader].state \in {"ACTIVE", "CLOSED"}
    /\ Running => \A c \in Conn : conn[c].state = "CLOSED" => pc = "parse" /\ c = reader
    /\ \A c \in Conn : conn[c].state = "FREED" => conn[c] = NoConnection

-----------------------------------------------------------------------------
(* The kinds of steps.                                                      *)

Stays(c) ==
    /\ conn'[c].state = conn[c].state
    /\ Unparsed(c)' = Unparsed(c)
    /\ Outside(c)' <=> Outside(c)
    /\ sent'[c] = sent[c]

(* m is queued for the audience.                                            *)
Reaches(audience, m) ==
    \A d \in Conn : Stream(d)' = IF d \in audience THEN Append(Stream(d), m) ELSE Stream(d)

Hushed == \A d \in Conn : Stream(d)' = Stream(d)

(* The loop goes on.                                                        *)
GoesOn == Running /\ Running'
Calm   == UNCHANGED <<screen, server_closing, lines>>

Idles ==
    /\ UNCHANGED <<screen, server_closing>> /\ lines' >= lines
    /\ Running' <=> Running
    /\ Hushed /\ \A d \in Conn : Stays(d)
    /\ pc' = "cleanup" => pc = "cleanup" /\ UNCHANGED <<conn, wire>>

Accepts(c) ==
    /\ GoesOn /\ Calm /\ Hushed
    /\ Outside(c) /\ conn'[c].state = "WAITING_FOR_CLIENT_HELLO"
    /\ Unparsed(c)' = Unparsed(c) /\ ~Outside(c)' /\ sent'[c] = sent[c]
    /\ \A d \in Conn \ {c} : Stays(d)

(* What the server holds against c: its stream has ended, or the frame that *)
(* is parsed next is not what it expects.                                   *)
Usable(c, m) ==
    IF conn[c].state = "WAITING_FOR_CLIENT_HELLO" THEN AcceptableHello(m)
    ELSE /\ protocol_payload_length_is_legal(m.size)
         /\ m.type = "CHAT" \/ (m.type = "CLOSE_CON" /\ m.size = 0)

Faulty(c) ==
    fin[c] \/ rst[c] \/ (Unparsed(c) # <<>> /\ ~Usable(c, Head(Unparsed(c))))

(* The connection of c is deleted without a word.                           *)
Drops(c) ==
    /\ GoesOn /\ Calm /\ ~server_closing
    /\ conn[c].state \in {"WAITING_FOR_CLIENT_HELLO", "ACTIVE", "CLOSED"} /\ Faulty(c)
    /\ conn'[c].state = "FREED" /\ ~Outside(c)' /\ Unparsed(c)' = <<>>
    /\ \A d \in Conn \ {c} : Stays(d) /\ Stream(d)' = Stream(d)

(* The CLIENT_HELLO is parsed and answered.                                 *)
Greets(c) ==
    /\ GoesOn /\ Calm
    /\ conn[c].state = "WAITING_FOR_CLIENT_HELLO"
    /\ conn'[c].state = "SENDING_SERVER_HELLO"
    /\ Unparsed(c) # <<>> /\ Unparsed(c)' = Tail(Unparsed(c))
    /\ Head(Unparsed(c)).type = "CLIENT_HELLO"
    /\ ~Outside(c) /\ ~Outside(c)' /\ sent'[c] = sent[c]
    /\ Reaches({c}, ServerHello)
    /\ \A d \in Conn \ {c} : Stays(d)

(* Input of c is read, perhaps to the end of the stream.                    *)
ReadsFrom(c) ==
    /\ GoesOn /\ Calm /\ Hushed /\ ~server_closing
    /\ conn[c].state = "ACTIVE" /\ conn'[c].state \in {"ACTIVE", "CLOSED"}
    /\ conn'[c].state = "CLOSED" => fin[c]
    /\ Unparsed(c)' = Unparsed(c) /\ ~Outside(c) /\ ~Outside(c)' /\ sent'[c] = sent[c]
    /\ \A d \in Conn \ {c} : Stays(d)

(* The SERVER_HELLO is out.                                                 *)
Enters(c) ==
    /\ GoesOn /\ pc = "dispatch" /\ UNCHANGED <<server_closing, lines>>
    /\ conn[c].state = "SENDING_SERVER_HELLO" /\ conn'[c].state = "ACTIVE"
    /\ Unparsed(c)' = Unparsed(c) /\ ~Outside(c) /\ ~Outside(c)' /\ sent'[c] = sent[c]
    /\ \A d \in Conn \ {c} : Stays(d)
    /\ \E m \in Broadcasts :
         /\ m.says = [who |-> c, what |-> "connected", n |-> 0]
         /\ screen' = Append(screen, m.says)
         /\ Reaches(Active \cup {c}, m)

(* A line of c.                                                             *)
Speaks(c) ==
    /\ GoesOn /\ pc = "parse" /\ reader = c /\ UNCHANGED <<server_closing, lines>>
    /\ Unparsed(c) # <<>> /\ Unparsed(c)' = Tail(Unparsed(c))
    /\ Head(Unparsed(c)).type = "CHAT"
    /\ conn'[c].state = conn[c].state /\ ~Outside(c) /\ ~Outside(c)' /\ sent'[c] = sent[c]
    /\ \A d \in Conn \ {c} : Stays(d)
    /\ \E m \in Broadcasts :
         /\ m.says = Head(Unparsed(c)).says
         /\ screen' = Append(screen, m.says)
         /\ Reaches(Active \ {c}, m)

Leaves(c) ==
    /\ GoesOn /\ pc = "parse" /\ reader = c /\ UNCHANGED <<server_closing, lines>>
    /\ conn[c].state = "CLOSED" \/ (Unparsed(c) # <<>> /\ Head(Unparsed(c)).type = "CLOSE_CON")
    /\ conn'[c].state = "FREED" /\ ~Outside(c)' /\ Unparsed(c)' = <<>>
    /\ \A d \in Conn \ {c} : Stays(d)
    /\ \E m \in Broadcasts :
         /\ m.says = [who |-> c, what |-> "disconnected", n |-> 0]
         /\ screen' = Append(screen, m.says)
         /\ \A d \in Conn \ {c} :
              Stream(d)' = IF d \in Active THEN Append(Stream(d), m) ELSE Stream(d)

(* A line of the server's user, and his "/quit".                            *)
HostSpeaks ==
    /\ GoesOn /\ pc = "dispatch" /\ ~server_closing /\ UNCHANGED server_closing
    /\ lines' = lines + 1
    /\ \A d \in Conn : Stays(d)
    /\ \E m \in Broadcasts :
         /\ m.says = [who |-> Host, what |-> "chat", n |-> lines + 1]
         /\ screen' = Append(screen, m.says)
         /\ Reaches(Active, m)

Closes ==
    /\ GoesOn /\ pc = "dispatch" /\ ~server_closing /\ server_closing'
    /\ lines' >= lines
    /\ \A d \in Conn : Stays(d)
    /\ screen' = Append(screen, ClosingNotice.says)
    /\ \A d \in Conn :
         Stream(d)' = IF d \in Active
                      THEN Append(Append(Stream(d), ClosingNotice), CloseMessage)
                      ELSE Stream(d)

(* The loop ends.  The last thing that was said may not have been sent.     *)
Utters(u) ==
    \/ /\ u \in Utterance(Speaker) /\ u.n = 0
       /\ u.what \in {"connected", "disconnected", "closing"}
    \/ u = [who |-> Host, what |-> "chat", n |-> lines + 1] /\ lines' = lines + 1
    \/ \E c \in Conn :
         /\ conn[c].state \in {"ACTIVE", "CLOSED"}
         /\ Unparsed(c) # <<>> /\ Head(Unparsed(c)).type = "CHAT"
         /\ u = Head(Unparsed(c)).says

Stops ==
    /\ Running /\ pc' = "cleanup" /\ lines' >= lines
    /\ screen' = screen \/ \E u : Utters(u) /\ screen' = Append(screen, u)
    /\ server_closing' =>
         \/ \E c \in Conn : conn'[c].state = "CONNECTION_ERROR"
         \/ /\ \A c \in Conn : conn'[c].out_buffer = <<>>
            /\ \A c \in Conn : conn'[c].state = "ACTIVE" =>
                 server_closing /\ conn[c].state = "ACTIVE" /\ Stream(c)' = Stream(c)

Exits ==
    /\ pc = "cleanup" /\ pc' = "exited"
    /\ UNCHANGED <<screen, server_closing, lines>>

(* A remote program sends a frame.                                          *)
Sent(c) ==
    /\ Running' <=> Running
    /\ Calm /\ Hushed /\ UNCHANGED <<conn, wire>>
    /\ pc' = pc /\ sent[c] < MaxFrames /\ sent'[c] = sent[c] + 1
    /\ Outside(c)' <=> Outside(c)
    /\ \E m \in Msg :
         /\ m.says = [who |-> c, what |-> TopicOf(m.type), n |-> sent[c] + 1]
         /\ Unparsed(c)' = Append(Unparsed(c), m)
    /\ \A d \in Conn \ {c} : Stays(d)

RoomStep ==
    \/ Idles \/ HostSpeaks \/ Closes \/ Stops \/ Exits
    \/ \E c \in Conn : \/ Accepts(c) \/ Drops(c) \/ Greets(c) \/ ReadsFrom(c)
                       \/ Enters(c) \/ Speaks(c) \/ Leaves(c) \/ Sent(c)

-----------------------------------------------------------------------------
(* Objects and streams.                                                     *)

LEMMA StreamIs ==
    ASSUME NEW d \in Conn
    PROVE  /\ Stream(d) = StreamOf(wire[d], conn[d])
           /\ Stream(d)' = StreamOf(wire'[d], conn'[d])
  BY DEF Stream, StreamOf

LEMMA SameOutput ==
    ASSUME NEW w, NEW k, NEW k2,
           k2.out_buffer = k.out_buffer, k2.bytes_written = k.bytes_written
    PROVE  StreamOf(w, k2) = StreamOf(w, k)
  BY DEF StreamOf

LEMMA BroadcastSteps ==
    ASSUME NEW cs \in [Conn -> Connection], NEW sender, NEW m \in Msg,
           conn' = Broadcast(cs, sender, m),
           NEW d \in Conn, wire'[d] \in Seq(Msg), Good(wire'[d], cs[d])
    PROVE  /\ conn'[d].state = cs[d].state
           /\ conn'[d].in_buffer = cs[d].in_buffer
           /\ d \notin Recipients(cs, sender) => conn'[d] = cs[d]
           /\ Stream(d)' = IF d \in Recipients(cs, sender)
                           THEN Append(StreamOf(wire'[d], cs[d]), m)
                           ELSE StreamOf(wire'[d], cs[d])
<1>1. CASE d \in Recipients(cs, sender)
  <2>1. /\ conn'[d].state = cs[d].state
        /\ conn'[d].in_buffer = cs[d].in_buffer
        /\ conn'[d].bytes_written = cs[d].bytes_written
        /\ conn'[d].out_buffer = Append(cs[d].out_buffer, m)
    BY <1>1 DEF Broadcast, Queue, Connection
  <2>2. cs[d] \in Connection  OBVIOUS
  <2>3. StreamOf(wire'[d], conn'[d]) = Append(StreamOf(wire'[d], cs[d]), m)
    BY <2>1, <2>2, StreamGrows DEF Good
  <2> QED  BY <1>1, <2>1, <2>3, StreamIs
<1>2. CASE d \notin Recipients(cs, sender)
  BY <1>2, StreamIs DEF Broadcast, Queue
<1> QED  BY <1>1, <1>2

(* An action that fails to broadcast is refused.                            *)
LEMMA RefusalSteps ==
    ASSUME NEW cs \in [Conn -> Connection], NEW sender, RefuseBroadcast(cs, sender)
    PROVE  /\ pc' = "cleanup" /\ \E c \in Conn : conn'[c].state = "CONNECTION_ERROR"
           /\ \A d \in Conn : conn'[d].state = "FREED" => conn'[d] = cs[d]
<1>1. PICK c \in Conn : conn' = [cs EXCEPT ![c].state = "CONNECTION_ERROR"]
  BY DEF RefuseBroadcast, Recipients
<1>2. conn'[c].state = "CONNECTION_ERROR" /\ \A d \in Conn \ {c} : conn'[d] = cs[d]
  BY <1>1 DEF Connection
<1>3. \A d \in Conn : conn'[d].state = "FREED" => conn'[d] = cs[d]
  BY <1>2
<1> QED  BY <1>2, <1>3 DEF RefuseBroadcast

LEMMA Staying ==
    ASSUME NEW d \in Conn, conn'[d].state = conn[d].state,
           conn'[d].in_buffer = conn[d].in_buffer, arrived'[d] = arrived[d],
           Outside(d)' <=> Outside(d), sent'[d] = sent[d]
    PROVE  Stays(d)
  BY DEF Stays, Unparsed

LEMMA PlacesStop ==
    ASSUME Places, pc' \in {"cleanup", "exited"},
           \A d \in Conn : conn'[d].state = "FREED" =>
               conn'[d] = conn[d] \/ conn'[d] = NoConnection
    PROVE  Places'
  BY DEF Places, Running

LEMMA PlacesKept ==
    ASSUME Places, pc' \in {"wait", "dispatch", "accept"},
           pc' = "accept" => ~server_closing',
           \A d \in Conn : /\ conn'[d].state # "CLOSED"
                           /\ conn'[d].state = "FREED" =>
                                conn'[d] = conn[d] \/ conn'[d] = NoConnection
    PROVE  Places'
  BY DEF Places, Running

(* Outside the parse loop no stream is known to have ended.                 *)
LEMMA NoneClosed ==
    ASSUME Places, Running, pc # "parse", NEW d \in Conn
    PROVE  conn[d].state # "CLOSED"
  BY DEF Places

(* A step that fails, and one that ends the loop while the room is open.    *)
LEMMA FailureStops ==
    ASSUME Running, pc' = "cleanup", lines' >= lines,
           screen' = screen \/ \E u : Utters(u) /\ screen' = Append(screen, u),
           ~server_closing' \/ \E c \in Conn : conn'[c].state = "CONNECTION_ERROR"
    PROVE  Stops
  BY DEF Stops

LEMMA IdleStep ==
    ASSUME UNCHANGED <<screen, server_closing, sent, conn, wire, arrived>>,
           lines' >= lines, Running' <=> Running,
           \A d \in Conn : Outside(d)' <=> Outside(d),
           pc' = "cleanup" => pc = "cleanup"
    PROVE  Idles
  BY DEF Idles, Hushed, Stays, Stream, Unparsed

LEMMA Lines == TypeOK => lines \in Nat /\ lines >= lines /\ lines + 1 >= lines
  BY DEF TypeOK, ServerTypeOK

LEMMA InsideKept ==
    ASSUME TypeOK, NEW cs, CloseSockets(cs), NEW d \in Conn \ cs
    PROVE  (Outside(d)' <=> Outside(d)) /\ arrived'[d] = arrived[d]
  BY DEF CloseSockets, Outside

LEMMA Objects ==
    ASSUME TypeOK, Greeting, NEW d \in Conn
    PROVE  /\ conn[d] \in Connection /\ wire[d] \in Seq(Msg) /\ Good(wire[d], conn[d])
           /\ arrived[d] \in Seq(Msg) /\ conn[d].in_buffer \in Seq(Msg)
           /\ Unparsed(d) \in Seq(Msg)
  BY Told, ConnectionFields, ConcatProperties DEF TypeOK, SocketsTypeOK, Greeting, Unparsed

LEMMA Inside ==
    ASSUME EventDiscipline, NEW d \in Conn, conn[d].state # "FREED"
    PROVE  ~Outside(d)
  BY DEF EventDiscipline, LiveDescriptors, connections, Outside

LEMMA NothingLeft == <<>> \o <<>> = <<>>
  OBVIOUS

LEMMA Deleted ==
    /\ NoConnection.state = "FREED" /\ NoConnection.out_buffer = <<>>
    /\ NoConnection.bytes_written = 0 /\ NoConnection.in_buffer = <<>>
  BY DEF NoConnection

-----------------------------------------------------------------------------
(* The actions, one by one.                                                 *)

LEMMA LoopSteps ==
    ASSUME TypeOK, Places, epoll_wait \/ (\E e \in batch : SkipEvent(e)) \/ EndOfBatch
    PROVE  (Idles \/ Stops) /\ Places'
<1>0. lines' >= lines  BY Lines DEF epoll_wait, SkipEvent, EndOfBatch, userVars
<1>1. CASE epoll_wait \/ \E e \in batch : SkipEvent(e)
  <2>1. Idles
    BY <1>0, <1>1, IdleStep DEF epoll_wait, SkipEvent, sockVars, Running, Outside
  <2>2. UNCHANGED <<conn, server_closing>> /\ pc' = "dispatch" /\ Running /\ pc # "parse"
    BY <1>1 DEF epoll_wait, SkipEvent, Running
  <2> QED  BY <2>1, <2>2, PlacesKept, NoneClosed
<1>2. CASE EndOfBatch /\ pc' = "wait"
  <2>1. Idles  BY <1>0, <1>2, IdleStep DEF EndOfBatch, sockVars, Running, Outside
  <2>2. UNCHANGED <<conn, server_closing>> /\ Running /\ pc # "parse"
    BY <1>2 DEF EndOfBatch, Running
  <2> QED  BY <1>2, <2>1, <2>2, PlacesKept, NoneClosed
<1>3. CASE EndOfBatch /\ pc' # "wait"
  <2>1. /\ Running /\ pc' = "cleanup" /\ UNCHANGED <<screen, conn, wire>>
        /\ server_closing /\ \A c \in Conn : conn[c].out_buffer = <<>>
    BY <1>3 DEF EndOfBatch, all_connection_buffers_empty, sockVars, Running
  <2> QED  BY <1>0, <2>1, PlacesStop DEF Stops, Stream
<1> QED  BY <1>1, <1>2, <1>3

LEMMA AcceptSteps ==
    ASSUME TypeOK, EventDiscipline, Greeting, Places, AcceptNext
    PROVE  (Idles \/ Stops \/ \E c \in Conn : Accepts(c)) /\ Places'
<1>0. lines' >= lines
  BY Lines DEF AcceptNext, handle_accept_client_connection_event, AcceptOne, AcceptAborted,
               AcceptNotWatched, AcceptLost, AcceptDone, AcceptWithoutDescriptor, userVars
<1>1. CASE \E e \in batch : handle_accept_client_connection_event(e)
  <2>1. Idles
    BY <1>0, <1>1, IdleStep
       DEF handle_accept_client_connection_event, sockVars, Running, Outside
  <2>2. /\ UNCHANGED <<conn, server_closing>> /\ pc = "dispatch" /\ pc' = "accept"
        /\ ~server_closing
    BY <1>1 DEF handle_accept_client_connection_event, event_is_accept_client_connection
  <2> QED  BY <2>1, <2>2, PlacesKept, NoneClosed DEF Running
<1>2. CASE AcceptDone
  <2>1. Idles  BY <1>0, <1>2, IdleStep DEF AcceptDone, sockVars, Running, Outside
  <2>2. UNCHANGED <<conn, server_closing>> /\ pc = "accept" /\ pc' = "dispatch"
    BY <1>2 DEF AcceptDone
  <2> QED  BY <2>1, <2>2, PlacesKept, NoneClosed DEF Running
<1>3. ASSUME AcceptWithoutDescriptor \/ \E c \in Conn : AcceptAborted(c) \/ AcceptNotWatched(c)
      PROVE  Stops /\ Places'
  <2>1. /\ pc = "accept" /\ pc' = "cleanup" /\ UNCHANGED <<screen, server_closing, conn>>
    BY <1>3 DEF AcceptWithoutDescriptor, AcceptAborted, AcceptNotWatched, AcceptLost
  <2> QED  BY <1>0, <2>1, FailureStops, PlacesStop DEF Places, Running
<1>4. ASSUME NEW c \in Conn, AcceptOne(c) PROVE Accepts(c) /\ Places'
  <2>1. PICK f \in FreeFds : conn' = [conn EXCEPT ![c] = NewConnection(f)]
    BY <1>4 DEF AcceptOne
  <2>2. /\ conn'[c].out_buffer = <<>> /\ conn'[c].bytes_written = 0
        /\ conn'[c].state = "WAITING_FOR_CLIENT_HELLO" /\ conn'[c].in_buffer = <<>>
    BY <2>1, Told DEF NewConnection, NoConnection
  <2>3. \A d \in Conn \ {c} : conn'[d] = conn[d]  BY <2>1, Told
  <2>4. /\ tcp[c] = "queued" /\ UNCHANGED <<arrived, wire, sent>> /\ Running /\ Running'
        /\ UNCHANGED <<screen, server_closing, lines>> /\ pc = "accept" /\ pc' = "accept"
        /\ tcp' = [tcp EXCEPT ![c] = "accepted"]
    BY <1>4 DEF AcceptOne, remoteVars, userVars, Running
  <2>5. Outside(c) /\ conn[c] = NoConnection
    BY <2>4 DEF EventDiscipline, LiveDescriptors, connections, Outside, Places
  <2>6. Stream(c)' = Stream(c)  BY <2>2, <2>4, <2>5, Deleted, SameOutput, StreamIs
  <2>7. ~Outside(c)' /\ \A d \in Conn \ {c} : Outside(d)' <=> Outside(d)
    BY <2>4 DEF Outside, TypeOK, SocketsTypeOK
  <2>8. \A d \in Conn \ {c} : Stays(d) /\ Stream(d)' = Stream(d)
    <3> TAKE d \in Conn \ {c}
    <3>1. conn'[d] = conn[d] /\ UNCHANGED <<arrived, wire, sent>> /\ (Outside(d)' <=> Outside(d))
      BY <2>3, <2>4, <2>7
    <3> QED  BY <3>1, Staying, StreamIs
  <2>9. Unparsed(c)' = Unparsed(c)  BY <2>2, <2>4, <2>5, Deleted DEF Unparsed
  <2>10. Accepts(c)
    BY <2>2, <2>4, <2>5, <2>6, <2>7, <2>8, <2>9 DEF Accepts, GoesOn, Calm, Hushed
  <2>11. \A d \in Conn : conn'[d].state # "CLOSED"
    BY <2>2, <2>3, <2>4, NoneClosed
  <2>12. Places'
    BY <2>2, <2>3, <2>4, <2>11, PlacesKept DEF Places
  <2> QED  BY <2>10, <2>12
<1> QED  BY <1>1, <1>2, <1>3, <1>4 DEF AcceptNext

LEMMA RemoveSteps ==
    ASSUME TypeOK, NEW c \in Conn, remove_connection(c), UNCHANGED <<wire, sent>>,
           GoesOn, Calm, ~server_closing, Faulty(c),
           conn[c].state \in {"WAITING_FOR_CLIENT_HELLO", "ACTIVE", "CLOSED"}
    PROVE  Drops(c) /\ conn'[c] = NoConnection /\ \A d \in Conn \ {c} : conn'[d] = conn[d]
<1>1. conn'[c] = NoConnection /\ \A d \in Conn \ {c} : conn'[d] = conn[d]
  BY Told DEF remove_connection
<1>2. ~Outside(c)' /\ Unparsed(c)' = <<>>
  <2>1. tcp'[c] = "closed" /\ arrived'[c] = <<>>  BY DEF remove_connection, CloseSockets
  <2> QED  BY <1>1, <2>1, Deleted, NothingLeft DEF Outside, Unparsed
<1>3. \A d \in Conn \ {c} : Stays(d) /\ Stream(d)' = Stream(d)
  <2> TAKE d \in Conn \ {c}
  <2>1. (Outside(d)' <=> Outside(d)) /\ arrived'[d] = arrived[d]
    BY InsideKept DEF remove_connection
  <2> QED  BY <1>1, <2>1, Staying, StreamIs
<1> QED  BY <1>1, <1>2, <1>3, Deleted DEF Drops

(* What is read moves from the kernel to the buffer.                        *)
LEMMA ReadMoves ==
    ASSUME TypeOK, NEW c \in Conn, NEW k \in ReadSizes(c)
    PROVE  InputAfter(c, k) \o ArrivedAfter(c, k) = Unparsed(c)
<1>1. PICK a \in Seq(Msg) : a = arrived[c]  BY DEF TypeOK, SocketsTypeOK
<1>2. PICK b \in Seq(Msg) : b = conn[c].in_buffer  BY ConnType, ConnectionFields
<1>3. Len(a) \in Nat  BY LenProperties
<1>4. k \in 0 .. Len(a)  BY <1>1, <1>3 DEF ReadSizes
<1> DEFINE x == SubSeq(a, 1, k)
           y == SubSeq(a, k + 1, Len(a))
<1>5. x \o y = SubSeq(a, 1, Len(a))
  <2>1. 1 \in 1 .. Len(a) + 1 /\ k \in 1 - 1 .. Len(a) /\ Len(a) \in k .. Len(a)
    BY <1>3, <1>4
  <2> QED  BY <2>1, ConcatAdjacentSubSeq
<1>6. SubSeq(a, 1, Len(a)) = a
  <2>1. \A i \in 1 .. Len(a) : a[i] \in Msg  BY ElementOfSeq
  <2>2. 1 \in Int /\ Len(a) \in Int  BY <1>3
  <2> DEFINE z == SubSeq(a, 1, Len(a))
  <2>3. /\ z \in Seq(Msg) /\ Len(z) = IF 1 <= Len(a) THEN Len(a) - 1 + 1 ELSE 0
        /\ \A i \in 1 .. Len(a) - 1 + 1 : z[i] = a[1 + i - 1]
    BY <2>1, <2>2, SubSeqProperties
  <2> HIDE DEF z
  <2>4. Len(z) = Len(a)  BY <1>3, <2>3
  <2>5. \A i \in 1 .. Len(z) : z[i] = a[i]  BY <1>3, <2>3, <2>4
  <2>6. z = a  BY <2>3, <2>4, <2>5, SeqEqual
  <2> QED  BY <2>6 DEF z
<1>7. x \in Seq(Msg) /\ y \in Seq(Msg)
  <2>1. \A i \in 1 .. Len(a) : a[i] \in Msg  BY ElementOfSeq
  <2>2. /\ 1 \in Int /\ k \in Int /\ k + 1 \in Int /\ Len(a) \in Int
        /\ \A i \in 1 .. k : a[i] \in Msg
        /\ \A i \in k + 1 .. Len(a) : a[i] \in Msg
    BY <1>3, <1>4, <2>1
  <2> QED  BY <2>2, SubSeqProperties
<1>8. InputAfter(c, k) = b \o x /\ ArrivedAfter(c, k) = y /\ Unparsed(c) = b \o a
  BY <1>1, <1>2 DEF InputAfter, ArrivedAfter, Unparsed
<1> HIDE DEF x, y
<1>9. (b \o x) \o y = b \o (x \o y)  BY <1>7, ConcatAssociative
<1> QED  BY <1>5, <1>6, <1>8, <1>9

(* The first frame is taken off the front.                                  *)
LEMMA TailMoves ==
    ASSUME NEW s \in Seq(Msg), NEW t \in Seq(Msg), s # <<>>
    PROVE  /\ s \o t # <<>> /\ Head(s \o t) = Head(s) /\ Tail(s \o t) = Tail(s) \o t
           /\ Tail(s) \in Seq(Msg) /\ Head(s) \in Msg
<1>1. /\ Head(s) \in Msg /\ Tail(s) \in Seq(Msg) /\ Len(Tail(s)) = Len(s) - 1
      /\ \A i \in 1 .. Len(Tail(s)) : Tail(s)[i] = s[i + 1]
  BY HeadTailProperties
<1>2. Len(s) \in Nat /\ Len(t) \in Nat /\ Len(s) # 0  BY LenProperties, EmptySeq
<1> DEFINE u == s \o t
           r == Tail(s)
           v == r \o t
<1>3. /\ u \in Seq(Msg) /\ Len(u) = Len(s) + Len(t)
      /\ \A i \in 1 .. Len(s) + Len(t) : u[i] = IF i <= Len(s) THEN s[i] ELSE t[i - Len(s)]
  BY ConcatProperties
<1> HIDE DEF r
<1>a. r \in Seq(Msg)  BY <1>1 DEF r
<1>4. /\ v \in Seq(Msg) /\ Len(v) = Len(r) + Len(t)
      /\ \A i \in 1 .. Len(r) + Len(t) : v[i] = IF i <= Len(r) THEN r[i] ELSE t[i - Len(r)]
  BY <1>a, ConcatProperties
<1> HIDE DEF u, v
<1>5. u # <<>>  BY <1>2, <1>3, EmptySeq
<1> DEFINE w == Tail(u)
<1>6. /\ w \in Seq(Msg) /\ Len(w) = Len(u) - 1
      /\ \A i \in 1 .. Len(w) : w[i] = u[i + 1]
  BY <1>3, <1>5, HeadTailProperties
<1>7. Head(u) = Head(s)
  <2>1. Head(u) = u[1] /\ Head(s) = s[1]  BY <1>3, <1>5
  <2>2. 1 \in 1 .. Len(s) + Len(t) /\ 1 <= Len(s)  BY <1>2
  <2> QED  BY <1>3, <2>1, <2>2
<1> HIDE DEF w
<1>b. Len(r) = Len(s) - 1 /\ \A i \in 1 .. Len(r) : r[i] = s[i + 1]  BY <1>1 DEF r
<1>8. Len(w) = Len(v)  BY <1>2, <1>3, <1>4, <1>6, <1>b
<1>9. ASSUME NEW i \in 1 .. Len(w) PROVE w[i] = v[i]
  <2>1. i \in 1 .. Len(s) + Len(t) - 1 /\ w[i] = u[i + 1]  BY <1>2, <1>3, <1>6
  <2>2. i + 1 \in 1 .. Len(s) + Len(t) /\ i \in 1 .. Len(r) + Len(t)  BY <1>2, <1>b, <2>1
  <2>3. CASE i <= Len(r)
    <3>1. i + 1 <= Len(s) /\ i \in 1 .. Len(r)  BY <1>2, <1>b, <2>1, <2>3
    <3> QED  BY <1>3, <1>4, <1>b, <2>1, <2>2, <2>3, <3>1
  <2>4. CASE ~(i <= Len(r))
    <3>1. ~(i + 1 <= Len(s)) /\ i + 1 - Len(s) = i - Len(r)  BY <1>2, <1>b, <2>1, <2>4
    <3>2. u[i + 1] = t[i + 1 - Len(s)]  BY <1>3, <2>2, <3>1
    <3>3. v[i] = t[i - Len(r)]  BY <1>4, <2>2, <2>4
    <3> QED  BY <2>1, <3>1, <3>2, <3>3
  <2> QED  BY <2>3, <2>4
<1>10. w = v  BY <1>4, <1>6, <1>8, <1>9, SeqEqual
<1> QED  BY <1>1, <1>5, <1>7, <1>10 DEF u, v, w, r

LEMMA HandshakeSteps ==
    ASSUME TypeOK, EventDiscipline, Greeting, Places,
           NEW e \in batch, NEW c \in Conn, HandshakeNext(e, c)
    PROVE  (Idles \/ Stops \/ Drops(c) \/ Greets(c)) /\ Places'
<1>1. HelloEvent(e, c)
  BY DEF HandshakeNext, HelloIncomplete, HelloRejected, HelloAccepted
<1>2. /\ Running /\ pc = "dispatch" /\ conn[c].state = "WAITING_FOR_CLIENT_HELLO"
      /\ ~server_closing /\ UNCHANGED <<screen, server_closing, lines>>
  BY <1>1 DEF HelloEvent, Running, event_is_receive_client_hello, userVars
<1>3. lines' >= lines /\ \A d \in Conn : conn[d].state # "CLOSED"
  BY <1>2, Lines, NoneClosed
<1>4. CASE HelloIncomplete(e, c)
  <2>1. Idles  BY <1>2, <1>3, <1>4, IdleStep DEF HelloIncomplete, sockVars, Running, Outside
  <2>2. UNCHANGED conn /\ pc' = "dispatch"  BY <1>2, <1>4 DEF HelloIncomplete
  <2> QED  BY <1>3, <2>1, <2>2, PlacesKept
<1>5. CASE HelloRejected(e, c)
  <2>1. remove_connection(c) /\ UNCHANGED <<wire, sent>> /\ pc' = "dispatch"
    BY <1>2, <1>5 DEF HelloRejected, remoteVars
  <2>2. GoesOn /\ Calm  BY <1>2, <2>1 DEF GoesOn, Calm, Running
  <2>a. Faulty(c)
    <3>1. CASE rst[c]  BY <3>1 DEF Faulty
    <3>2. ASSUME NEW k \in ReadSizes(c), InputAfter(c, k) = <<>>, EofAfter(c, k)
          PROVE  Faulty(c)
      BY <3>2 DEF Faulty, EofAfter
    <3>3. ASSUME NEW k \in ReadSizes(c), InputAfter(c, k) # <<>>,
                 ~AcceptableHello(Head(InputAfter(c, k)))
          PROVE  Faulty(c)
      <4>1. InputAfter(c, k) \in Seq(Msg) /\ ArrivedAfter(c, k) \in Seq(Msg)  BY InputType
      <4>2. Unparsed(c) # <<>> /\ Head(Unparsed(c)) = Head(InputAfter(c, k))
        BY <3>3, <4>1, ReadMoves, TailMoves
      <4> QED  BY <1>2, <3>3, <4>2 DEF Faulty, Usable
    <3> QED  BY <1>5, <3>1, <3>2, <3>3 DEF HelloRejected
  <2>3. Drops(c) /\ conn'[c] = NoConnection /\ \A d \in Conn \ {c} : conn'[d] = conn[d]
    BY <1>2, <2>1, <2>2, <2>a, RemoveSteps
  <2> QED  BY <1>3, <2>1, <2>3, PlacesKept, Deleted
<1>6. CASE HelloAccepted(e, c)
  <2> DEFINE named(i) == Named(c, InputAfter(c, i))
  <2>1. PICK i \in ReadSizes(c) :
          /\ InputAfter(c, i) # <<>> /\ AcceptableHello(Head(InputAfter(c, i)))
          /\ arrived' = [arrived EXCEPT ![c] = ArrivedAfter(c, i)]
          /\ IF protocol_payload_length_is_legal(server_name)
             THEN /\ conn' = [Queue(named(i), {c}, ServerHello)
                               EXCEPT ![c].state = "SENDING_SERVER_HELLO"]
                  /\ pc' = pc
             ELSE /\ conn' = [named(i) EXCEPT ![c].state = "CONNECTION_ERROR"]
                  /\ pc' = "cleanup"
    BY <1>6 DEF HelloAccepted
  <2>2. named(i) \in [Conn -> Connection]  BY <2>1, InputType, NamedType
  <2>3. /\ \A d \in Conn : /\ named(i)[d].out_buffer = conn[d].out_buffer
                           /\ named(i)[d].bytes_written = conn[d].bytes_written
                           /\ d # c => named(i)[d] = conn[d]
        /\ named(i)[c].in_buffer = Tail(InputAfter(c, i))
    BY Told DEF Named, Connection
  <2>4. UNCHANGED <<wire, tcp, sent>>  BY <1>6 DEF HelloAccepted, remoteVars
  <2>5. ServerHello \in Msg
    BY DEF ServerHello, TypeOK, ServerTypeOK, Msg, Message, MessageType, Utterance,
           Topic, Speaker
  <2>6. /\ arrived'[c] = ArrivedAfter(c, i)
        /\ \A d \in Conn \ {c} : arrived'[d] = arrived[d]
    BY <2>1 DEF TypeOK, SocketsTypeOK
  <2> HIDE DEF named
  <2>7. CASE protocol_payload_length_is_legal(server_name)
    <3> DEFINE queued == Queue(named(i), {c}, ServerHello)
    <3>1. queued \in [Conn -> Connection]  BY <2>2, <2>5, QueueType
    <3>2. conn' = [queued EXCEPT ![c].state = "SENDING_SERVER_HELLO"] /\ pc' = "dispatch"
      BY <1>2, <2>1, <2>7
    <3>3. \A d \in Conn \ {c} : queued[d] = conn[d]  BY <2>3 DEF Queue
    <3>4. /\ queued[c].out_buffer = Append(conn[c].out_buffer, ServerHello)
          /\ queued[c].bytes_written = conn[c].bytes_written
          /\ queued[c].in_buffer = Tail(InputAfter(c, i))
      BY <2>2, <2>3 DEF Queue, Connection
    <3> HIDE DEF queued
    <3>5. \A d \in Conn \ {c} : conn'[d] = conn[d]  BY <3>1, <3>2, <3>3
    <3>6. /\ conn'[c].out_buffer = Append(conn[c].out_buffer, ServerHello)
          /\ conn'[c].bytes_written = conn[c].bytes_written
          /\ conn'[c].in_buffer = Tail(InputAfter(c, i))
          /\ conn'[c].state = "SENDING_SERVER_HELLO"
      BY <3>1, <3>2, <3>4 DEF Connection
    <3>7. /\ Unparsed(c) # <<>> /\ Unparsed(c)' = Tail(Unparsed(c))
          /\ Head(Unparsed(c)).type = "CLIENT_HELLO"
      <4>1. InputAfter(c, i) \in Seq(Msg) /\ ArrivedAfter(c, i) \in Seq(Msg)
        BY InputType
      <4>2. Unparsed(c) = InputAfter(c, i) \o ArrivedAfter(c, i)  BY ReadMoves
      <4>3. Unparsed(c)' = Tail(InputAfter(c, i)) \o ArrivedAfter(c, i)
        BY <2>6, <3>6 DEF Unparsed
      <4>4. Head(InputAfter(c, i)).type = "CLIENT_HELLO"  BY <2>1 DEF AcceptableHello
      <4> QED  BY <2>1, <4>1, <4>2, <4>3, <4>4, TailMoves, SMTT(30)
    <3>8. Stream(c)' = Append(Stream(c), ServerHello)
      <4>1. /\ conn[c] \in Connection /\ wire[c] \in Seq(Msg)
            /\ conn[c].bytes_written <= Len(conn[c].out_buffer)
        BY Objects DEF Good
      <4>2. StreamOf(wire[c], conn'[c]) = Append(StreamOf(wire[c], conn[c]), ServerHello)
        BY <2>5, <3>6, <4>1, StreamGrows
      <4> QED  BY <2>4, <4>2, StreamIs
    <3>9. \A d \in Conn \ {c} : Stays(d) /\ Stream(d)' = Stream(d)
      BY <2>4, <2>6, <3>5, Staying, StreamIs DEF Outside
    <3>10. ~Outside(c) /\ ~Outside(c)'  BY <1>2, <2>4, Inside DEF Outside
    <3>11. Greets(c)
      BY <1>2, <2>4, <3>2, <3>6, <3>7, <3>8, <3>9, <3>10
         DEF Greets, GoesOn, Calm, Running, Reaches
    <3> QED  BY <1>3, <3>2, <3>5, <3>6, <3>11, PlacesKept
  <2>8. CASE ~protocol_payload_length_is_legal(server_name)
    <3>1. /\ conn'[c].state = "CONNECTION_ERROR"
          /\ \A d \in Conn \ {c} : conn'[d] = conn[d]
          /\ pc' = "cleanup"
      BY <2>1, <2>2, <2>3, <2>8 DEF Connection
    <3> QED  BY <1>2, <1>3, <3>1, FailureStops, PlacesStop
  <2> QED  BY <2>7, <2>8
<1> QED  BY <1>4, <1>5, <1>6 DEF HandshakeNext

LEMMA ReadSteps ==
    ASSUME TypeOK, EventDiscipline, Greeting, Places,
           NEW e \in batch, NEW c \in Conn, ReadNext(e, c)
    PROVE  (Drops(c) \/ ReadsFrom(c)) /\ Places'
<1>1. /\ Running /\ pc = "dispatch" /\ conn[c].state = "ACTIVE"
      /\ ~server_closing /\ UNCHANGED <<screen, server_closing, lines>>
  BY DEF ReadNext, ReadFails, ReadInput, ReadEvent, Running, event_is_read_network_package,
         userVars
<1>2. \A d \in Conn : conn[d].state # "CLOSED"  BY <1>1, NoneClosed
<1>3. CASE ReadFails(e, c)
  <2>1. remove_connection(c) /\ UNCHANGED <<wire, sent>> /\ pc' = "dispatch"
    BY <1>1, <1>3 DEF ReadFails, remoteVars
  <2>2. GoesOn /\ Calm  BY <1>1, <2>1 DEF GoesOn, Calm, Running
  <2>3. Faulty(c)  BY <1>3 DEF ReadFails, Faulty
  <2>4. Drops(c) /\ conn'[c] = NoConnection /\ \A d \in Conn \ {c} : conn'[d] = conn[d]
    BY <1>1, <2>1, <2>2, <2>3, RemoveSteps
  <2> QED  BY <1>2, <2>1, <2>4, PlacesKept, Deleted
<1>4. CASE ReadInput(e, c)
  <2>1. PICK k \in ReadSizes(c) :
          /\ conn' = [conn EXCEPT ![c].in_buffer = InputAfter(c, k),
                                  ![c].state = IF EofAfter(c, k) THEN "CLOSED" ELSE @]
          /\ arrived' = [arrived EXCEPT ![c] = ArrivedAfter(c, k)]
    BY <1>4 DEF ReadInput
  <2>2. /\ conn'[c].in_buffer = InputAfter(c, k)
        /\ conn'[c].out_buffer = conn[c].out_buffer
        /\ conn'[c].bytes_written = conn[c].bytes_written
        /\ conn'[c].state \in {"ACTIVE", "CLOSED"}
        /\ conn'[c].state = "CLOSED" => fin[c]
        /\ \A d \in Conn \ {c} : conn'[d] = conn[d]
    BY <1>1, <2>1, Told DEF Connection, EofAfter
  <2>3. /\ arrived'[c] = ArrivedAfter(c, k)
        /\ \A d \in Conn \ {c} : arrived'[d] = arrived[d]
    BY <2>1 DEF TypeOK, SocketsTypeOK
  <2>4. UNCHANGED <<wire, tcp, sent>> /\ pc' = "parse" /\ reader' = c
    BY <1>4 DEF ReadInput, remoteVars
  <2>5. Unparsed(c)' = Unparsed(c)  BY <2>2, <2>3, ReadMoves DEF Unparsed
  <2>6. \A d \in Conn : Stream(d)' = Stream(d)
    BY <2>2, <2>4, SameOutput, StreamIs
  <2>7. \A d \in Conn \ {c} : Stays(d)  BY <2>2, <2>3, <2>4, Staying DEF Outside
  <2>8. ~Outside(c) /\ ~Outside(c)'  BY <1>1, <2>4, Inside DEF Outside
  <2>9. ReadsFrom(c)
    BY <1>1, <2>2, <2>4, <2>5, <2>6, <2>7, <2>8 DEF ReadsFrom, GoesOn, Calm, Hushed, Running
  <2>10. Places'
    BY <1>1, <1>2, <2>2, <2>4 DEF Places, Running
  <2> QED  BY <2>9, <2>10
<1> QED  BY <1>3, <1>4 DEF ReadNext

LEMMA Broadcasting ==
    ASSUME NEW m \in Msg, m.type = "BROADCAST"
    PROVE  m \in Broadcasts
  BY DEF Broadcasts

LEMMA NoticeSays ==
    ASSUME NEW c, NEW what, NEW n
    PROVE  Notice(c, what, n).says = [who |-> c, what |-> what, n |-> 0]
  BY DEF Notice, format_broadcast_message, ChatMessage

LEMMA ParseSteps ==
    ASSUME TypeOK, EventDiscipline, Greeting, Places, NEW c \in Conn, ParseNext(c)
    PROVE  (Idles \/ Stops \/ Drops(c) \/ Speaks(c) \/ Leaves(c)) /\ Places'
<1>1. /\ pc = "parse" /\ reader = c /\ Running /\ ~server_closing
      /\ UNCHANGED <<server_closing, lines, wire, sent>>
      /\ conn[c].state \in {"ACTIVE", "CLOSED"}
      /\ \A d \in Conn : conn[d].state = "CLOSED" => d = c
  BY DEF ParseNext, ParseNothing, ParseRejects, ParseLeave, ParseChat, Parsing, Running,
         Places, userVars, remoteVars, sockVars
<1>2. lines' >= lines /\ ~Outside(c)  BY <1>1, Lines, Inside
<1>3. /\ conn \in [Conn -> Connection] /\ conn[c].in_buffer \in Seq(Msg)
      /\ \A d \in Conn : wire'[d] \in Seq(Msg) /\ Good(wire'[d], conn[d])
  BY <1>1, Told, Objects
<1>4. \A s : Recipients(conn, s) = Active \ {s}  BY DEF Recipients, Active
<1>5. CASE ParseNothing(c)
  <2>1. /\ UNCHANGED <<screen, server_closing, sent, conn, wire, arrived, tcp>>
        /\ pc' = "dispatch" /\ conn[c].state # "CLOSED"
    BY <1>1, <1>5 DEF ParseNothing
  <2>2. Idles  BY <1>1, <1>2, <2>1, IdleStep DEF Running, Outside
  <2> QED  BY <1>1, <2>1, <2>2, PlacesKept
<1>6. CASE ParseRejects(c)
  <2>1. remove_connection(c) /\ pc' = "dispatch" /\ UNCHANGED screen
    BY <1>6 DEF ParseRejects
  <2>2. GoesOn /\ Calm  BY <1>1, <2>1 DEF GoesOn, Calm, Running
  <2>3. Faulty(c)
    <3>1. conn[c].in_buffer # <<>> /\ ~Usable(c, Head(conn[c].in_buffer))
      BY <1>1, <1>6 DEF ParseRejects, Usable
    <3>2. Unparsed(c) # <<>> /\ Head(Unparsed(c)) = Head(conn[c].in_buffer)
      BY <1>3, <3>1, Objects, TailMoves DEF Unparsed
    <3> QED  BY <3>1, <3>2 DEF Faulty
  <2>4. Drops(c) /\ conn'[c] = NoConnection /\ \A d \in Conn \ {c} : conn'[d] = conn[d]
    BY <1>1, <2>1, <2>2, <2>3, RemoveSteps
  <2> QED  BY <1>1, <2>1, <2>4, PlacesKept, Deleted
<1>7. CASE ParseLeave(c)
  <2> DEFINE notice == Notice(c, "disconnected", conn[c].name)
  <2>1. notice \in Msg /\ notice \in Broadcasts
    BY NoticeType, ConnType, ConnectionFields, BroadcastKind, Broadcasting DEF Speaker
  <2>2. notice.says = [who |-> c, what |-> "disconnected", n |-> 0]  BY NoticeSays
  <2>3. /\ screen' = Append(screen, notice.says)
        /\ IF BroadcastFails(conn, c, notice)
           THEN RefuseBroadcast(conn, c)
           ELSE /\ conn' = [Broadcast(conn, c, notice) EXCEPT ![c] = NoConnection]
                /\ CloseSockets({c})
                /\ pc' = "dispatch"
    BY <1>7 DEF ParseLeave
  <2> HIDE DEF notice
  <2>4. CASE BroadcastFails(conn, c, notice)
    <3>1. RefuseBroadcast(conn, c)  BY <2>3, <2>4
    <3>2. /\ pc' = "cleanup" /\ \E d \in Conn : conn'[d].state = "CONNECTION_ERROR"
          /\ \A d \in Conn : conn'[d].state = "FREED" => conn'[d] = conn[d]
      BY <1>3, <3>1, RefusalSteps
    <3>3. Utters(notice.says)
      BY <2>2 DEF Utters, Utterance, Topic, Speaker
    <3> QED  BY <1>1, <1>2, <2>3, <3>2, <3>3, FailureStops, PlacesStop
  <2>5. CASE ~BroadcastFails(conn, c, notice)
    <3> DEFINE told == Broadcast(conn, c, notice)
    <3>1. conn' = [told EXCEPT ![c] = NoConnection] /\ CloseSockets({c}) /\ pc' = "dispatch"
      BY <2>3, <2>5
    <3>2. told \in [Conn -> Connection]  BY <1>3, <2>1, BroadcastType
    <3>3. ASSUME NEW d \in Conn \ {c}
          PROVE  /\ conn'[d].state = conn[d].state
                 /\ conn'[d].in_buffer = conn[d].in_buffer
                 /\ d \notin Active => conn'[d] = conn[d]
                 /\ Stream(d)' = IF d \in Active THEN Append(Stream(d), notice) ELSE Stream(d)
      <4>1. conn'[d] = told[d] /\ wire'[d] = wire[d]  BY <1>1, <3>1, <3>2
      <4>2. CASE d \in Active
        <5>1. /\ told[d].state = conn[d].state
              /\ told[d].in_buffer = conn[d].in_buffer
              /\ told[d].bytes_written = conn[d].bytes_written
              /\ told[d].out_buffer = Append(conn[d].out_buffer, notice)
          BY <1>3, <1>4, <4>2 DEF Broadcast, Queue, Connection
        <5>2. StreamOf(wire[d], told[d]) = Append(StreamOf(wire[d], conn[d]), notice)
          <6>1. /\ conn[d] \in Connection /\ wire[d] \in Seq(Msg)
                /\ conn[d].bytes_written <= Len(conn[d].out_buffer)
            BY Objects DEF Good
          <6> QED  BY <2>1, <5>1, <6>1, StreamGrows
        <5> QED  BY <4>1, <4>2, <5>1, <5>2, StreamIs
      <4>3. CASE d \notin Active
        <5>1. told[d] = conn[d]  BY <1>4, <4>3 DEF Broadcast, Queue
        <5> QED  BY <4>1, <4>3, <5>1, StreamIs
      <4> QED  BY <4>2, <4>3
    <3>4. conn'[c] = NoConnection  BY <3>1, <3>2
    <3> HIDE DEF told
    <3>5. ~Outside(c)' /\ Unparsed(c)' = <<>> /\ \A d \in Conn \ {c} : Stays(d)
      <4>1. \A d \in Conn \ {c} : (Outside(d)' <=> Outside(d)) /\ arrived'[d] = arrived[d]
        BY <3>1, InsideKept
      <4>2. tcp'[c] = "closed" /\ arrived'[c] = <<>>  BY <3>1 DEF CloseSockets
      <4>3. Unparsed(c)' = <<>>  BY <3>4, <4>2, Deleted, NothingLeft DEF Unparsed
      <4> QED  BY <1>1, <3>3, <4>1, <4>2, <4>3, Staying DEF Outside
    <3>a. conn[c].state = "CLOSED" \/ (Unparsed(c) # <<>> /\ Head(Unparsed(c)).type = "CLOSE_CON")
      <4>1. CASE conn[c].in_buffer = <<>>  BY <1>7, <4>1 DEF ParseLeave
      <4>2. CASE conn[c].in_buffer # <<>>
        <5>1. Head(conn[c].in_buffer).type = "CLOSE_CON"  BY <1>7, <4>2 DEF ParseLeave
        <5> QED  BY <1>3, <4>2, <5>1, Objects, TailMoves DEF Unparsed
      <4> QED  BY <4>1, <4>2
    <3>6. Leaves(c)
      BY <1>1, <2>1, <2>2, <2>3, <3>1, <3>3, <3>4, <3>5, <3>a, Deleted
         DEF Leaves, GoesOn, Running
    <3>7. \A d \in Conn : conn'[d].state # "CLOSED" /\
                          (conn'[d].state = "FREED" => conn'[d] = conn[d] \/ conn'[d] = NoConnection)
      BY <1>1, <3>3, <3>4, Deleted DEF Active
    <3> QED  BY <3>1, <3>6, <3>7, PlacesKept
  <2> QED  BY <2>4, <2>5
<1>8. CASE ParseChat(c)
  <2> DEFINE m      == Head(conn[c].in_buffer)
             said   == format_broadcast_message(conn[c].name, m)
             popped == [conn EXCEPT ![c].in_buffer = Tail(@)]
  <2>1. /\ conn[c].in_buffer # <<>> /\ m.type = "CHAT" /\ UNCHANGED <<arrived, tcp>>
        /\ screen' = Append(screen, m.says)
        /\ IF BroadcastFails(popped, c, said)
           THEN RefuseBroadcast(popped, c)
           ELSE conn' = Broadcast(popped, c, said) /\ UNCHANGED <<pc, reader>>
    BY <1>8 DEF ParseChat, sockVars
  <2>2. /\ arrived[c] \in Seq(Msg) /\ m \in Msg /\ Tail(conn[c].in_buffer) \in Seq(Msg)
        /\ Unparsed(c) # <<>> /\ Head(Unparsed(c)) = m
        /\ Tail(Unparsed(c)) = Tail(conn[c].in_buffer) \o arrived[c]
    BY <1>3, <2>1, Objects, TailMoves DEF Unparsed
  <2>3. said \in Msg /\ said \in Broadcasts /\ said.says = m.says
    <3>1. said \in Msg  BY <2>2, FormattedType, ConnType, ConnectionFields
    <3> QED  BY <3>1, BroadcastKind, Broadcasting DEF format_broadcast_message
  <2>4. popped \in [Conn -> Connection]
    BY <2>2, ConnType, ConnectionFields DEF TypeOK, ServerTypeOK
  <2>5. /\ \A d \in Conn : /\ popped[d].out_buffer = conn[d].out_buffer
                           /\ popped[d].bytes_written = conn[d].bytes_written
                           /\ popped[d].state = conn[d].state
                           /\ d # c => popped[d] = conn[d]
        /\ popped[c].in_buffer = Tail(conn[c].in_buffer)
    BY <1>3 DEF Connection
  <2>6. m.type = "CHAT"  BY <2>1
  <2> HIDE DEF m, said, popped
  <2>7. CASE BroadcastFails(popped, c, said)
    <3>1. RefuseBroadcast(popped, c)  BY <2>1, <2>7
    <3>2. /\ pc' = "cleanup" /\ \E d \in Conn : conn'[d].state = "CONNECTION_ERROR"
          /\ \A d \in Conn : conn'[d].state = "FREED" => conn'[d] = popped[d]
      BY <2>4, <3>1, RefusalSteps
    <3>3. \A d \in Conn : conn'[d].state = "FREED" => conn'[d] = conn[d]
      BY <1>1, <2>5, <3>2
    <3>4. Utters(m.says)  BY <1>1, <2>2, <2>6 DEF Utters
    <3> QED  BY <1>1, <1>2, <2>1, <3>2, <3>3, <3>4, FailureStops, PlacesStop
  <2>8. CASE ~BroadcastFails(popped, c, said)
    <3>1. conn' = Broadcast(popped, c, said) /\ UNCHANGED <<pc, reader>>  BY <2>1, <2>8
    <3>2. \A d \in Conn : wire'[d] \in Seq(Msg) /\ Good(wire'[d], popped[d])
      BY <1>3, <2>5, GoodKept
    <3>3. Recipients(popped, c) = Active \ {c}  BY <2>5 DEF Recipients, Active
    <3>4. ASSUME NEW d \in Conn
          PROVE  /\ conn'[d].state = conn[d].state
                 /\ conn'[d].in_buffer = popped[d].in_buffer
                 /\ d \notin Active \ {c} => conn'[d] = popped[d]
                 /\ Stream(d)' = IF d \in Active \ {c} THEN Append(Stream(d), said) ELSE Stream(d)
      <4>1. StreamOf(wire'[d], popped[d]) = Stream(d)
        BY <1>1, <2>5, SameOutput, StreamIs
      <4> QED  BY <2>3, <2>4, <2>5, <3>1, <3>2, <3>3, <4>1, BroadcastSteps
    <3>5. \A d \in Conn \ {c} : Stays(d)
      BY <1>1, <2>1, <2>5, <3>4, Staying DEF Outside
    <3>6. Unparsed(c)' = Tail(Unparsed(c)) /\ ~Outside(c)'
      BY <1>2, <2>1, <2>2, <2>5, <3>4 DEF Unparsed, Outside
    <3>7. Reaches(Active \ {c}, said)  BY <3>4 DEF Reaches
    <3>8. /\ GoesOn /\ said.says = Head(Unparsed(c)).says /\ Head(Unparsed(c)).type = "CHAT"
          /\ screen' = Append(screen, said.says)
      BY <1>1, <2>1, <2>2, <2>3, <2>6, <3>1 DEF GoesOn, Running
    <3>9. Speaks(c)
      BY <1>1, <1>2, <2>2, <2>3, <3>4, <3>5, <3>6, <3>7, <3>8 DEF Speaks
    <3>10. Places'
      <4>1. \A d \in Conn : conn'[d].state = "FREED" => conn'[d] = NoConnection
        BY <1>1, <2>5, <3>4 DEF Active, Places
      <4> QED  BY <1>1, <3>1, <3>4, <4>1 DEF Places
    <3> QED  BY <3>9, <3>10
  <2> QED  BY <2>7, <2>8
<1> QED  BY <1>5, <1>6, <1>7, <1>8 DEF ParseNext

LEMMA WriteSteps ==
    ASSUME TypeOK, TypeOK', EventDiscipline, Greeting, Places,
           NEW e \in batch, NEW c \in Conn, WriteNext(e, c)
    PROVE  (Idles \/ Stops \/ Enters(c)) /\ Places'
<1>1. /\ Running /\ pc = "dispatch" /\ conn[c].state \in {"SENDING_SERVER_HELLO", "ACTIVE"}
      /\ UNCHANGED <<server_closing, lines, arrived, tcp, sent>>
  BY DEF WriteNext, SendFails, SendPartial, SendHelloDone, SendDone, SendAll, SendEvent,
         Sends, event_is_send_network_package, Running, userVars, sockVars, remoteVars
<1>2. /\ lines' >= lines /\ ~Outside(c)
      /\ \A d \in Conn : conn[d].state # "CLOSED"
  BY <1>1, Lines, Inside, NoneClosed
<1>3. \A d \in Conn : /\ wire[d] \in Seq(Msg) /\ conn[d] \in Connection
                      /\ wire'[d] \in Seq(Msg) /\ Good(wire[d], conn[d])
  BY DEF TypeOK, SocketsTypeOK, ServerTypeOK, Greeting
<1>4. conn \in [Conn -> Connection] /\ Flushed(c) \in [Conn -> Connection]
  BY Told, FlushedType
<1>5. /\ Flushed(c)[c].out_buffer = <<>> /\ Flushed(c)[c].bytes_written = 0
      /\ Flushed(c)[c].state = conn[c].state
      /\ Flushed(c)[c].in_buffer = conn[c].in_buffer
      /\ \A d \in Conn \ {c} : Flushed(c)[d] = conn[d]
  BY <1>4 DEF Flushed, Connection
<1>6. CASE SendFails(e, c)
  <2>1. pc' = "cleanup" /\ UNCHANGED screen
        /\ conn' = [conn EXCEPT ![c].state = "CONNECTION_ERROR"]
    BY <1>6 DEF SendFails
  <2>2. conn'[c].state = "CONNECTION_ERROR" /\ \A d \in Conn \ {c} : conn'[d] = conn[d]
    BY <1>4, <2>1 DEF Connection
  <2> QED  BY <1>1, <1>2, <2>1, <2>2, FailureStops, PlacesStop
<1>7. ASSUME UNCHANGED <<pc, screen>>,
             \A d \in Conn : /\ conn'[d].state = conn[d].state
                             /\ conn'[d].in_buffer = conn[d].in_buffer
                             /\ Stream(d)' = Stream(d)
                             /\ d # c => conn'[d] = conn[d]
      PROVE  Idles /\ Places'
  <2>1. \A d \in Conn : Stays(d)  BY <1>1, <1>7, Staying DEF Outside
  <2>2. Idles  BY <1>1, <1>2, <1>7, <2>1 DEF Idles, Hushed, Running
  <2> QED  BY <1>1, <1>2, <1>7, <2>2, PlacesKept
<1>8. CASE SendPartial(e, c)
  <2>1. PICK j \in 0 .. Pending(c) - 1 :
          Sends(c, j) /\ conn' = [conn EXCEPT ![c].bytes_written = @ + j]
    BY <1>8 DEF SendPartial
  <2>2. /\ conn'[c].out_buffer = conn[c].out_buffer
        /\ conn'[c].bytes_written = conn[c].bytes_written + j
        /\ conn'[c].state = conn[c].state
        /\ conn'[c].in_buffer = conn[c].in_buffer
        /\ \A d \in Conn \ {c} : conn'[d] = conn[d]
    BY <1>4, <2>1 DEF Connection
  <2>3. j \in Nat /\ conn[c].bytes_written + j <= Len(conn[c].out_buffer)
    <3>1. PICK n \in Nat : n = Len(conn[c].out_buffer)  BY <1>3, StreamType
    <3>2. PICK b \in Nat : b = conn[c].bytes_written  BY <1>3, StreamType
    <3>3. j \in 0 .. n - b - 1  BY <2>1, <3>1, <3>2 DEF Pending
    <3> QED  BY <3>1, <3>2, <3>3
  <2>4. StreamOf(wire'[c], conn'[c]) = StreamOf(wire[c], conn[c])
    <3>1. StreamOf(wire[c] \o SubSeq(conn[c].out_buffer, conn[c].bytes_written + 1,
                                     conn[c].bytes_written + j), conn'[c])
            = StreamOf(wire[c], conn[c])
      BY <1>3, <2>2, <2>3, StreamStays
    <3> QED  BY <2>1, <3>1, SendsShape
  <2>5. \A d \in Conn \ {c} : wire'[d] = wire[d]  BY <2>1, SendsShape
  <2>6. \A d \in Conn : Stream(d)' = Stream(d)
    BY <2>2, <2>4, <2>5, StreamIs
  <2>7. UNCHANGED <<pc, screen>>  BY <1>8 DEF SendPartial
  <2> QED  BY <1>7, <2>2, <2>6, <2>7
<1>9. ASSUME NEW k, k.out_buffer = <<>>, k.bytes_written = 0,
             k.state # "WAITING_FOR_CLIENT_HELLO", SendAll(e, c)
      PROVE  /\ Good(wire'[c], k) /\ StreamOf(wire'[c], k) = Stream(c)
             /\ \A d \in Conn \ {c} : wire'[d] = wire[d]
  <2>1. Sends(c, Pending(c))  BY <1>9 DEF SendAll
  <2>2. wire'[c] = wire[c] \o SubSeq(conn[c].out_buffer, conn[c].bytes_written + 1,
                                     conn[c].bytes_written + Pending(c))
    BY <2>1, SendsShape
  <2>3. Good(wire'[c], k)
    BY <1>1, <1>3, <1>9, <2>2, GoodFlushed DEF Pending
  <2>4. StreamOf(wire'[c], k) = wire'[c]  BY <1>3, <1>9, StreamSent
  <2>5. conn[c].bytes_written + Pending(c) = Len(conn[c].out_buffer)
    <3>1. PICK n \in Nat : n = Len(conn[c].out_buffer)  BY <1>3, StreamType
    <3>2. PICK b \in Nat : b = conn[c].bytes_written  BY <1>3, StreamType
    <3> QED  BY <3>1, <3>2 DEF Pending
  <2>6. wire'[c] = Stream(c)  BY <2>2, <2>5 DEF Stream
  <2> QED  BY <2>1, <2>3, <2>4, <2>6, SendsShape
<1>10. CASE SendDone(e, c)
  <2>1. SendAll(e, c) /\ conn' = Flushed(c) /\ UNCHANGED <<pc, screen>>
    BY <1>10 DEF SendDone
  <2>2. /\ StreamOf(wire'[c], conn'[c]) = Stream(c)
        /\ \A d \in Conn \ {c} : wire'[d] = wire[d]
    BY <1>1, <1>5, <1>9, <2>1
  <2>3. \A d \in Conn : Stream(d)' = Stream(d)
    BY <1>5, <2>1, <2>2, StreamIs
  <2> QED  BY <1>5, <1>7, <2>1, <2>3
<1>11. CASE SendHelloDone(e, c)
  <2> DEFINE active == [Flushed(c) EXCEPT ![c].state = "ACTIVE"]
             notice == Notice(c, "connected", conn[c].name)
  <2>1. notice \in Msg /\ notice \in Broadcasts
        /\ notice.says = [who |-> c, what |-> "connected", n |-> 0]
    BY NoticeType, ConnType, ConnectionFields, BroadcastKind, Broadcasting, NoticeSays
       DEF Speaker
  <2>2. active \in [Conn -> Connection]
    <3>1. [Flushed(c)[c] EXCEPT !.state = "ACTIVE"] \in Connection
      BY <1>4, ConnectionFields DEF ConnectionState
    <3> QED  BY <1>4, <3>1
  <2>3. /\ active[c].out_buffer = <<>> /\ active[c].bytes_written = 0
        /\ active[c].state = "ACTIVE" /\ active[c].in_buffer = conn[c].in_buffer
        /\ \A d \in Conn \ {c} : active[d] = conn[d]
    BY <1>4, <1>5 DEF Connection
  <2>4. /\ screen' = Append(screen, notice.says)
        /\ IF BroadcastFails(active, None, notice)
           THEN RefuseBroadcast(active, None)
           ELSE conn' = Broadcast(active, None, notice) /\ pc' = pc
        /\ conn[c].state = "SENDING_SERVER_HELLO"
    BY <1>11 DEF SendHelloDone
  <2> HIDE DEF active, notice
  <2>5. /\ Good(wire'[c], active[c]) /\ StreamOf(wire'[c], active[c]) = Stream(c)
        /\ \A d \in Conn \ {c} : wire'[d] = wire[d]
    BY <1>9, <1>11, <2>3 DEF SendHelloDone
  <2>6. CASE BroadcastFails(active, None, notice)
    <3>1. RefuseBroadcast(active, None)  BY <2>4, <2>6
    <3>2. /\ pc' = "cleanup" /\ \E d \in Conn : conn'[d].state = "CONNECTION_ERROR"
          /\ \A d \in Conn : conn'[d].state = "FREED" => conn'[d] = active[d]
      BY <2>2, <3>1, RefusalSteps
    <3>3. \A d \in Conn : conn'[d].state = "FREED" => conn'[d] = conn[d]
      BY <2>3, <3>2
    <3>4. Utters(notice.says)
      BY <2>1 DEF Utters, Utterance, Topic, Speaker
    <3> QED  BY <1>1, <1>2, <2>4, <3>2, <3>3, <3>4, FailureStops, PlacesStop
  <2>7. CASE ~BroadcastFails(active, None, notice)
    <3>1. conn' = Broadcast(active, None, notice) /\ pc' = pc  BY <2>4, <2>7
    <3>2. \A d \in Conn : wire'[d] \in Seq(Msg) /\ Good(wire'[d], active[d])
      BY <1>3, <2>3, <2>5
    <3>3. Recipients(active, None) = Active \cup {c}
      <4>1. None \notin Conn  BY ServerAssumption
      <4> QED  BY <2>3, <4>1 DEF Recipients, Active
    <3>4. ASSUME NEW d \in Conn
          PROVE  /\ conn'[d].state = active[d].state
                 /\ conn'[d].in_buffer = conn[d].in_buffer
                 /\ d \notin Active \cup {c} => conn'[d] = conn[d]
                 /\ Stream(d)' = IF d \in Active \cup {c} THEN Append(Stream(d), notice)
                                 ELSE Stream(d)
      <4>1. StreamOf(wire'[d], active[d]) = Stream(d)
        BY <2>3, <2>5, StreamIs
      <4> QED  BY <2>1, <2>2, <2>3, <3>1, <3>2, <3>3, <4>1, BroadcastSteps
    <3>5. \A d \in Conn \ {c} : Stays(d)
      BY <1>1, <2>3, <3>4, Staying DEF Outside
    <3>6. Unparsed(c)' = Unparsed(c) /\ ~Outside(c)'
      BY <1>1, <1>2, <3>4 DEF Unparsed, Outside
    <3>7. Reaches(Active \cup {c}, notice)  BY <3>4 DEF Reaches
    <3>8. Enters(c)
      BY <1>1, <1>2, <2>1, <2>3, <2>4, <3>1, <3>4, <3>5, <3>6, <3>7
         DEF Enters, GoesOn, Running
    <3>9. \A d \in Conn : conn'[d].state # "CLOSED" /\
                          (conn'[d].state = "FREED" => conn'[d] = conn[d])
      BY <1>2, <2>3, <3>4 DEF Active
    <3> QED  BY <1>1, <3>1, <3>8, <3>9, PlacesKept
  <2> QED  BY <2>6, <2>7
<1> QED  BY <1>6, <1>8, <1>10, <1>11 DEF WriteNext

LEMMA UserSteps ==
    ASSUME TypeOK, Greeting, Places, NEW e \in batch, StdinNext(e)
    PROVE  (Idles \/ Stops \/ HostSpeaks \/ Closes) /\ Places'
<1>1. /\ Running /\ pc = "dispatch" /\ ~server_closing
      /\ lines' = lines + 1 /\ UNCHANGED <<arrived, tcp, sent, wire>>
  BY DEF StdinNext, StdinEof, StdinIgnored, StdinChat, StdinQuit, StdinEvent,
         event_is_read_stdin, Running, sockVars
<1>2. lines' >= lines /\ \A d \in Conn : conn[d].state # "CLOSED"
  BY <1>1, Lines, NoneClosed
<1>3. /\ conn \in [Conn -> Connection]
      /\ \A d \in Conn : wire'[d] \in Seq(Msg) /\ Good(wire'[d], conn[d])
  BY <1>1, Told, Objects DEF TypeOK, ServerTypeOK
<1>4. ASSUME NEW cs \in [Conn -> Connection]
      PROVE  Recipients(cs, None) = {d \in Conn : cs[d].state = "ACTIVE"}
  BY ServerAssumption DEF Recipients
<1>5. CASE StdinEof(e)
  BY <1>1, <1>2, <1>5, FailureStops, PlacesStop DEF StdinEof
<1>6. CASE StdinIgnored(e)
  <2>1. UNCHANGED <<pc, conn, server_closing, screen>>  BY <1>6 DEF StdinIgnored
  <2>2. Idles  BY <1>1, <1>2, <2>1, IdleStep DEF Outside, Running
  <2> QED  BY <1>1, <1>2, <2>1, <2>2, PlacesKept
<1>7. CASE StdinChat(e)
  <2> DEFINE line(size) == ChatMessage(Host, "chat", lines + 1, size)
             said(size) == format_broadcast_message(server_name, line(size))
  <2>1. PICK size \in LineSizes :
          /\ screen' = Append(screen, line(size).says)
          /\ IF BroadcastFails(conn, None, said(size))
             THEN RefuseBroadcast(conn, None)
             ELSE conn' = Broadcast(conn, None, said(size)) /\ pc' = pc
    BY <1>7 DEF StdinChat
  <2>2. UNCHANGED server_closing  BY <1>7 DEF StdinChat
  <2>3. said(size) \in Msg /\ said(size) \in Broadcasts /\ said(size).says = line(size).says
    <3>1. ChatMessage(Host, "chat", lines + 1, size) \in Msg
      BY ServerAssumption, LineType DEF Topic, TypeOK, ServerTypeOK
    <3>2. said(size) \in Msg  BY <3>1, FormattedType DEF TypeOK, ServerTypeOK
    <3> QED  BY <3>2, BroadcastKind, Broadcasting DEF format_broadcast_message
  <2>4. line(size).says = [who |-> Host, what |-> "chat", n |-> lines + 1]
    BY DEF ChatMessage
  <2> HIDE DEF line, said
  <2>5. CASE BroadcastFails(conn, None, said(size))
    <3>1. RefuseBroadcast(conn, None)  BY <2>1, <2>5
    <3>2. /\ pc' = "cleanup" /\ \E d \in Conn : conn'[d].state = "CONNECTION_ERROR"
          /\ \A d \in Conn : conn'[d].state = "FREED" => conn'[d] = conn[d]
      BY <1>3, <3>1, RefusalSteps
    <3>3. Utters(line(size).says)  BY <1>1, <2>4 DEF Utters
    <3> QED  BY <1>1, <1>2, <2>1, <3>2, <3>3, FailureStops, PlacesStop
  <2>6. CASE ~BroadcastFails(conn, None, said(size))
    <3>1. conn' = Broadcast(conn, None, said(size)) /\ pc' = pc  BY <2>1, <2>6
    <3>2. ASSUME NEW d \in Conn
          PROVE  /\ conn'[d].state = conn[d].state
                 /\ conn'[d].in_buffer = conn[d].in_buffer
                 /\ d \notin Active => conn'[d] = conn[d]
                 /\ Stream(d)' = IF d \in Active THEN Append(Stream(d), said(size)) ELSE Stream(d)
      <4>1. StreamOf(wire'[d], conn[d]) = Stream(d)  BY <1>1, StreamIs
      <4>2. Recipients(conn, None) = Active  BY <1>3, <1>4 DEF Active
      <4> QED  BY <1>3, <2>3, <3>1, <4>1, <4>2, BroadcastSteps
    <3>3. \A d \in Conn : Stays(d)  BY <1>1, <3>2, Staying DEF Outside
    <3>4. HostSpeaks
      <4>1. Reaches(Active, said(size))  BY <3>2 DEF Reaches
      <4> QED  BY <1>1, <2>1, <2>2, <2>3, <2>4, <3>1, <3>3, <4>1 DEF HostSpeaks, GoesOn, Running
    <3>5. \A d \in Conn : conn'[d].state # "CLOSED" /\
                          (conn'[d].state = "FREED" => conn'[d] = conn[d])
      BY <1>2, <3>2 DEF Active
    <3> QED  BY <1>1, <3>1, <3>4, <3>5, PlacesKept
  <2> QED  BY <2>5, <2>6
<1>8. CASE StdinQuit(e)
  <2> DEFINE told == Broadcast(conn, None, ClosingNotice)
  <2>1. /\ conn' = Broadcast(told, None, CloseMessage)
        /\ screen' = Append(screen, ClosingNotice.says)
        /\ server_closing' = TRUE
        /\ pc' = IF all_connection_buffers_empty(conn') THEN "cleanup" ELSE pc
    BY <1>8 DEF StdinQuit
  <2>2. ClosingNotice \in Msg /\ CloseMessage \in Msg
    BY ClosingNoticeType DEF CloseMessage, Msg, Message, MessageType, Utterance, Topic, Speaker
  <2>3. ClosingNotice.type # "SERVER_HELLO"
    BY BroadcastKind DEF ClosingNotice
  <2>4. told \in [Conn -> Connection]
    BY <1>3, <2>2, BroadcastType
  <2>5. ASSUME NEW d \in Conn
        PROVE  /\ told[d].state = conn[d].state /\ told[d].in_buffer = conn[d].in_buffer
               /\ told[d].bytes_written = conn[d].bytes_written
               /\ d \notin Active => told[d] = conn[d]
               /\ d \in Active => told[d].out_buffer = Append(conn[d].out_buffer, ClosingNotice)
               /\ Good(wire'[d], told[d])
    <3>1. Recipients(conn, None) = Active  BY <1>3, <1>4 DEF Active
    <3>2. Good(wire'[d], told[d])  BY <1>3, <2>2, <2>3, BroadcastGood
    <3> QED  BY <1>3, <3>1, <3>2 DEF Broadcast, Queue, Connection
  <2> HIDE DEF told
  <2>6. Recipients(told, None) = Active
    BY <1>4, <2>4, <2>5 DEF Active
  <2>7. ASSUME NEW d \in Conn
        PROVE  /\ conn'[d].state = conn[d].state
               /\ conn'[d].in_buffer = conn[d].in_buffer
               /\ d \notin Active => conn'[d] = conn[d]
               /\ Stream(d)' = IF d \in Active
                               THEN Append(Append(Stream(d), ClosingNotice), CloseMessage)
                               ELSE Stream(d)
    <3>1. /\ conn[d] \in Connection /\ wire'[d] \in Seq(Msg)
          /\ conn[d].bytes_written <= Len(conn[d].out_buffer)
      BY <1>1, Objects DEF Good
    <3>2. StreamOf(wire'[d], told[d])
            = IF d \in Active THEN Append(Stream(d), ClosingNotice) ELSE Stream(d)
      <4>1. StreamOf(wire'[d], conn[d]) = Stream(d)  BY <1>1, StreamIs
      <4>2. CASE d \in Active
        <5>1. StreamOf(wire'[d], told[d]) = Append(StreamOf(wire'[d], conn[d]), ClosingNotice)
          BY <2>2, <2>5, <3>1, <4>2, StreamGrows
        <5> QED  BY <4>1, <4>2, <5>1
      <4>3. CASE d \notin Active  BY <2>5, <4>1, <4>3
      <4> QED  BY <4>2, <4>3
    <3>3. Good(wire'[d], told[d])  BY <2>5
    <3>4. /\ conn'[d].state = told[d].state
          /\ conn'[d].in_buffer = told[d].in_buffer
          /\ d \notin Active => conn'[d] = told[d]
          /\ Stream(d)' = IF d \in Active
                          THEN Append(StreamOf(wire'[d], told[d]), CloseMessage)
                          ELSE StreamOf(wire'[d], told[d])
      BY <2>1, <2>2, <2>4, <2>6, <3>1, <3>3, BroadcastSteps
    <3> QED  BY <2>5, <3>2, <3>4
  <2>8. \A d \in Conn : Stays(d)  BY <1>1, <2>7, Staying DEF Outside
  <2>9. \A d \in Conn : conn'[d].state # "CLOSED" /\
                        (conn'[d].state = "FREED" => conn'[d] = conn[d])
    BY <1>2, <2>7 DEF Active
  <2>10. CASE ~all_connection_buffers_empty(conn')
    <3>1. pc' = pc  BY <2>1, <2>10
    <3>2. Closes
      BY <1>1, <1>2, <2>1, <2>7, <2>8, <3>1 DEF Closes, GoesOn, Running
    <3> QED  BY <1>1, <2>9, <3>1, <3>2, PlacesKept
  <2>11. CASE all_connection_buffers_empty(conn')
    <3>1. pc' = "cleanup" /\ \A d \in Conn : conn'[d].out_buffer = <<>>
      BY <2>1, <2>11 DEF all_connection_buffers_empty
    <3>2. ASSUME NEW d \in Conn, d \in Active PROVE FALSE
      <4>1. conn'[d].out_buffer = Append(told[d].out_buffer, CloseMessage)
        BY <2>1, <2>4, <2>6, <3>2 DEF Broadcast, Queue, Connection
      <4>2. told[d].out_buffer \in Seq(Msg)  BY <2>4, ConnectionFields
      <4>3. Append(told[d].out_buffer, CloseMessage) # <<>>
        BY <2>2, <4>2, AppendProperties
      <4> QED  BY <3>1, <4>1, <4>3
    <3>3. \A d \in Conn : conn'[d].state # "ACTIVE"  BY <2>7, <3>2 DEF Active
    <3>4. Utters(ClosingNotice.says)
      BY DEF Utters, ClosingNotice, format_broadcast_message, ChatMessage, Utterance,
             Topic, Speaker
    <3>5. Stops  BY <1>1, <1>2, <2>1, <3>1, <3>3, <3>4 DEF Stops
    <3> QED  BY <2>9, <3>1, <3>5, PlacesStop
  <2> QED  BY <2>10, <2>11
<1> QED  BY <1>5, <1>6, <1>7, <1>8 DEF StdinNext

LEMMA CleanupSteps == Places /\ server_cleanup => Exits /\ Places'
<1> SUFFICES ASSUME Places, server_cleanup PROVE Exits /\ Places'
  OBVIOUS
<1>1. /\ pc = "cleanup" /\ pc' = "exited" /\ UNCHANGED <<screen, server_closing, lines>>
      /\ \A d \in Conn : conn'[d] = NoConnection
  BY DEF server_cleanup, userVars
<1> QED  BY <1>1, PlacesStop DEF Exits

LEMMA NetworkSteps ==
    ASSUME TypeOK, Places, NetworkNext
    PROVE  (Idles \/ \E c \in Conn : Sent(c)) /\ Places'
<1>1. UNCHANGED <<pc, conn, reader, server_closing, screen, lines>>
  BY DEF NetworkNext, serverVars, userVars
<1>2. Places'  BY <1>1 DEF Places, Running
<1>3. PICK c \in Conn : RemoteConnect(c) \/ RemoteNext(c)
  BY DEF NetworkNext
<1>4. CASE RemoteSend(c)
  <2>1. PICK f \in Frames :
          arrived' = [arrived EXCEPT ![c] = Append(@,
            [type |-> f.type, size |-> f.size,
             says |-> [who |-> c, what |-> TopicOf(f.type), n |-> sent[c] + 1]])]
    BY <1>4 DEF RemoteSend
  <2> DEFINE m == [type |-> f.type, size |-> f.size,
                   says |-> [who |-> c, what |-> TopicOf(f.type), n |-> sent[c] + 1]]
  <2>2. /\ sent[c] < MaxFrames /\ sent' = [sent EXCEPT ![c] = @ + 1]
        /\ UNCHANGED <<tcp, wire>>
    BY <1>4 DEF RemoteSend
  <2>3. /\ sent'[c] = sent[c] + 1 /\ \A d \in Conn \ {c} : sent'[d] = sent[d]
        /\ arrived'[c] = Append(arrived[c], m)
        /\ \A d \in Conn \ {c} : arrived'[d] = arrived[d]
    BY <2>1, <2>2 DEF TypeOK, SocketsTypeOK
  <2>4. m \in Msg
    <3>1. f.type \in MessageType /\ f.size \in Nat /\ sent[c] + 1 \in Nat
      BY SocketsAssumption DEF TypeOK, SocketsTypeOK
    <3>2. TopicOf(f.type) \in Topic  BY DEF TopicOf, Topic
    <3> QED  BY <3>1, <3>2 DEF Msg, Message, Utterance, Speaker
  <2>5. m.says = [who |-> c, what |-> TopicOf(m.type), n |-> sent[c] + 1]  OBVIOUS
  <2> HIDE DEF m
  <2>6. Unparsed(c)' = Append(Unparsed(c), m)
    <3>1. arrived[c] \in Seq(Msg) /\ conn[c].in_buffer \in Seq(Msg)
      BY ConnType, ConnectionFields DEF TypeOK, SocketsTypeOK
    <3>2. \A s, t \in Seq(Msg) : s \o Append(t, m) = Append(s \o t, m)
      BY <2>4, ConcatAppend
    <3> QED  BY <1>1, <2>3, <3>1, <3>2 DEF Unparsed
  <2>7. \A d \in Conn : (Outside(d)' <=> Outside(d)) /\ Stream(d)' = Stream(d)
    BY <1>1, <2>2 DEF Outside, Stream
  <2>8. \A d \in Conn \ {c} : Stays(d)  BY <1>1, <2>3, <2>7, Staying
  <2>9. Sent(c)
    BY <1>1, <2>2, <2>3, <2>4, <2>5, <2>6, <2>7, <2>8
       DEF Sent, Calm, Hushed, Running
  <2> QED  BY <1>2, <2>9
<1>5. CASE ~RemoteSend(c)
  <2>1. UNCHANGED <<sent, wire, arrived>>
    BY <1>3, <1>5 DEF RemoteNext, RemoteConnect, RemoteShutdown, RemoteReset, RemoteRead
  <2>2. \A d \in Conn : Outside(d)' <=> Outside(d)
    BY <1>3, <1>5 DEF RemoteNext, RemoteConnect, RemoteShutdown, RemoteReset, RemoteRead,
                      Outside, TypeOK, SocketsTypeOK
  <2>3. Idles  BY <1>1, <2>1, <2>2, Lines, IdleStep DEF Running
  <2> QED  BY <1>2, <2>3
<1> QED  BY <1>4, <1>5

LEMMA InitPlaces == Init => Places
  BY DEF Init, Places, NoConnection

(* Every step of the system is one of the kinds.                            *)
LEMMA StepKinds ==
    ASSUME TypeOK, TypeOK', EventDiscipline, Greeting, Places, [Next]_vars
    PROVE  RoomStep /\ Places'
<1>1. CASE UNCHANGED vars
  <2>1. Idles
    BY <1>1, Lines, IdleStep DEF vars, sockVars, serverVars, userVars, remoteVars, Running, Outside
  <2>2. Places'  BY <1>1 DEF vars, serverVars, Places, Running
  <2> QED  BY <2>1, <2>2 DEF RoomStep
<1>2. CASE epoll_wait \/ (\E e \in batch : SkipEvent(e)) \/ EndOfBatch
  BY <1>2, LoopSteps DEF RoomStep
<1>3. CASE AcceptNext  BY <1>3, AcceptSteps DEF RoomStep
<1>4. ASSUME NEW e \in batch, NEW c \in Conn, HandshakeNext(e, c) PROVE RoomStep /\ Places'
  BY <1>4, HandshakeSteps DEF RoomStep
<1>5. ASSUME NEW e \in batch, NEW c \in Conn, ReadNext(e, c) PROVE RoomStep /\ Places'
  BY <1>5, ReadSteps DEF RoomStep
<1>6. ASSUME NEW c \in Conn, ParseNext(c) PROVE RoomStep /\ Places'
  BY <1>6, ParseSteps DEF RoomStep
<1>7. ASSUME NEW e \in batch, NEW c \in Conn, WriteNext(e, c) PROVE RoomStep /\ Places'
  BY <1>7, WriteSteps DEF RoomStep
<1>8. ASSUME NEW e \in batch, StdinNext(e) PROVE RoomStep /\ Places'
  BY <1>8, UserSteps DEF RoomStep
<1>9. CASE server_cleanup  BY <1>9, CleanupSteps DEF RoomStep
<1>10. CASE NetworkNext  BY <1>10, NetworkSteps DEF RoomStep
<1> QED  BY <1>1, <1>2, <1>3, <1>4, <1>5, <1>6, <1>7, <1>8, <1>9, <1>10 DEF Next, ServerNext

-----------------------------------------------------------------------------
(* The inductive invariant.                                                 *)

(* Those the room has not heard of.                                         *)
Silent(c) ==
    Outside(c) \/ conn[c].state \in {"WAITING_FOR_CLIENT_HELLO", "SENDING_SERVER_HELLO"}

(* They have been told nothing but the hello, and nothing was said by them  *)
(* or about them.                                                           *)
Silence ==
    Running => \A c \in Conn : Silent(c) =>
        Heard(c) = <<>> /\ \A i \in 1 .. Len(screen) : screen[i].who # c

(* s is what is left of the n frames c has sent, after the first p.         *)
Counts(s, p, c, n) ==
    /\ Len(s) + p = n /\ n <= MaxFrames
    /\ \A i \in 1 .. Len(s) :
         /\ s[i].says.who = c /\ s[i].says.n = p + i
         /\ s[i].type = "CHAT" => s[i].says.what = "chat"

(* The frames of c that were parsed: its hello, and a frame for every line. *)
Parsed(c) ==
    IF Outside(c) \/ conn[c].state = "WAITING_FOR_CLIENT_HELLO"
    THEN 0 ELSE 1 + Len(ChatsOf(c))

Tracked(c) == Outside(c) \/ conn[c].state # "FREED"

(* No frame of a client is lost between its socket and the screen.          *)
Numbering ==
    Running => \A c \in Conn : Tracked(c) => Counts(Unparsed(c), Parsed(c), c, sent[c])

(* Whatever waits to be parsed was said by the client it came from.         *)
Speakers ==
    Running => \A c \in Conn : Tracked(c) => \A i \in 1 .. Len(Unparsed(c)) :
        /\ Unparsed(c)[i].says.who = c
        /\ Unparsed(c)[i].type = "CHAT" => Unparsed(c)[i].says.what = "chat"

HostOrder ==
    \A i \in 1 .. Len(screen) :
        screen[i].who = Host /\ screen[i].what = "chat" => screen[i].n <= lines

Ordered == Silence /\ Numbering /\ ChatOrder /\ HostOrder

(* What the proofs about the server's steps rest on.                        *)
Base == TypeOK /\ EventDiscipline /\ Greeting /\ Places

-----------------------------------------------------------------------------
(* Counting.                                                                *)

LEMMA CountsTail ==
    ASSUME NEW s \in Seq(Msg), s # <<>>, NEW p \in Nat, NEW c, NEW n, Counts(s, p, c, n)
    PROVE  /\ Counts(Tail(s), p + 1, c, n)
           /\ Head(s).says.who = c /\ Head(s).says.n = p + 1
           /\ Head(s).type = "CHAT" => Head(s).says.what = "chat"
<1>1. Len(s) \in Nat /\ Len(s) # 0  BY LenProperties, EmptySeq
<1>2. 1 \in 1 .. Len(s) /\ Head(s) = s[1]  BY <1>1
<1>3. Head(s).says.who = c /\ Head(s).says.n = p + 1
      /\ (Head(s).type = "CHAT" => Head(s).says.what = "chat")
  BY <1>2 DEF Counts
<1> DEFINE t == Tail(s)
<1>4. /\ Len(t) = Len(s) - 1
      /\ \A i \in 1 .. Len(t) : t[i] = s[i + 1]
  BY HeadTailProperties
<1> HIDE DEF t
<1>5. Len(t) + (p + 1) = n  BY <1>1, <1>4 DEF Counts
<1>6. ASSUME NEW i \in 1 .. Len(t)
      PROVE  /\ t[i].says.who = c /\ t[i].says.n = (p + 1) + i
             /\ t[i].type = "CHAT" => t[i].says.what = "chat"
  <2>1. i + 1 \in 1 .. Len(s) /\ p + (i + 1) = (p + 1) + i  BY <1>1, <1>4
  <2>2. t[i] = s[i + 1]  BY <1>4
  <2> QED  BY <2>1, <2>2 DEF Counts
<1>7. Counts(t, p + 1, c, n)  BY <1>5, <1>6 DEF Counts
<1> QED  BY <1>3, <1>7 DEF t

LEMMA CountsAppend ==
    ASSUME NEW s \in Seq(Msg), NEW p \in Nat, NEW c, NEW n \in Nat, Counts(s, p, c, n),
           NEW m \in Msg, m.says = [who |-> c, what |-> TopicOf(m.type), n |-> n + 1],
           n < MaxFrames
    PROVE  Counts(Append(s, m), p, c, n + 1)
<1> DEFINE a == Append(s, m)
<1>1. /\ Len(s) \in Nat /\ Len(a) = Len(s) + 1
      /\ \A i \in 1 .. Len(s) : a[i] = s[i]
      /\ a[Len(s) + 1] = m
  BY AppendProperties, LenProperties
<1> HIDE DEF a
<1>2. Len(a) + p = n + 1 /\ n + 1 <= MaxFrames
  <2>1. MaxFrames \in Nat  BY SocketsAssumption
  <2>2. Len(s) + p = n  BY DEF Counts
  <2> QED  BY <1>1, <2>1, <2>2
<1>3. ASSUME NEW i \in 1 .. Len(a)
      PROVE  /\ a[i].says.who = c /\ a[i].says.n = p + i
             /\ a[i].type = "CHAT" => a[i].says.what = "chat"
  <2>1. CASE i = Len(s) + 1
    <3>1. p + i = n + 1  BY <1>1, <1>2, <2>1
    <3>2. m.says.who = c /\ m.says.n = n + 1 /\ m.says.what = TopicOf(m.type)
      OBVIOUS
    <3> QED  BY <1>1, <2>1, <3>1, <3>2 DEF TopicOf
  <2>2. CASE i # Len(s) + 1
    <3>1. i \in 1 .. Len(s)  BY <1>1, <2>2
    <3> QED  BY <1>1, <3>1 DEF Counts
  <2> QED  BY <2>1, <2>2
<1>4. Counts(a, p, c, n + 1)  BY <1>2, <1>3 DEF Counts
<1> QED  BY <1>4 DEF a

-----------------------------------------------------------------------------
(* What is told and what is shown.                                          *)

LEMMA Spoken == \A m \in Msg : m.says \in Utterance(Speaker)
  BY MsgFields

LEMMA HeardType ==
    ASSUME TypeOK, Greeting, NEW d \in Conn
    PROVE  /\ Stream(d) \in Seq(Msg)
           /\ Only(Stream(d), Broadcasts) \in Seq(Msg)
           /\ Heard(d) \in Seq(Utterance(Speaker))
<1>1. Stream(d) \in Seq(Msg)  BY Objects, StreamType, StreamIs
<1>2. Only(Stream(d), Broadcasts) \in Seq(Msg)  BY <1>1, OnlyType
<1>3. Heard(d) \in Seq(Utterance(Speaker))  BY <1>2, Spoken, SaysType DEF Heard
<1> QED  BY <1>1, <1>2, <1>3

LEMMA HeardSame ==
    ASSUME NEW d \in Conn, Stream(d)' = Stream(d)
    PROVE  Heard(d)' = Heard(d)
  BY DEF Heard

LEMMA HeardGrows ==
    ASSUME TypeOK, Greeting, NEW d \in Conn, NEW m \in Msg, Stream(d)' = Append(Stream(d), m)
    PROVE  Heard(d)' = IF m \in Broadcasts THEN Append(Heard(d), m.says) ELSE Heard(d)
<1>1. PICK s \in Seq(Msg) : s = Stream(d) /\ Only(s, Broadcasts) \in Seq(Msg)
  BY HeardType
<1>2. Heard(d) = Says(Only(s, Broadcasts)) /\ Heard(d)' = Says(Only(Append(s, m), Broadcasts))
  BY <1>1 DEF Heard
<1>3. Only(Append(s, m), Broadcasts)
        = IF m \in Broadcasts THEN Append(Only(s, Broadcasts), m) ELSE Only(s, Broadcasts)
  BY OnlyAppend
<1>4. Says(Append(Only(s, Broadcasts), m)) = Append(Says(Only(s, Broadcasts)), m.says)
  BY <1>1, Spoken, SaysAppend
<1> QED  BY <1>2, <1>3, <1>4

LEMMA ChatsType ==
    ASSUME TypeOK, NEW c
    PROVE  ChatsOf(c) \in Seq(Utterance(Speaker)) /\ Len(ChatsOf(c)) \in Nat
<1>1. screen \in Seq(Utterance(Speaker))  BY DEF TypeOK, ServerTypeOK
<1>2. ChatsOf(c) \in Seq(Utterance(Speaker))  BY <1>1, OnlyType DEF ChatsOf
<1> QED  BY <1>2, LenProperties

LEMMA ChatsSame ==
    ASSUME UNCHANGED screen, NEW c
    PROVE  ChatsOf(c)' = ChatsOf(c)
  BY DEF ChatsOf

LEMMA ScreenGrows ==
    ASSUME TypeOK, NEW u \in Utterance(Speaker), screen' = Append(screen, u)
    PROVE  /\ Len(screen) \in Nat /\ Len(screen') = Len(screen) + 1
           /\ \A i \in 1 .. Len(screen) : screen'[i] = screen[i]
           /\ screen'[Len(screen) + 1] = u
           /\ \A c \in Conn : ChatsOf(c)' = IF u.who = c /\ u.what = "chat"
                                            THEN Append(ChatsOf(c), u) ELSE ChatsOf(c)
<1>1. screen \in Seq(Utterance(Speaker))  BY DEF TypeOK, ServerTypeOK
<1>2. /\ Len(screen) \in Nat /\ Len(screen') = Len(screen) + 1
      /\ \A i \in 1 .. Len(screen) : screen'[i] = screen[i]
      /\ screen'[Len(screen) + 1] = u
  BY <1>1, AppendProperties, LenProperties
<1>3. ASSUME NEW c \in Conn
      PROVE  ChatsOf(c)' = IF u.who = c /\ u.what = "chat"
                           THEN Append(ChatsOf(c), u) ELSE ChatsOf(c)
  <2>1. ChatsOf(c)' = Only(Append(screen, u), ChatLines(c))  BY DEF ChatsOf
  <2>2. ChatsOf(c)' = IF u \in ChatLines(c) THEN Append(ChatsOf(c), u) ELSE ChatsOf(c)
    BY <1>1, <2>1, OnlyAppend DEF ChatsOf
  <2>3. u \in ChatLines(c) <=> u.who = c /\ u.what = "chat"
    BY DEF ChatLines, Utterance
  <2> QED  BY <2>2, <2>3
<1> QED  BY <1>2, <1>3

-----------------------------------------------------------------------------
(* The invariant is inductive over the kinds of steps.                      *)

LEMMA Remarks ==
    /\ \A m \in Broadcasts : m \in Msg /\ m.says \in Utterance(Speaker)
    /\ ClosingNotice \in Broadcasts
    /\ ClosingNotice.says = [who |-> Host, what |-> "closing", n |-> 0]
    /\ CloseMessage \in Msg /\ CloseMessage \notin Broadcasts
    /\ TypeOK => ServerHello \in Msg /\ ServerHello \notin Broadcasts
<1>1. \A m \in Broadcasts : m \in Msg /\ m.says \in Utterance(Speaker)
  BY MsgFields DEF Broadcasts
<1>2. ClosingNotice \in Broadcasts
  BY ClosingNoticeType, BroadcastKind, Broadcasting DEF ClosingNotice
<1>3. ClosingNotice.says = [who |-> Host, what |-> "closing", n |-> 0]
  BY DEF ClosingNotice, format_broadcast_message, ChatMessage
<1>4. CloseMessage \in Msg /\ CloseMessage \notin Broadcasts
  BY DEF CloseMessage, Msg, Message, MessageType, Utterance, Topic, Speaker, Broadcasts
<1>5. TypeOK => ServerHello \in Msg /\ ServerHello \notin Broadcasts
  BY DEF ServerHello, TypeOK, ServerTypeOK, Msg, Message, MessageType, Utterance,
         Topic, Speaker, Broadcasts
<1> QED  BY <1>1, <1>2, <1>3, <1>4, <1>5

LEMMA Loop == RoomStep /\ Running' => Running
  BY DEF RoomStep, Idles, HostSpeaks, Closes, Stops, Exits, Accepts, Drops, Greets,
         ReadsFrom, Enters, Speaks, Leaves, Sent, GoesOn, Running

LEMMA SilenceKept ==
    ASSUME Base, Silence, Running, NEW d \in Conn, Silent(d),
           Stream(d)' = Stream(d) \/
             \E m \in Msg : m \notin Broadcasts /\ Stream(d)' = Append(Stream(d), m),
           screen' = screen \/
             \E u \in Utterance(Speaker) : u.who # d /\ screen' = Append(screen, u)
    PROVE  Heard(d)' = <<>> /\ \A i \in 1 .. Len(screen') : screen'[i].who # d
<1>1. Heard(d) = <<>> /\ \A i \in 1 .. Len(screen) : screen[i].who # d
  BY DEF Silence
<1>2. Heard(d)' = <<>>  BY <1>1, HeardSame, HeardGrows DEF Base
<1>3. CASE screen' = screen  BY <1>1, <1>2, <1>3
<1>4. ASSUME NEW u \in Utterance(Speaker), u.who # d, screen' = Append(screen, u)
      PROVE  \A i \in 1 .. Len(screen') : screen'[i].who # d
  <2> TAKE i \in 1 .. Len(screen')
  <2>1. i \in 1 .. Len(screen) \/ i = Len(screen) + 1  BY <1>4, ScreenGrows DEF Base
  <2> QED  BY <1>1, <1>4, <2>1, ScreenGrows DEF Base
<1> QED  BY <1>2, <1>3, <1>4

(* Who speaks while a client's input is parsed.                             *)
LEMMA SpeakerIs ==
    ASSUME Base, Numbering, Running, NEW c \in Conn, Unparsed(c) # <<>>,
           conn[c].state \in {"ACTIVE", "CLOSED"}
    PROVE  /\ Head(Unparsed(c)).says \in Utterance(Speaker)
           /\ Head(Unparsed(c)).says.who = c
           /\ Head(Unparsed(c)).says.n = 2 + Len(ChatsOf(c))
           /\ Head(Unparsed(c)).says.n \in 1 .. MaxFrames
           /\ Head(Unparsed(c)).type = "CHAT" => Head(Unparsed(c)).says.what = "chat"
           /\ Counts(Tail(Unparsed(c)), 2 + Len(ChatsOf(c)), c, sent[c])
<1>1. ~Outside(c)  BY Inside DEF Base
<1>2. PICK n \in Nat : n = Len(ChatsOf(c))  BY ChatsType DEF Base
<1>3. Counts(Unparsed(c), 1 + n, c, sent[c])
  BY <1>1, <1>2 DEF Numbering, Tracked, Parsed
<1>4. PICK s \in Seq(Msg) : s = Unparsed(c)  BY Objects DEF Base
<1>5. 1 + n \in Nat /\ (1 + n) + 1 = 2 + n  BY <1>2
<1>6. /\ Counts(Tail(s), (1 + n) + 1, c, sent[c])
      /\ Head(s).says.who = c /\ Head(s).says.n = (1 + n) + 1
      /\ Head(s).type = "CHAT" => Head(s).says.what = "chat"
  BY <1>3, <1>4, <1>5, CountsTail
<1>7. Head(s).says \in Utterance(Speaker)
  BY <1>4, HeadTailProperties, Spoken
<1>8. 2 + n \in 1 .. MaxFrames
  <2>1. Len(s) \in Nat /\ Len(s) # 0  BY <1>4, LenProperties, EmptySeq
  <2>2. Len(s) + (1 + n) = sent[c] /\ sent[c] <= MaxFrames  BY <1>3, <1>4 DEF Counts
  <2>3. MaxFrames \in Nat  BY SocketsAssumption
  <2> QED  BY <1>2, <2>1, <2>2, <2>3
<1> QED  BY <1>2, <1>4, <1>5, <1>6, <1>7, <1>8

LEMMA NumberedSpeakers == Numbering => Speakers
  BY DEF Numbering, Speakers, Counts

LEMMA SomebodySpeaks ==
    ASSUME Base, Speakers, Running, NEW c \in Conn, Unparsed(c) # <<>>,
           conn[c].state \in {"ACTIVE", "CLOSED"}
    PROVE  /\ Head(Unparsed(c)).says \in Utterance(Speaker)
           /\ Head(Unparsed(c)).says.who = c
           /\ Head(Unparsed(c)).type = "CHAT" => Head(Unparsed(c)).says.what = "chat"
<1>1. PICK s \in Seq(Msg) : s = Unparsed(c)  BY Objects DEF Base
<1>2. Len(s) \in Nat /\ Len(s) # 0  BY <1>1, LenProperties, EmptySeq
<1>3. 1 \in 1 .. Len(s) /\ Head(s) = s[1]  BY <1>2
<1>4. Head(s).says \in Utterance(Speaker)  BY <1>1, HeadTailProperties, Spoken
<1> QED  BY <1>1, <1>3, <1>4 DEF Speakers, Tracked

LEMMA SilenceStep ==
    ASSUME Base, Silence, Speakers, RoomStep
    PROVE  Silence'
<1> SUFFICES ASSUME Running', NEW d \in Conn, Silent(d)'
             PROVE  Heard(d)' = <<>> /\ \A i \in 1 .. Len(screen') : screen'[i].who # d
  BY DEF Silence
<1>1. Running  BY Loop
<1>2. Stays(d) => Silent(d)  BY DEF Stays, Silent, Outside
<1>3. Silent(d) => d \notin Active  BY Inside DEF Base, Silent, Active
<1>4. Host # d  BY SocketsAssumption
<1>5. CASE Idles \/ (\E c \in Conn : Sent(c) /\ c # d)
  BY <1>1, <1>2, <1>5, SilenceKept DEF Idles, Sent, Calm, Hushed
<1>6. CASE Sent(d)
  <2>1. Silent(d)  BY <1>6 DEF Sent, Silent, Outside
  <2> QED  BY <1>1, <1>6, <2>1, SilenceKept DEF Sent, Calm, Hushed
<1>7. CASE HostSpeaks
  <2>1. PICK m \in Broadcasts : /\ m.says = [who |-> Host, what |-> "chat", n |-> lines + 1]
                                 /\ screen' = Append(screen, m.says)
                                 /\ Reaches(Active, m)
    BY <1>7 DEF HostSpeaks
  <2>2. Silent(d) /\ Stream(d)' = Stream(d)
    BY <1>2, <1>3, <1>7, <2>1 DEF HostSpeaks, Reaches
  <2> QED  BY <1>1, <1>4, <2>1, <2>2, Remarks, SilenceKept
<1>8. CASE Closes
  <2>1. Silent(d) /\ Stream(d)' = Stream(d) /\ screen' = Append(screen, ClosingNotice.says)
    BY <1>2, <1>3, <1>8 DEF Closes
  <2> QED  BY <1>1, <1>4, <2>1, Remarks, SilenceKept
<1>9. CASE Stops \/ Exits  BY <1>1, <1>9 DEF Stops, Exits, Running
<1>10. ASSUME NEW c \in Conn, Accepts(c) PROVE Silent(d) /\ Stream(d)' = Stream(d) /\ screen' = screen
  BY <1>2, <1>10 DEF Accepts, Hushed, Calm, Silent
<1>11. ASSUME NEW c \in Conn, Drops(c) PROVE Silent(d) /\ Stream(d)' = Stream(d) /\ screen' = screen
  <2>1. d # c  BY <1>11 DEF Drops, Silent, Outside
  <2> QED  BY <1>2, <1>11, <2>1 DEF Drops, Calm
<1>12. ASSUME NEW c \in Conn, Greets(c)
       PROVE  /\ Silent(d) /\ screen' = screen
              /\ Stream(d)' = Stream(d) \/ Stream(d)' = Append(Stream(d), ServerHello)
  BY <1>2, <1>12 DEF Greets, Calm, Reaches, Silent
<1>13. ASSUME NEW c \in Conn, ReadsFrom(c) PROVE Silent(d) /\ Stream(d)' = Stream(d) /\ screen' = screen
  <2>1. d # c  BY <1>13 DEF ReadsFrom, Silent, Outside
  <2> QED  BY <1>2, <1>13, <2>1 DEF ReadsFrom, Hushed, Calm
<1>14. ASSUME NEW c \in Conn, Enters(c)
       PROVE  Silent(d) /\ Stream(d)' = Stream(d)
              /\ \E u \in Utterance(Speaker) : u.who # d /\ screen' = Append(screen, u)
  <2>1. d # c  BY <1>14 DEF Enters, Silent, Outside
  <2>2. PICK m \in Broadcasts : /\ m.says = [who |-> c, what |-> "connected", n |-> 0]
                                /\ screen' = Append(screen, m.says)
                                /\ Reaches(Active \cup {c}, m)
    BY <1>14 DEF Enters
  <2> QED  BY <1>2, <1>3, <1>14, <2>1, <2>2, Remarks DEF Enters, Reaches
<1>15. ASSUME NEW c \in Conn, Speaks(c)
       PROVE  Silent(d) /\ Stream(d)' = Stream(d)
              /\ \E u \in Utterance(Speaker) : u.who # d /\ screen' = Append(screen, u)
  <2>1. conn[c].state \in {"ACTIVE", "CLOSED"}  BY <1>15 DEF Speaks, Base, Places
  <2>2. d # c  BY <1>15, <2>1 DEF Speaks, Silent, Outside
  <2>3. PICK m \in Broadcasts : /\ m.says = Head(Unparsed(c)).says
                                /\ screen' = Append(screen, m.says)
                                /\ Reaches(Active \ {c}, m)
    BY <1>15 DEF Speaks
  <2>4. m.says.who = c  BY <1>1, <1>15, <2>1, <2>3, SomebodySpeaks DEF Speaks
  <2> QED  BY <1>2, <1>3, <1>15, <2>2, <2>3, <2>4, Remarks DEF Speaks, Reaches
<1>16. ASSUME NEW c \in Conn, Leaves(c)
       PROVE  Silent(d) /\ Stream(d)' = Stream(d)
              /\ \E u \in Utterance(Speaker) : u.who # d /\ screen' = Append(screen, u)
  <2>1. d # c  BY <1>16 DEF Leaves, Silent, Outside
  <2>2. PICK m \in Broadcasts : /\ m.says = [who |-> c, what |-> "disconnected", n |-> 0]
                                /\ screen' = Append(screen, m.says)
                                /\ \A e \in Conn \ {c} :
                                     Stream(e)' = IF e \in Active THEN Append(Stream(e), m)
                                                  ELSE Stream(e)
    BY <1>16 DEF Leaves
  <2> QED  BY <1>2, <1>3, <1>16, <2>1, <2>2, Remarks DEF Leaves
<1>17. CASE \E c \in Conn : Accepts(c) \/ Drops(c) \/ Greets(c) \/ ReadsFrom(c)
  <2>1. TypeOK  BY DEF Base
  <2> QED  BY <1>1, <1>10, <1>11, <1>12, <1>13, <1>17, <2>1, SilenceKept, Remarks
<1>18. CASE \E c \in Conn : Enters(c) \/ Speaks(c) \/ Leaves(c)
  BY <1>1, <1>14, <1>15, <1>16, <1>18, SilenceKept
<1> QED  BY <1>5, <1>6, <1>7, <1>8, <1>9, <1>17, <1>18 DEF RoomStep

(* What a step may show: a notice, the next line of the server's user, or   *)
(* the next line of a client.                                               *)
Line(u) ==
    \/ u.what # "chat"
    \/ u.who = Host /\ u.n = lines + 1 /\ lines' = lines + 1
    \/ \E c \in Conn : /\ Running /\ conn[c].state \in {"ACTIVE", "CLOSED"}
                      /\ Unparsed(c) # <<>> /\ u = Head(Unparsed(c)).says /\ u.who = c

LEMMA Shows ==
    ASSUME Base, Speakers, RoomStep
    PROVE  /\ lines' >= lines
           /\ screen' = screen \/
                \E u \in Utterance(Speaker) : Line(u) /\ screen' = Append(screen, u)
<1>1. TypeOK /\ lines >= lines /\ lines + 1 >= lines  BY Lines DEF Base
<1>2. CASE Idles \/ Exits \/ \E c \in Conn : Accepts(c) \/ Drops(c) \/ Greets(c) \/ ReadsFrom(c) \/ Sent(c)
  BY <1>1, <1>2 DEF Idles, Exits, Accepts, Drops, Greets, ReadsFrom, Sent, Calm
<1>3. CASE Closes  BY <1>3, Remarks DEF Closes, Line
<1>4. CASE HostSpeaks
  <2>1. PICK m \in Broadcasts : /\ m.says = [who |-> Host, what |-> "chat", n |-> lines + 1]
                                /\ screen' = Append(screen, m.says)
    BY <1>4 DEF HostSpeaks
  <2> QED  BY <1>1, <1>4, <2>1, Remarks DEF HostSpeaks, Line
<1>5. ASSUME NEW c \in Conn, Enters(c) \/ Leaves(c) PROVE lines' >= lines /\
        \E u \in Utterance(Speaker) : Line(u) /\ screen' = Append(screen, u)
  <2>1. PICK m \in Broadcasts : /\ m.says = [who |-> c, what |-> "connected", n |-> 0] \/
                                   m.says = [who |-> c, what |-> "disconnected", n |-> 0]
                                /\ screen' = Append(screen, m.says)
    BY <1>5 DEF Enters, Leaves
  <2>2. lines' = lines  BY <1>5 DEF Enters, Leaves
  <2> QED  BY <1>1, <2>1, <2>2, Remarks DEF Line
<1>6. ASSUME NEW c \in Conn, Unparsed(c) # <<>>, Head(Unparsed(c)).type = "CHAT",
             conn[c].state \in {"ACTIVE", "CLOSED"}, Running
      PROVE  Head(Unparsed(c)).says \in Utterance(Speaker) /\ Line(Head(Unparsed(c)).says)
  BY <1>6, SomebodySpeaks DEF Line
<1>7. ASSUME NEW c \in Conn, Speaks(c) PROVE lines' >= lines /\
        \E u \in Utterance(Speaker) : Line(u) /\ screen' = Append(screen, u)
  <2>1. conn[c].state \in {"ACTIVE", "CLOSED"} /\ Running
    BY <1>7 DEF Speaks, Base, Places, GoesOn
  <2>2. /\ Unparsed(c) # <<>> /\ Head(Unparsed(c)).type = "CHAT" /\ lines' = lines
        /\ screen' = Append(screen, Head(Unparsed(c)).says)
    BY <1>7 DEF Speaks
  <2> QED  BY <1>1, <1>6, <2>1, <2>2
<1>8. CASE Stops
  <2>1. ASSUME NEW u, Utters(u) PROVE u \in Utterance(Speaker) /\ Line(u)
    <3>1. CASE u \in Utterance(Speaker) /\ u.n = 0 /\ u.what \in {"connected", "disconnected", "closing"}
      BY <3>1 DEF Line
    <3>2. CASE u = [who |-> Host, what |-> "chat", n |-> lines + 1] /\ lines' = lines + 1
      <4>1. lines + 1 \in Nat  BY <1>1, Lines
      <4> QED  BY <3>2, <4>1 DEF Line, Utterance, Topic, Speaker
    <3>3. CASE \E c \in Conn : /\ conn[c].state \in {"ACTIVE", "CLOSED"}
                               /\ Unparsed(c) # <<>> /\ Head(Unparsed(c)).type = "CHAT"
                               /\ u = Head(Unparsed(c)).says
      BY <1>6, <1>8, <3>3 DEF Stops
    <3> QED  BY <2>1, <3>1, <3>2, <3>3 DEF Utters
  <2> QED  BY <1>8, <2>1 DEF Stops
<1> QED  BY <1>2, <1>3, <1>4, <1>5, <1>7, <1>8 DEF RoomStep

LEMMA ChatStep ==
    ASSUME Base, Numbering, ChatOrder, RoomStep
    PROVE  ChatOrder'
<1> SUFFICES ASSUME NEW c \in Conn, NEW i \in 1 .. Len(ChatsOf(c)')
             PROVE  ChatsOf(c)'[i].n = i + 1
  BY DEF ChatOrder
<1>1. TypeOK  BY DEF Base
<1>2. PICK s \in Seq(Utterance(Speaker)) :
        s = ChatsOf(c) /\ Len(s) \in Nat /\ \A j \in 1 .. Len(s) : s[j].n = j + 1
  BY <1>1, ChatsType DEF ChatOrder
<1>3. CASE ChatsOf(c)' = ChatsOf(c)  BY <1>2, <1>3
<1>4. CASE ChatsOf(c)' # ChatsOf(c)
  <2>1. PICK u \in Utterance(Speaker) : Line(u) /\ screen' = Append(screen, u)
    BY <1>4, NumberedSpeakers, Shows, ChatsSame
  <2>2. u.who = c /\ u.what = "chat" /\ ChatsOf(c)' = Append(s, u)
    BY <1>1, <1>2, <1>4, <2>1, ScreenGrows
  <2>3. u.n = Len(s) + 2
    <3>1. Host # c  BY SocketsAssumption
    <3>2. /\ Running /\ conn[c].state \in {"ACTIVE", "CLOSED"}
          /\ Unparsed(c) # <<>> /\ u = Head(Unparsed(c)).says
      BY <2>1, <2>2, <3>1 DEF Line
    <3> QED  BY <1>2, <3>2, SpeakerIs
  <2> DEFINE t == Append(s, u)
  <2>4. /\ Len(t) = Len(s) + 1 /\ t[Len(s) + 1] = u
        /\ \A j \in 1 .. Len(s) : t[j] = s[j]
    BY AppendProperties
  <2> HIDE DEF t
  <2>5. i \in 1 .. Len(t)  BY <2>2 DEF t
  <2>6. t[i].n = i + 1
    <3>1. CASE i = Len(s) + 1  BY <1>2, <2>3, <2>4, <3>1
    <3>2. CASE i # Len(s) + 1
      <4>1. i \in 1 .. Len(s)  BY <1>2, <2>4, <2>5, <3>2
      <4> QED  BY <1>2, <2>4, <4>1
    <3> QED  BY <3>1, <3>2
  <2> QED  BY <2>2, <2>6 DEF t
<1> QED  BY <1>3, <1>4

LEMMA HostStep ==
    ASSUME Base, Speakers, HostOrder, RoomStep, TypeOK'
    PROVE  HostOrder'
<1> SUFFICES ASSUME NEW i \in 1 .. Len(screen'), screen'[i].who = Host, screen'[i].what = "chat"
             PROVE  screen'[i].n <= lines'
  BY DEF HostOrder
<1>1. TypeOK /\ lines \in Nat /\ lines' \in Nat /\ lines' >= lines
  BY Lines, Shows DEF Base, TypeOK, ServerTypeOK
<1>2. ASSUME NEW j \in 1 .. Len(screen), screen[j].who = Host, screen[j].what = "chat"
      PROVE  screen[j].n <= lines'
  <2>1. PICK n \in Nat : n = screen[j].n
    <3>1. PICK s \in Seq(Utterance(Speaker)) : s = screen  BY <1>1 DEF TypeOK, ServerTypeOK
    <3>2. j \in 1 .. Len(s)  BY <1>2, <3>1
    <3>3. s[j] \in Utterance(Speaker)  BY <3>2, ElementOfSeq
    <3> QED  BY <3>1, <3>3 DEF Utterance
  <2>2. n <= lines  BY <1>2, <2>1 DEF HostOrder
  <2> QED  BY <1>1, <2>1, <2>2
<1>3. CASE screen' = screen  BY <1>2, <1>3
<1>4. ASSUME NEW u \in Utterance(Speaker), Line(u), screen' = Append(screen, u)
      PROVE  screen'[i].n <= lines'
  <2>1. i \in 1 .. Len(screen) \/ i = Len(screen) + 1  BY <1>1, <1>4, ScreenGrows
  <2>2. CASE i \in 1 .. Len(screen)
    <3>1. screen'[i] = screen[i]  BY <1>1, <1>4, <2>2, ScreenGrows
    <3> QED  BY <1>2, <2>2, <3>1
  <2>3. CASE i = Len(screen) + 1
    <3>1. screen'[i] = u  BY <1>1, <1>4, <2>3, ScreenGrows
    <3>2. u.n = lines + 1 /\ lines' = lines + 1
      BY <1>4, <3>1, SocketsAssumption DEF Line
    <3> QED  BY <1>1, <3>1, <3>2
  <2> QED  BY <2>1, <2>2, <2>3
<1> QED  BY <1>3, <1>4, Shows

(* Whoever has said nothing has no line on the screen.                      *)
LEMMA Quiet ==
    ASSUME TypeOK, NEW c \in Conn, \A i \in 1 .. Len(screen) : screen[i].who # c
    PROVE  ChatsOf(c) = <<>>
<1>1. PICK s \in Seq(Utterance(Speaker)) : s = screen  BY DEF TypeOK, ServerTypeOK
<1>2. Elements(Only(s, ChatLines(c))) = Elements(s) \cap ChatLines(c)  BY OnlyElements
<1>3. Elements(s) \cap ChatLines(c) = {}  BY <1>1 DEF Elements, ChatLines
<1>4. Only(s, ChatLines(c)) \in Seq(Utterance(Speaker))  BY OnlyType
<1>5. PICK t \in Seq(Utterance(Speaker)) : t = ChatsOf(c)  BY <1>1, <1>4 DEF ChatsOf
<1>6. Elements(t) = {}  BY <1>1, <1>2, <1>3, <1>5 DEF ChatsOf
<1>7. Len(t) \in Nat  BY LenProperties
<1>8. ASSUME 1 \in 1 .. Len(t) PROVE FALSE
  <2>1. t[1] \in Elements(t)  BY <1>8 DEF Elements
  <2> QED  BY <1>6, <2>1
<1>9. Len(t) = 0  BY <1>7, <1>8
<1> QED  BY <1>5, <1>9, EmptySeq

LEMMA NumberingStep ==
    ASSUME Base, Silence, Numbering, RoomStep
    PROVE  Numbering'
<1> SUFFICES ASSUME Running', NEW d \in Conn, Tracked(d)'
             PROVE  Counts(Unparsed(d)', Parsed(d)', d, sent'[d])
  BY DEF Numbering
<1>1. Running /\ TypeOK  BY Loop DEF Base
<1>2. Tracked(d) => Counts(Unparsed(d), Parsed(d), d, sent[d])  BY <1>1 DEF Numbering
<1>3. ASSUME Stays(d), ChatsOf(d)' = ChatsOf(d)
      PROVE  Counts(Unparsed(d)', Parsed(d)', d, sent'[d])
  <2>1. Tracked(d) /\ Parsed(d)' = Parsed(d)  BY <1>3 DEF Stays, Tracked, Parsed, Outside
  <2> QED  BY <1>2, <1>3, <2>1 DEF Stays
<1>4. ASSUME Stays(d), UNCHANGED screen
      PROVE  Counts(Unparsed(d)', Parsed(d)', d, sent'[d])
  BY <1>3, <1>4, ChatsSame
<1>5. ASSUME Stays(d), NEW m \in Broadcasts, screen' = Append(screen, m.says),
             m.says.who # d \/ m.says.what # "chat"
      PROVE  Counts(Unparsed(d)', Parsed(d)', d, sent'[d])
  <2>1. ChatsOf(d)' = ChatsOf(d)  BY <1>1, <1>5, ScreenGrows, Remarks
  <2> QED  BY <1>3, <1>5, <2>1
<1>6. CASE Idles  BY <1>4, <1>6 DEF Idles
<1>7. CASE HostSpeaks
  <2>1. PICK m \in Broadcasts : /\ m.says = [who |-> Host, what |-> "chat", n |-> lines + 1]
                                /\ screen' = Append(screen, m.says)
    BY <1>7 DEF HostSpeaks
  <2>2. m.says.who # d  BY <2>1, SocketsAssumption
  <2> QED  BY <1>5, <1>7, <2>1, <2>2 DEF HostSpeaks
<1>8. CASE Closes
  BY <1>5, <1>8, Remarks DEF Closes
<1>9. CASE Stops \/ Exits  BY <1>1, <1>9 DEF Stops, Exits, Running
<1>10. ASSUME NEW c \in Conn, Accepts(c) PROVE Counts(Unparsed(d)', Parsed(d)', d, sent'[d])
  <2>1. CASE d # c  BY <1>4, <1>10, <2>1 DEF Accepts, Calm
  <2>2. CASE d = c
    <3>1. Tracked(d) /\ Parsed(d) = 0 /\ Parsed(d)' = 0  BY <1>10, <2>2 DEF Accepts, Tracked, Parsed
    <3> QED  BY <1>2, <1>10, <2>2, <3>1 DEF Accepts
  <2> QED  BY <2>1, <2>2
<1>11. ASSUME NEW c \in Conn, Drops(c) PROVE Counts(Unparsed(d)', Parsed(d)', d, sent'[d])
  <2>1. d # c  BY <1>11 DEF Drops, Tracked, Outside
  <2> QED  BY <1>4, <1>11, <2>1 DEF Drops, Calm
<1>12. ASSUME NEW c \in Conn, Greets(c) PROVE Counts(Unparsed(d)', Parsed(d)', d, sent'[d])
  <2>1. CASE d # c  BY <1>4, <1>12, <2>1 DEF Greets, Calm
  <2>2. CASE d = c
    <3>1. ChatsOf(c) = <<>>
      <4>1. \A i \in 1 .. Len(screen) : screen[i].who # c
        BY <1>1, <1>12 DEF Greets, Silence, Silent
      <4> QED  BY <1>1, <4>1, Quiet
    <3>2. ChatsOf(c)' = <<>> /\ Len(<<>>) = 0
      BY <1>12, <3>1, ChatsSame, EmptySeq DEF Greets, Calm
    <3>3. Tracked(d) /\ Parsed(d) = 0 /\ Parsed(d)' = 1
      BY <1>12, <2>2, <3>2 DEF Greets, Tracked, Parsed
    <3>4. PICK s \in Seq(Msg) : s = Unparsed(d)  BY Objects DEF Base
    <3>5. Counts(Tail(s), 0 + 1, d, sent[d])
      BY <1>2, <1>12, <2>2, <3>3, <3>4, CountsTail DEF Greets
    <3>6. Counts(Tail(s), 1, d, sent[d])  BY <3>5
    <3> QED  BY <1>12, <2>2, <3>3, <3>4, <3>6 DEF Greets
  <2> QED  BY <2>1, <2>2
<1>13. ASSUME NEW c \in Conn, ReadsFrom(c) PROVE Counts(Unparsed(d)', Parsed(d)', d, sent'[d])
  <2>1. CASE d # c  BY <1>4, <1>13, <2>1 DEF ReadsFrom, Calm
  <2>2. CASE d = c
    <3>1. ChatsOf(d)' = ChatsOf(d)  BY <1>13, ChatsSame DEF ReadsFrom, Calm
    <3>2. Tracked(d) /\ Parsed(d)' = Parsed(d)
      BY <1>13, <2>2, <3>1 DEF ReadsFrom, Tracked, Parsed
    <3> QED  BY <1>2, <1>13, <2>2, <3>2 DEF ReadsFrom
  <2> QED  BY <2>1, <2>2
<1>14. ASSUME NEW c \in Conn, Enters(c) PROVE Counts(Unparsed(d)', Parsed(d)', d, sent'[d])
  <2>1. PICK m \in Broadcasts : /\ m.says = [who |-> c, what |-> "connected", n |-> 0]
                                /\ screen' = Append(screen, m.says)
    BY <1>14 DEF Enters
  <2>2. CASE d # c  BY <1>5, <1>14, <2>1, <2>2 DEF Enters
  <2>3. CASE d = c
    <3>1. ChatsOf(d)' = ChatsOf(d)  BY <1>1, <2>1, ScreenGrows, Remarks
    <3>2. Tracked(d) /\ Parsed(d)' = Parsed(d)
      BY <1>14, <2>3, <3>1 DEF Enters, Tracked, Parsed
    <3> QED  BY <1>2, <1>14, <2>3, <3>2 DEF Enters
  <2> QED  BY <2>2, <2>3
<1>15. ASSUME NEW c \in Conn, Speaks(c) PROVE Counts(Unparsed(d)', Parsed(d)', d, sent'[d])
  <2>1. conn[c].state \in {"ACTIVE", "CLOSED"}  BY <1>15 DEF Speaks, Base, Places
  <2>2. PICK m \in Broadcasts : /\ m.says = Head(Unparsed(c)).says
                                /\ screen' = Append(screen, m.says)
    BY <1>15 DEF Speaks
  <2>3. /\ m.says.who = c /\ m.says.what = "chat"
        /\ Counts(Tail(Unparsed(c)), 2 + Len(ChatsOf(c)), c, sent[c])
    BY <1>1, <1>15, <2>1, <2>2, SpeakerIs DEF Speaks
  <2>4. CASE d # c  BY <1>5, <1>15, <2>2, <2>3, <2>4 DEF Speaks
  <2>5. CASE d = c
    <3>1. PICK s \in Seq(Utterance(Speaker)) : s = ChatsOf(c) /\ Len(s) \in Nat
      BY <1>1, ChatsType
    <3>2. ChatsOf(c)' = Append(s, m.says)  BY <1>1, <2>2, <2>3, <3>1, ScreenGrows, Remarks
    <3>3. Len(Append(s, m.says)) = Len(s) + 1  BY Remarks, AppendProperties
    <3>4. Parsed(c)' = 1 + Len(ChatsOf(c)')
      BY <1>15, <2>1 DEF Speaks, Parsed
    <3>5. Parsed(c)' = 2 + Len(s)  BY <3>1, <3>2, <3>3, <3>4
    <3> QED  BY <1>15, <2>3, <2>5, <3>1, <3>5 DEF Speaks
  <2> QED  BY <2>4, <2>5
<1>16. ASSUME NEW c \in Conn, Leaves(c) PROVE Counts(Unparsed(d)', Parsed(d)', d, sent'[d])
  <2>1. PICK m \in Broadcasts : /\ m.says = [who |-> c, what |-> "disconnected", n |-> 0]
                                /\ screen' = Append(screen, m.says)
    BY <1>16 DEF Leaves
  <2>2. d # c  BY <1>16 DEF Leaves, Tracked, Outside
  <2> QED  BY <1>5, <1>16, <2>1, <2>2 DEF Leaves
<1>17. ASSUME NEW c \in Conn, Sent(c) PROVE Counts(Unparsed(d)', Parsed(d)', d, sent'[d])
  <2>1. CASE d # c  BY <1>4, <1>17, <2>1 DEF Sent, Calm
  <2>2. CASE d = c
    <3>1. ChatsOf(d)' = ChatsOf(d)  BY <1>17, ChatsSame DEF Sent, Calm
    <3>2. Tracked(d) /\ Parsed(d)' = Parsed(d)
      BY <1>17, <2>2, <3>1 DEF Sent, Tracked, Parsed, Outside
    <3>3. PICK m \in Msg : /\ m.says = [who |-> c, what |-> TopicOf(m.type), n |-> sent[c] + 1]
                           /\ Unparsed(c)' = Append(Unparsed(c), m)
      BY <1>17 DEF Sent
    <3>4. PICK s \in Seq(Msg) : s = Unparsed(c)  BY Objects DEF Base
    <3>5. PICK p \in Nat : p = Parsed(c)
      BY <1>1, ChatsType DEF Parsed
    <3>6. sent[c] \in Nat  BY <1>1 DEF TypeOK, SocketsTypeOK
    <3>7. Counts(s, p, c, sent[c])  BY <1>2, <2>2, <3>2, <3>4, <3>5
    <3>8. sent[c] < MaxFrames /\ sent'[c] = sent[c] + 1  BY <1>17 DEF Sent
    <3>9. Counts(Append(s, m), p, c, sent[c] + 1)
      BY <3>3, <3>6, <3>7, <3>8, CountsAppend
    <3> QED  BY <2>2, <3>2, <3>3, <3>4, <3>5, <3>8, <3>9
  <2> QED  BY <2>1, <2>2
<1> QED
  BY <1>6, <1>7, <1>8, <1>9, <1>10, <1>11, <1>12, <1>13, <1>14, <1>15, <1>16, <1>17
     DEF RoomStep

-----------------------------------------------------------------------------
(* The bound on the typed lines.  A line is typed only where one is left:   *)
(* at most one record of a batch is about the terminal.                     *)

TypedLine == [fd |-> StdinFd, flags |-> {"EPOLLIN"}, owner |-> None]

Typing ==
    /\ lines <= MaxLines
    /\ \A e \in batch : e.fd = StdinFd => e = TypedLine /\ lines < MaxLines

LEMMA WaitTypes ==
    ASSUME EventDiscipline, Typing, epoll_wait
    PROVE  Typing'
<1>1. PICK typed \in SUBSET StdinEvents : batch' \subseteq ReadyEvents \cup typed
  BY DEF epoll_wait, kSubset
<1>2. lines' = lines  BY DEF epoll_wait, userVars
<1>3. ASSUME NEW e \in batch', e.fd = StdinFd
      PROVE  e = TypedLine /\ lines < MaxLines
  <2>1. CASE e \in ConnectionEvents
    <3>1. e.fd \in Fd  BY <2>1 DEF ConnectionEvents, EventDiscipline, LiveDescriptors
    <3> QED  BY <1>3, <3>1, ServerAssumption
  <2>2. CASE e = [fd |-> ListenFd, flags |-> {"EPOLLIN"}, owner |-> None]
    BY <1>3, <2>2, ServerAssumption
  <2>3. CASE e \in StdinEvents  BY <2>3 DEF StdinEvents, TypedLine
  <2> QED  BY <1>1, <2>1, <2>2, <2>3 DEF ReadyEvents
<1> QED  BY <1>2, <1>3 DEF Typing

LEMMA TypedStep ==
    ASSUME TypeOK, EventDiscipline, Typing, [Next]_vars
    PROVE  Typing'
<1>1. CASE epoll_wait  BY <1>1, WaitTypes
<1>2. ASSUME NEW e \in batch, StdinNext(e) PROVE Typing'
  <2>1. /\ e.fd = StdinFd /\ batch' = batch \ {e} /\ lines' = lines + 1
    BY <1>2 DEF StdinNext, StdinEof, StdinIgnored, StdinChat, StdinQuit, StdinEvent,
                event_is_read_stdin, Rest
  <2>2. lines \in Nat /\ lines < MaxLines /\ MaxLines \in Nat
    BY <2>1, ServerAssumption DEF Typing, TypeOK, ServerTypeOK
  <2>3. \A d \in batch' : d.fd # StdinFd  BY <2>1 DEF Typing
  <2>4. lines' <= MaxLines  BY <2>1, <2>2
  <2> QED  BY <2>3, <2>4 DEF Typing
<1>3. ASSUME batch' \subseteq batch, lines' = lines PROVE Typing'
  BY <1>3 DEF Typing
<1>4. CASE UNCHANGED vars  BY <1>3, <1>4 DEF vars, serverVars, userVars
<1>5. CASE (\E e \in batch : SkipEvent(e)) \/ EndOfBatch
  BY <1>3, <1>5 DEF SkipEvent, EndOfBatch, Rest, userVars
<1>6. CASE AcceptNext
  BY <1>3, <1>6 DEF AcceptNext, handle_accept_client_connection_event, AcceptOne, AcceptDone,
     AcceptWithoutDescriptor, AcceptAborted, AcceptNotWatched, AcceptLost, Rest, userVars
<1>7. ASSUME NEW e \in batch, NEW c \in Conn, HandshakeNext(e, c) PROVE Typing'
  BY <1>3, <1>7 DEF HandshakeNext, HelloIncomplete, HelloRejected, HelloAccepted, HelloEvent,
     Rest, userVars
<1>8. ASSUME NEW e \in batch, NEW c \in Conn, ReadNext(e, c) PROVE Typing'
  BY <1>3, <1>8 DEF ReadNext, ReadFails, ReadInput, ReadEvent, Rest, userVars
<1>9. ASSUME NEW c \in Conn, ParseNext(c) PROVE Typing'
  BY <1>3, <1>9 DEF ParseNext, ParseNothing, ParseRejects, ParseLeave, ParseChat, Parsing, userVars
<1>10. ASSUME NEW e \in batch, NEW c \in Conn, WriteNext(e, c) PROVE Typing'
  BY <1>3, <1>10 DEF WriteNext, SendFails, SendPartial, SendHelloDone, SendDone, SendAll,
     SendEvent, Rest, userVars
<1>11. CASE server_cleanup  BY <1>3, <1>11 DEF server_cleanup, userVars
<1>12. CASE NetworkNext  BY <1>3, <1>12 DEF NetworkNext, serverVars, userVars
<1> QED  BY <1>1, <1>2, <1>4, <1>5, <1>6, <1>7, <1>8, <1>9, <1>10, <1>11, <1>12
         DEF Next, ServerNext

-----------------------------------------------------------------------------
(* The beginning.                                                           *)

LEMMA Started ==
    ASSUME Init
    PROVE  Base /\ Ordered /\ Typing
<1>1. Base  BY InitType, InitEvents, InitGreets, InitPlaces DEF Base
<1>2. /\ screen = <<>> /\ lines = 0 /\ batch = {} /\ lines \in Nat /\ MaxLines \in Nat
      /\ \A c \in Conn : wire[c] = <<>> /\ conn[c] = NoConnection /\ sent[c] = 0
                         /\ arrived[c] = <<>> /\ tcp[c] = "none"
  BY ServerAssumption DEF Init, SocketsInit
<1>3. Typing  BY <1>2 DEF Typing
<1>4. HostOrder
  <2>1. Len(screen) = 0  BY <1>2, EmptySeq
  <2> QED  BY <2>1 DEF HostOrder
<1>5. ASSUME NEW S PROVE Only(<<>>, S) = <<>>  BY OnlyEmpty
<1>6. ASSUME NEW c \in Conn
      PROVE  /\ Heard(c) = <<>> /\ ChatsOf(c) = <<>> /\ Unparsed(c) = <<>>
             /\ \A i \in 1 .. Len(screen) : screen[i].who # c
  <2>1. conn[c].out_buffer = <<>> /\ conn[c].in_buffer = <<>> /\ arrived[c] = <<>>
        /\ wire[c] = <<>> /\ conn[c].bytes_written = 0
    BY <1>2 DEF NoConnection
  <2>2. Unparsed(c) = <<>>
    <3>1. <<>> \o <<>> = <<>>  BY EmptySeq, ConcatProperties
    <3> QED  BY <2>1, <3>1 DEF Unparsed
  <2>3. Stream(c) = <<>>
    <3>1. SubSeq(<<>>, 1, 0) = <<>> /\ <<>> \o <<>> = <<>>  BY EmptySeq, ConcatProperties, SubSeqProperties
    <3>2. Len(<<>>) = 0  BY EmptySeq
    <3>3. Stream(c) = <<>> \o SubSeq(<<>>, 0 + 1, Len(<<>>))  BY <2>1 DEF Stream
    <3> QED  BY <3>1, <3>2, <3>3
  <2>4. Heard(c) = <<>>
    <3>1. Says(<<>>) = <<>>  BY EmptySeq DEF Says
    <3> QED  BY <1>5, <2>3, <3>1 DEF Heard
  <2>5. ChatsOf(c) = <<>>  BY <1>2, <1>5 DEF ChatsOf
  <2>6. Len(screen) = 0  BY <1>2, EmptySeq
  <2> QED  BY <2>2, <2>4, <2>5, <2>6
<1>7. Silence  BY <1>6 DEF Silence
<1>8. Len(<<>>) = 0 /\ MaxFrames \in Nat  BY EmptySeq, SocketsAssumption
<1>9. Numbering
  <2>1. ASSUME NEW c \in Conn PROVE Counts(Unparsed(c), Parsed(c), c, sent[c])
    <3>1. Parsed(c) = 0  BY <1>2 DEF Parsed, Outside
    <3>2. Counts(<<>>, 0, c, 0)  BY <1>8 DEF Counts
    <3> QED  BY <1>2, <1>6, <3>1, <3>2
  <2> QED  BY <2>1 DEF Numbering
<1>10. ChatOrder  BY <1>6, <1>8 DEF ChatOrder
<1> QED  BY <1>1, <1>3, <1>4, <1>7, <1>9, <1>10 DEF Ordered

Orderly == Base /\ Ordered /\ Typing

LEMMA OrderlyStep ==
    ASSUME Orderly, [Next]_vars
    PROVE  Orderly' /\ RoomStep
<1>1. TypeOK /\ EventDiscipline /\ Greeting /\ Places  BY DEF Orderly, Base
<1>2. TypeOK' /\ EventDiscipline'  BY <1>1, TypeStep, EventStep
<1>3. Greeting'  BY <1>1, <1>2, GreetStep
<1>4. RoomStep /\ Places'  BY <1>1, <1>2, StepKinds
<1>5. Base'  BY <1>2, <1>3, <1>4 DEF Base
<1>6. Ordered'
  <2>1. Silence' /\ Numbering' /\ ChatOrder' /\ HostOrder'
    BY <1>2, <1>4, NumberedSpeakers, SilenceStep, NumberingStep, ChatStep, HostStep
       DEF Orderly, Ordered
  <2> QED  BY <2>1 DEF Ordered
<1>7. Typing'  BY <1>1, TypedStep DEF Orderly
<1> QED  BY <1>4, <1>5, <1>6, <1>7 DEF Orderly

(* The lines of one client appear on the screen in the order it sent them,  *)
(* each once and none left out, however reads split its frames and however  *)
(* many clients speak at once (server.cpp, handle_read_network_package_event *)
(* and its loop over protocol_parse_message).                               *)
THEOREM LinesInOrder == Spec => []ChatOrder
<1>1. Init => Orderly  BY Started DEF Orderly
<1>2. Orderly /\ [Next]_vars => Orderly'  BY OrderlyStep
<1>3. Orderly => ChatOrder  BY DEF Orderly, Ordered
<1> QED  BY <1>1, <1>2, <1>3, PTL DEF Spec

-----------------------------------------------------------------------------
(* The server's steps are steps of the room.                                *)

(* The next line of a client is later than all that are shown.              *)
NextLines ==
    Running => \A c \in Conn :
        (/\ conn[c].state \in {"ACTIVE", "CLOSED"} /\ Unparsed(c) # <<>>
         /\ Head(Unparsed(c)).type = "CHAT") =>
        /\ Head(Unparsed(c)).says.n \in Number
        /\ \A i \in 1 .. Len(screen) :
             screen[i].who = c /\ screen[i].what = "chat" =>
               screen[i].n < Head(Unparsed(c)).says.n

(* What that rests on, whoever the clients are.                             *)
Sociable == Base /\ Silence /\ Speakers /\ HostOrder /\ Typing /\ NextLines

(* A line of c on the screen is one of the lines of c.                      *)
LEMMA OneOfTheLines ==
    ASSUME TypeOK, NEW c \in Conn, NEW i \in 1 .. Len(screen),
           screen[i].who = c, screen[i].what = "chat"
    PROVE  \E j \in 1 .. Len(ChatsOf(c)) : screen[i] = ChatsOf(c)[j]
<1>1. PICK s \in Seq(Utterance(Speaker)) : s = screen  BY DEF TypeOK, ServerTypeOK
<1>2. s[i] \in Utterance(Speaker) /\ s[i] \in Elements(s) /\ s[i] \in ChatLines(c)
  <2>1. i \in 1 .. Len(s)  BY <1>1
  <2>2. s[i] \in Utterance(Speaker)  BY <2>1, ElementOfSeq
  <2>3. s[i] \in Elements(s)  BY <2>1 DEF Elements
  <2>4. s[i].who = c /\ s[i].what = "chat"  BY <1>1
  <2> QED  BY <2>2, <2>3, <2>4 DEF ChatLines, Utterance
<1>3. PICK t \in Seq(Utterance(Speaker)) : t = ChatsOf(c)  BY ChatsType
<1>4. Elements(t) = Elements(s) \cap ChatLines(c)  BY <1>1, <1>3, OnlyElements DEF ChatsOf
<1> QED  BY <1>1, <1>2, <1>3, <1>4 DEF Elements

(* The lines a speaker said before have smaller numbers.                    *)
LEMMA EarlierLines ==
    ASSUME TypeOK, ChatOrder, NEW c \in Conn, NEW i \in 1 .. Len(screen),
           screen[i].who = c, screen[i].what = "chat"
    PROVE  screen[i].n < 2 + Len(ChatsOf(c))
<1>1. PICK j \in 1 .. Len(ChatsOf(c)) : screen[i] = ChatsOf(c)[j]  BY OneOfTheLines
<1>2. PICK t \in Seq(Utterance(Speaker)) : t = ChatsOf(c)  BY ChatsType
<1>3. t[j].n = j + 1  BY <1>1, <1>2 DEF ChatOrder
<1>4. Len(t) \in Nat  BY LenProperties
<1> QED  BY <1>1, <1>2, <1>3, <1>4

LEMMA OrderlySociable == Orderly => Sociable
<1> SUFFICES ASSUME Orderly PROVE Sociable
  OBVIOUS
<1>1. Base /\ TypeOK /\ Silence /\ Numbering /\ ChatOrder /\ HostOrder /\ Typing
  BY DEF Orderly, Ordered, Base
<1>2. NextLines
  <2> SUFFICES ASSUME Running, NEW c \in Conn, conn[c].state \in {"ACTIVE", "CLOSED"},
                      Unparsed(c) # <<>>
               PROVE  /\ Head(Unparsed(c)).says.n \in Number
                      /\ \A i \in 1 .. Len(screen) :
                           screen[i].who = c /\ screen[i].what = "chat" =>
                             screen[i].n < Head(Unparsed(c)).says.n
    BY DEF NextLines
  <2>1. /\ Head(Unparsed(c)).says.n = 2 + Len(ChatsOf(c))
        /\ Head(Unparsed(c)).says.n \in 1 .. MaxFrames
    BY <1>1, SpeakerIs
  <2> QED  BY <1>1, <2>1, EarlierLines, NumberAssumption
<1> QED  BY <1>1, <1>2, NumberedSpeakers DEF Sociable

(* What each guest in the room has been told.                               *)
HeardSoFar(c) == IF c \in Present THEN Heard(c) ELSE <<>>

LEMMA PresentIs ==
    /\ Running => Present = {c \in Conn : conn[c].state \in {"ACTIVE", "CLOSED"}}
    /\ ~Running => Present = {}
    /\ Base /\ pc = "dispatch" => Present = Active
    /\ Base /\ pc = "parse" => Present \ {reader} = Active \ {reader} /\ reader \in Present
<1>1. Running => Present = {c \in Conn : conn[c].state \in {"ACTIVE", "CLOSED"}}  BY DEF Present
<1>2. ~Running => Present = {}  BY DEF Present
<1>3. ASSUME Base, pc \in {"dispatch", "parse"}
      PROVE  Running /\ \A c \in Conn : conn[c].state = "CLOSED" => pc = "parse" /\ c = reader
  BY <1>3 DEF Base, Places, Running
<1>4. ASSUME Base, pc = "dispatch" PROVE Present = Active
  BY <1>1, <1>3, <1>4 DEF Active
<1>5. ASSUME Base, pc = "parse"
      PROVE  Present \ {reader} = Active \ {reader} /\ reader \in Present
  <2>1. reader \in Conn /\ conn[reader].state \in {"ACTIVE", "CLOSED"}
    BY <1>5 DEF Base, Places
  <2> QED  BY <1>1, <1>3, <1>5, <2>1 DEF Active
<1> QED  BY <1>1, <1>2, <1>4, <1>5

LEMMA StaysPresent ==
    ASSUME NEW d \in Conn, Stays(d), Running' <=> Running
    PROVE  d \in Present' <=> d \in Present
  BY DEF Stays, Present

LEMMA Stutters ==
    ASSUME screen' = screen, server_closing' = server_closing, Running' <=> Running,
           \A d \in Conn : /\ d \in Present' <=> d \in Present
                           /\ d \in Present => Heard(d)' = Heard(d)
    PROVE  UNCHANGED Room!roomVars
<1>1. Present' = Present  BY DEF Present
<1>2. Phase' = Phase  BY DEF Phase
<1>3. [c \in Conn |-> IF c \in Present' THEN Heard(c)' ELSE <<>>]
        = [c \in Conn |-> IF c \in Present THEN Heard(c) ELSE <<>>]
  BY <1>1
<1> QED  BY <1>1, <1>2, <1>3 DEF Room!roomVars

LEMMA Tells ==
    ASSUME NEW u, NEW audience, screen' = Append(screen, u),
           audience \subseteq Present', Present' \subseteq Present \cup audience,
           \A d \in Present' : Heard(d)' = IF d \in audience THEN Append(HeardSoFar(d), u)
                                           ELSE HeardSoFar(d)
    PROVE  Room!Tell(audience, u)
<1>1. ASSUME NEW d \in Conn
      PROVE  (IF d \in Present' THEN Heard(d)' ELSE <<>>)
               = IF d \in audience THEN Append(HeardSoFar(d), u)
                 ELSE IF d \in Present' THEN HeardSoFar(d) ELSE <<>>
  BY <1>1
<1> QED  BY <1>1 DEF Room!Tell, HeardSoFar

LEMMA Phases ==
    /\ Phase = "open" <=> Running /\ ~server_closing
    /\ Phase = "closing" <=> Running /\ server_closing
    /\ Phase = "over" <=> ~Running
  BY DEF Phase

(* What a member hears of a broadcast.                                      *)
LEMMA Hears ==
    ASSUME Base, NEW d \in Conn, NEW m \in Broadcasts, Stream(d)' = Append(Stream(d), m)
    PROVE  Heard(d)' = Append(Heard(d), m.says)
  BY Remarks, HeardGrows DEF Base

LEMMA HearsNotice ==
    ASSUME Base, NEW d \in Conn,
           Stream(d)' = Append(Append(Stream(d), ClosingNotice), CloseMessage)
    PROVE  Heard(d)' = Append(Heard(d), ClosingNotice.says)
<1>1. PICK s \in Seq(Msg) : s = Stream(d)  BY HeardType DEF Base
<1>2. PICK t \in Seq(Msg) : t = Append(s, ClosingNotice)  BY Remarks, AppendProperties
<1>3. Only(t, Broadcasts) = Append(Only(s, Broadcasts), ClosingNotice)
  BY <1>2, Remarks, OnlyAppend
<1>4. Only(Append(t, CloseMessage), Broadcasts) = Only(t, Broadcasts)
  BY Remarks, OnlyAppend
<1>5. Only(s, Broadcasts) \in Seq(Msg)  BY OnlyType
<1>6. Says(Append(Only(s, Broadcasts), ClosingNotice))
        = Append(Says(Only(s, Broadcasts)), ClosingNotice.says)
  BY <1>5, Remarks, Spoken, SaysAppend
<1> QED  BY <1>1, <1>2, <1>3, <1>4, <1>6 DEF Heard

LEMMA EnterStep ==
    ASSUME Sociable, NEW c \in Conn, Enters(c)
    PROVE  Room!Enter(c)
<1>1. Base /\ Silence /\ Running /\ Running' /\ pc = "dispatch" /\ server_closing' = server_closing
  BY DEF Sociable, Enters, GoesOn
<1>2. PICK m \in Broadcasts : /\ m.says = [who |-> c, what |-> "connected", n |-> 0]
                              /\ screen' = Append(screen, m.says)
                              /\ Reaches(Active \cup {c}, m)
  BY DEF Enters
<1>3. Heard(c) = <<>> /\ \A i \in 1 .. Len(screen) : screen[i].who # c
  BY <1>1 DEF Silence, Silent, Enters
<1>4. Present = Active /\ c \notin Present  BY <1>1, PresentIs DEF Enters, Active
<1>5. Present' = Present \cup {c}
  <2>1. \A d \in Conn \ {c} : d \in Present' <=> d \in Present
    BY <1>1, StaysPresent DEF Enters
  <2>2. c \in Present'  BY <1>1 DEF Present, Enters
  <2> QED  BY <2>1, <2>2 DEF Present
<1>6. ASSUME NEW d \in Present' PROVE Heard(d)' = Append(HeardSoFar(d), m.says)
  <2>1. d \in Conn /\ Stream(d)' = Append(Stream(d), m)
    BY <1>2, <1>4, <1>5, <1>6 DEF Reaches, Present
  <2>2. Heard(d)' = Append(Heard(d), m.says)  BY <1>1, <2>1, Hears
  <2>3. HeardSoFar(d) = Heard(d)  BY <1>3, <1>4, <1>5, <1>6 DEF HeardSoFar
  <2> QED  BY <2>2, <2>3
<1>7. Room!Tell(Present', m.says)  BY <1>2, <1>6, Tells
<1>8. Phase # "over" /\ Phase' = Phase  BY <1>1, Phases DEF Phase
<1> QED  BY <1>2, <1>3, <1>4, <1>5, <1>7, <1>8 DEF Room!Enter, Room!Notice

LEMMA SayStep ==
    ASSUME Sociable, NEW c \in Conn, Speaks(c)
    PROVE  \E n \in Number : Room!Say(c, n)
<1>1. /\ Base /\ TypeOK /\ Speakers /\ NextLines /\ Running /\ Running' /\ pc = "parse"
      /\ reader = c /\ server_closing' = server_closing /\ ~server_closing
  BY DEF Sociable, Speaks, GoesOn, Base, Places
<1>2. conn[c].state \in {"ACTIVE", "CLOSED"}  BY <1>1 DEF Base, Places
<1>3. PICK m \in Broadcasts : /\ m.says = Head(Unparsed(c)).says
                              /\ screen' = Append(screen, m.says)
                              /\ Reaches(Active \ {c}, m)
  BY DEF Speaks
<1>4. m.says \in Utterance(Speaker) /\ m.says.who = c /\ m.says.what = "chat"
  BY <1>1, <1>2, <1>3, SomebodySpeaks DEF Speaks
<1>5. PICK n \in Number : n = m.says.n  BY <1>1, <1>2, <1>3 DEF Speaks, NextLines
<1>6. m.says = [who |-> c, what |-> "chat", n |-> n]  BY <1>4, <1>5 DEF Utterance
<1>7. Present \ {c} = Active \ {c} /\ c \in Present  BY <1>1, PresentIs
<1>8. Present' = Present
  <2>1. \A d \in Conn \ {c} : d \in Present' <=> d \in Present
    BY <1>1, StaysPresent DEF Speaks
  <2>2. c \in Present'  BY <1>1, <1>2 DEF Present, Speaks
  <2> QED  BY <1>7, <2>1, <2>2 DEF Present
<1>9. ASSUME NEW d \in Present'
      PROVE  Heard(d)' = IF d \in Present \ {c} THEN Append(HeardSoFar(d), m.says) ELSE HeardSoFar(d)
  <2>1. d \in Conn /\ HeardSoFar(d) = Heard(d)  BY <1>8, <1>9 DEF Present, HeardSoFar
  <2>2. CASE d # c
    <3>1. Stream(d)' = Append(Stream(d), m)
      BY <1>3, <1>7, <1>8, <1>9, <2>1, <2>2 DEF Reaches
    <3> QED  BY <1>1, <1>8, <1>9, <2>1, <2>2, <3>1, Hears
  <2>3. CASE d = c
    <3>1. Stream(d)' = Stream(d)  BY <1>3, <2>3 DEF Reaches
    <3> QED  BY <2>1, <2>3, <3>1, HeardSame
  <2> QED  BY <2>2, <2>3
<1>10. Room!Tell(Present \ {c}, m.says)  BY <1>3, <1>7, <1>8, <1>9, Tells
<1>11. Phase = "open" /\ Phase' = Phase  BY <1>1, Phases DEF Phase
<1>12. \A i \in 1 .. Len(screen) : screen[i].who = c /\ screen[i].what = "chat" => screen[i].n < n
  BY <1>1, <1>2, <1>3, <1>5 DEF Speaks, NextLines
<1>13. Room!Say(c, n)  BY <1>6, <1>7, <1>8, <1>10, <1>11, <1>12 DEF Room!Say
<1> QED  BY <1>13

LEMMA LeaveStep ==
    ASSUME Sociable, NEW c \in Conn, Leaves(c)
    PROVE  Room!Leave(c)
<1>1. /\ Base /\ Running /\ Running' /\ pc = "parse" /\ reader = c
      /\ server_closing' = server_closing /\ ~server_closing
  BY DEF Sociable, Leaves, GoesOn, Base, Places
<1>2. PICK m \in Broadcasts : /\ m.says = [who |-> c, what |-> "disconnected", n |-> 0]
                              /\ screen' = Append(screen, m.says)
                              /\ \A d \in Conn \ {c} :
                                   Stream(d)' = IF d \in Active THEN Append(Stream(d), m)
                                                ELSE Stream(d)
  BY DEF Leaves
<1>3. Present \ {c} = Active \ {c} /\ c \in Present  BY <1>1, PresentIs
<1>4. Present' = Present \ {c}
  <2>1. \A d \in Conn \ {c} : d \in Present' <=> d \in Present
    BY <1>1, StaysPresent DEF Leaves
  <2>2. c \notin Present'  BY DEF Present, Leaves
  <2> QED  BY <2>1, <2>2 DEF Present
<1>5. ASSUME NEW d \in Present' PROVE Heard(d)' = Append(HeardSoFar(d), m.says)
  <2>1. d \in Conn \ {c} /\ d \in Present /\ d \in Active  BY <1>3, <1>4, <1>5 DEF Present
  <2>2. Stream(d)' = Append(Stream(d), m)  BY <1>2, <2>1
  <2> QED  BY <1>1, <2>1, <2>2, Hears DEF HeardSoFar
<1>6. Room!Tell(Present', m.says)  BY <1>2, <1>4, <1>5, Tells
<1>7. Phase = "open" /\ Phase' = Phase  BY <1>1, Phases DEF Phase
<1> QED  BY <1>2, <1>3, <1>4, <1>6, <1>7 DEF Room!Leave, Room!Notice

LEMMA HostSayStep ==
    ASSUME Sociable, Typing', HostSpeaks
    PROVE  \E n \in Number : Room!Say(Host, n)
<1>1. /\ Base /\ TypeOK /\ HostOrder /\ Running /\ Running' /\ pc = "dispatch"
      /\ server_closing' = server_closing /\ ~server_closing /\ lines' = lines + 1
  BY DEF Sociable, HostSpeaks, GoesOn, Base
<1>2. PICK m \in Broadcasts : /\ m.says = [who |-> Host, what |-> "chat", n |-> lines + 1]
                              /\ screen' = Append(screen, m.says)
                              /\ Reaches(Active, m)
  BY DEF HostSpeaks
<1>3. lines \in Nat /\ MaxLines \in Nat /\ lines' <= MaxLines
  BY <1>1, ServerAssumption DEF Typing, TypeOK, ServerTypeOK
<1>4. lines + 1 \in Number
  <2>1. lines + 1 \in 1 .. MaxLines  BY <1>1, <1>3
  <2> QED  BY <2>1, NumberAssumption
<1>5. Present = Active  BY <1>1, PresentIs
<1>6. Present' = Present  BY <1>1, StaysPresent DEF HostSpeaks, Present
<1>7. Host \notin Present  BY SocketsAssumption DEF Present
<1>8. ASSUME NEW d \in Present' PROVE Heard(d)' = Append(HeardSoFar(d), m.says)
  <2>1. d \in Conn /\ d \in Present /\ d \in Active  BY <1>5, <1>6, <1>8 DEF Present
  <2>2. Stream(d)' = Append(Stream(d), m)  BY <1>2, <2>1 DEF Reaches
  <2> QED  BY <1>1, <2>1, <2>2, Hears DEF HeardSoFar
<1>9. Room!Tell(Present \ {Host}, m.says)
  <2>1. Present \ {Host} = Present  BY <1>7
  <2> QED  BY <1>2, <1>6, <1>8, <2>1, Tells
<1>10. Phase = "open" /\ Phase' = Phase  BY <1>1, Phases DEF Phase
<1>11. ASSUME NEW i \in 1 .. Len(screen), screen[i].who = Host, screen[i].what = "chat"
       PROVE  screen[i].n < lines + 1
  <2>1. PICK s \in Seq(Utterance(Speaker)) : s = screen  BY <1>1 DEF TypeOK, ServerTypeOK
  <2>2. s[i] \in Utterance(Speaker)  BY <2>1, ElementOfSeq
  <2>3. s[i].n \in Nat  BY <2>2 DEF Utterance
  <2>4. s[i].n <= lines  BY <1>1, <1>11, <2>1 DEF HostOrder
  <2>5. s[i].n < lines + 1  BY <1>3, <2>3, <2>4
  <2> QED  BY <2>1, <2>5
<1>12. PICK n \in Number : n = lines + 1  BY <1>4
<1>13. m.says = [who |-> Host, what |-> "chat", n |-> n]  BY <1>2, <1>12
<1>14. \A i \in 1 .. Len(screen) :
         screen[i].who = Host /\ screen[i].what = "chat" => screen[i].n < n
  BY <1>11, <1>12
<1>15. Room!Tell(Present \ {Host}, [who |-> Host, what |-> "chat", n |-> n])
  BY <1>9, <1>13
<1>16. Room!Say(Host, n)
  BY <1>6, <1>10, <1>14, <1>15 DEF Room!Say
<1> QED  BY <1>16

LEMMA CloseStep ==
    ASSUME Sociable, Closes
    PROVE  Room!StartClosing
<1>1. /\ Base /\ Running /\ Running' /\ pc = "dispatch" /\ ~server_closing /\ server_closing'
      /\ screen' = Append(screen, ClosingNotice.says)
  BY DEF Sociable, Closes, GoesOn
<1>2. Present = Active  BY <1>1, PresentIs
<1>3. Present' = Present  BY <1>1, StaysPresent DEF Closes, Present
<1>4. ASSUME NEW d \in Present' PROVE Heard(d)' = Append(HeardSoFar(d), ClosingNotice.says)
  <2>1. d \in Conn /\ d \in Present /\ d \in Active  BY <1>2, <1>3, <1>4 DEF Present
  <2>2. Stream(d)' = Append(Append(Stream(d), ClosingNotice), CloseMessage)
    BY <2>1 DEF Closes
  <2>3. Heard(d)' = Append(Heard(d), ClosingNotice.says)  BY <1>1, <2>1, <2>2, HearsNotice
  <2> QED  BY <2>1, <2>3 DEF HeardSoFar
<1>5. Room!Tell(Present, ClosingNotice.says)  BY <1>1, <1>3, <1>4, Tells
<1>6. Phase = "open" /\ Phase' = "closing"  BY <1>1 DEF Phase
<1> QED  BY <1>3, <1>5, <1>6, Remarks DEF Room!StartClosing, Room!Notice

LEMMA VanishStep ==
    ASSUME Sociable, NEW c \in Conn, Drops(c)
    PROVE  Room!Vanish(c) \/ UNCHANGED Room!roomVars
<1>1. /\ Running /\ Running' /\ server_closing' = server_closing /\ ~server_closing
      /\ screen' = screen
  BY DEF Drops, GoesOn, Calm
<1>2. \A d \in Conn \ {c} : (d \in Present' <=> d \in Present) /\ Heard(d)' = Heard(d)
  BY <1>1, StaysPresent, HeardSame DEF Drops
<1>3. c \notin Present'  BY DEF Drops, Present
<1>4. CASE c \notin Present  BY <1>1, <1>2, <1>3, <1>4, Stutters
<1>5. CASE c \in Present
  <2>1. Present' = Present \ {c}  BY <1>2, <1>3 DEF Present
  <2>2. Phase = "open" /\ Phase' = Phase  BY <1>1, Phases DEF Phase
  <2>3. [d \in Conn |-> IF d \in Present' THEN Heard(d)' ELSE <<>>]
          = [[d \in Conn |-> IF d \in Present THEN Heard(d) ELSE <<>>] EXCEPT ![c] = <<>>]
    BY <1>2, <2>1
  <2> QED  BY <1>1, <1>5, <2>1, <2>2, <2>3 DEF Room!Vanish
<1> QED  BY <1>4, <1>5

LEMMA EndStep ==
    ASSUME Sociable, Typing', Stops
    PROVE  Room!End
<1>1. Base /\ Running /\ ~Running'  BY DEF Sociable, Stops, Running
<1>2. Present' = {} /\ Phase # "over" /\ Phase' = "over"  BY <1>1 DEF Present, Phase
<1>3. ASSUME NEW u, Utters(u) PROVE u \in Room!Remark
  <2>1. CASE u \in Utterance(Speaker) /\ u.n = 0 /\ u.what \in {"connected", "disconnected", "closing"}
    BY <2>1 DEF Room!Remark, Utterance, Speaker
  <2>2. CASE u = [who |-> Host, what |-> "chat", n |-> lines + 1] /\ lines' = lines + 1
    <3>1. lines \in Nat /\ MaxLines \in Nat /\ lines' <= MaxLines
      BY ServerAssumption DEF Typing, Sociable, Base, TypeOK, ServerTypeOK
    <3>2. lines + 1 \in 1 .. MaxLines  BY <2>2, <3>1
    <3>3. lines + 1 \in Number  BY <3>2, NumberAssumption
    <3> QED  BY <2>2, <3>3 DEF Room!Remark
  <2>3. CASE \E c \in Conn : /\ conn[c].state \in {"ACTIVE", "CLOSED"}
                             /\ Unparsed(c) # <<>> /\ Head(Unparsed(c)).type = "CHAT"
                             /\ u = Head(Unparsed(c)).says
    <3>1. PICK c \in Conn : /\ conn[c].state \in {"ACTIVE", "CLOSED"}
                            /\ Unparsed(c) # <<>> /\ Head(Unparsed(c)).type = "CHAT"
                            /\ u = Head(Unparsed(c)).says
      BY <2>3
    <3>2. u \in Utterance(Speaker) /\ u.what = "chat"
      BY <1>1, <3>1, SomebodySpeaks DEF Sociable
    <3>3. u.n \in Number  BY <1>1, <3>1 DEF Sociable, NextLines
    <3> QED  BY <3>2, <3>3 DEF Room!Remark, Utterance, Speaker
  <2> QED  BY <1>3, <2>1, <2>2, <2>3 DEF Utters
<1>4. screen' = screen \/ \E u \in Room!Remark : screen' = Append(screen, u)
  BY <1>3 DEF Stops
<1>5. [c \in Conn |-> IF c \in Present' THEN Heard(c)' ELSE <<>>] = [c \in Conn |-> <<>>]
  BY <1>2
<1> QED  BY <1>2, <1>4, <1>5 DEF Room!End

LEMMA RoomSimulation ==
    ASSUME Sociable, Typing', RoomStep
    PROVE  [Room!RoomNext]_(Room!roomVars)
<1>1. CASE Idles
  <2>1. \A d \in Conn : (d \in Present' <=> d \in Present) /\ Heard(d)' = Heard(d)
    BY <1>1, StaysPresent, HeardSame DEF Idles, Hushed
  <2>2. UNCHANGED Room!roomVars  BY <1>1, <2>1, Stutters DEF Idles
  <2> QED  BY <2>2
<1>2. CASE Exits
  <2>1. ~Running /\ ~Running' /\ screen' = screen /\ server_closing' = server_closing
    BY <1>2 DEF Exits, Running
  <2>2. UNCHANGED Room!roomVars  BY <2>1, PresentIs, Stutters DEF Present
  <2> QED  BY <2>2
<1>3. ASSUME NEW c \in Conn, Accepts(c) \/ Greets(c) \/ ReadsFrom(c) PROVE UNCHANGED Room!roomVars
  <2>1. Running /\ Running' /\ screen' = screen /\ server_closing' = server_closing
    BY <1>3 DEF Accepts, Greets, ReadsFrom, GoesOn, Calm
  <2>2. ASSUME NEW d \in Conn, d # c
        PROVE  (d \in Present' <=> d \in Present) /\ Heard(d)' = Heard(d)
    <3>1. Stays(d) /\ Stream(d)' = Stream(d)
      BY <1>3, <2>2 DEF Accepts, Greets, ReadsFrom, Hushed, Reaches
    <3> QED  BY <2>1, <3>1, StaysPresent, HeardSame
  <2>3. CASE Accepts(c) \/ Greets(c)
    <3>1. c \notin Present'  BY <2>3 DEF Accepts, Greets, Present
    <3>2. c \notin Present
      <4>1. CASE Greets(c)  BY <4>1 DEF Greets, Present
      <4>2. CASE Accepts(c)
        BY <4>2, Inside DEF Accepts, Present, Sociable, Base
      <4> QED  BY <2>3, <4>1, <4>2
    <3> QED  BY <2>1, <2>2, <3>1, <3>2, Stutters
  <2>4. CASE ReadsFrom(c)
    <3>1. c \in Present /\ c \in Present' /\ Heard(c)' = Heard(c)
      BY <2>1, <2>4, HeardSame DEF ReadsFrom, Present, Hushed
    <3> QED  BY <2>1, <2>2, <3>1, Stutters
  <2> QED  BY <1>3, <2>3, <2>4
<1>4. ASSUME NEW c \in Conn, Sent(c) PROVE UNCHANGED Room!roomVars
  <2>1. /\ (Running' <=> Running) /\ screen' = screen /\ server_closing' = server_closing
        /\ conn' = conn /\ \A d \in Conn : Stream(d)' = Stream(d)
    BY <1>4 DEF Sent, Calm, Hushed
  <2> QED  BY <2>1, HeardSame, Stutters DEF Present
<1>5. CASE HostSpeaks \/ Closes \/ Stops
  BY <1>5, HostSayStep, CloseStep, EndStep DEF Room!RoomNext
<1>6. ASSUME NEW c \in Conn, Enters(c) \/ Speaks(c) \/ Leaves(c) \/ Drops(c)
      PROVE  Room!RoomNext \/ UNCHANGED Room!roomVars
  BY <1>6, EnterStep, SayStep, LeaveStep, VanishStep DEF Room!RoomNext
<1> QED  BY <1>1, <1>2, <1>3, <1>4, <1>5, <1>6 DEF RoomStep

LEMMA RoomStarts ==
    ASSUME Init
    PROVE  Room!RoomInit
<1>1. pc = "wait" /\ server_closing = FALSE /\ screen = <<>>
      /\ \A c \in Conn : conn[c].state = "FREED"
  BY DEF Init, NoConnection
<1>2. Present = {} /\ Phase = "open"  BY <1>1 DEF Present, Phase, Running
<1>3. [c \in Conn |-> IF c \in Present THEN Heard(c) ELSE <<>>] = [c \in Conn |-> <<>>]
  BY <1>2
<1> QED  BY <1>1, <1>2, <1>3 DEF Room!RoomInit

(* The server is the chat room its documentation describes: each of its     *)
(* steps is one thing said, somebody coming or going, or nothing at all, as *)
(* far as the people in the room can tell; and whoever is in the room hears *)
(* everything from then on, in one order (server.cpp, all handlers).        *)
THEOREM ServerKeepsRoom == Spec => ImplementsRoom
<1>1. Init => Orderly  BY Started DEF Orderly
<1>2. Init => Room!RoomInit  BY RoomStarts
<1>3. Orderly /\ [Next]_vars => Orderly' /\ [Room!RoomNext]_(Room!roomVars)
  <2>1. Orderly' => Typing'  BY DEF Orderly
  <2> QED  BY <2>1, OrderlySociable, OrderlyStep, RoomSimulation
<1> QED  BY <1>1, <1>2, <1>3, PTL DEF Spec, ImplementsRoom, Room!RoomSpec

-----------------------------------------------------------------------------
(* In the room all guests hear one conversation.                            *)

Listens(d) ==
    \E i \in At(d, "connected") :
        HeardSoFar(d) = Only(SubSeq(screen, i, Len(screen)), Utterance(Speaker) \ ChatLines(d))

LEMMA OneConversationIs ==
    /\ OneConversation => \A d \in Present : Listens(d)
    /\ (\A d \in Present' : Listens(d)') => OneConversation'
<1>1. /\ Present = {c \in Conn : Running /\ conn[c].state \in {"ACTIVE", "CLOSED"}}
      /\ Present' = {c \in Conn : Running' /\ conn'[c].state \in {"ACTIVE", "CLOSED"}}
  BY DEF Present
<1>2. /\ \A d \in Present : HeardSoFar(d) = Heard(d)
      /\ \A d \in Present' : HeardSoFar(d)' = Heard(d)'
  BY DEF HeardSoFar
<1> QED  BY <1>1, <1>2 DEF OneConversation, Listens

(* One more remark, seen from any place of the screen.                      *)
LEMMA Later ==
    ASSUME NEW T, NEW s \in Seq(T), NEW u \in T, NEW i \in 1 .. Len(s) + 1, NEW S
    PROVE  Only(SubSeq(Append(s, u), i, Len(s) + 1), S)
             = IF u \in S THEN Append(Only(SubSeq(s, i, Len(s)), S), u)
               ELSE Only(SubSeq(s, i, Len(s)), S)
<1>1. Len(s) \in Nat  BY LenProperties
<1>2. PICK b \in 0 .. Len(s) : b + 1 = i
  <2>1. i - 1 \in 0 .. Len(s) /\ (i - 1) + 1 = i  BY <1>1
  <2> QED  BY <2>1
<1>3. Len(Append(s, u)) = Len(s) + 1  BY AppendProperties
<1>4. Left(Append(s, u), b) = SubSeq(Append(s, u), i, Len(s) + 1)  BY <1>2, <1>3 DEF Left
<1>5. Left(s, b) = SubSeq(s, i, Len(s)) /\ Left(s, b) \in Seq(T)
  BY <1>2, LeftShape DEF Left
<1>6. Left(Append(s, u), b) = Append(Left(s, b), u)  BY LeftGrows
<1>7. Only(Append(Left(s, b), u), S)
        = IF u \in S THEN Append(Only(Left(s, b), S), u) ELSE Only(Left(s, b), S)
  BY <1>5, OnlyAppend
<1> QED  BY <1>4, <1>5, <1>6, <1>7

LEMMA ListensOn ==
    ASSUME TypeOK, NEW u \in Utterance(Speaker), screen' = Append(screen, u),
           NEW d \in Conn, Listens(d),
           HeardSoFar(d)' = IF u \in ChatLines(d) THEN HeardSoFar(d) ELSE Append(HeardSoFar(d), u)
    PROVE  Listens(d)'
<1>1. PICK s \in Seq(Utterance(Speaker)) : s = screen  BY DEF TypeOK, ServerTypeOK
<1>2. /\ Len(s) \in Nat /\ Len(screen') = Len(s) + 1
      /\ \A i \in 1 .. Len(s) : screen'[i] = s[i]
  BY <1>1, ScreenGrows
<1>3. PICK i \in 1 .. Len(s) :
        /\ s[i].who = d /\ s[i].what = "connected"
        /\ HeardSoFar(d) = Only(SubSeq(s, i, Len(s)), Utterance(Speaker) \ ChatLines(d))
  BY <1>1 DEF Listens, At
<1>4. i \in 1 .. Len(s) + 1  BY <1>2
<1>5. Only(SubSeq(Append(s, u), i, Len(s) + 1), Utterance(Speaker) \ ChatLines(d))
        = IF u \in ChatLines(d)
          THEN Only(SubSeq(s, i, Len(s)), Utterance(Speaker) \ ChatLines(d))
          ELSE Append(Only(SubSeq(s, i, Len(s)), Utterance(Speaker) \ ChatLines(d)), u)
  BY <1>4, Later
<1>6. HeardSoFar(d)' = Only(SubSeq(screen', i, Len(screen')), Utterance(Speaker) \ ChatLines(d))
  BY <1>1, <1>2, <1>3, <1>5
<1>7. i \in At(d, "connected")'  BY <1>2, <1>3, <1>4 DEF At
<1> QED  BY <1>6, <1>7 DEF Listens

(* Whoever has just entered.                                                *)
LEMMA ListensFirst ==
    ASSUME TypeOK, NEW d \in Conn, NEW u \in Utterance(Speaker), screen' = Append(screen, u),
           u = [who |-> d, what |-> "connected", n |-> 0],
           HeardSoFar(d)' = Append(<<>>, u)
    PROVE  Listens(d)'
<1>1. PICK s \in Seq(Utterance(Speaker)) : s = screen  BY DEF TypeOK, ServerTypeOK
<1>2. /\ Len(s) \in Nat /\ Len(screen') = Len(s) + 1 /\ screen'[Len(s) + 1] = u
  BY <1>1, ScreenGrows
<1>3. PICK i \in 1 .. Len(s) + 1 : i = Len(s) + 1  BY <1>2
<1>4. PICK S : S = Utterance(Speaker) \ ChatLines(d) /\ u \in S
  <2>1. u \notin ChatLines(d)  BY DEF ChatLines
  <2> QED  BY <2>1
<1>5. Only(SubSeq(Append(s, u), i, Len(s) + 1), S) = Append(Only(SubSeq(s, i, Len(s)), S), u)
  <2>1. Only(SubSeq(Append(s, u), i, Len(s) + 1), S)
          = IF u \in S THEN Append(Only(SubSeq(s, i, Len(s)), S), u)
            ELSE Only(SubSeq(s, i, Len(s)), S)
    BY Later
  <2> QED  BY <1>4, <2>1
<1>6. SubSeq(s, i, Len(s)) = <<>>
  <2>1. i \in Int /\ Len(s) \in Int /\ Len(s) < i  BY <1>2, <1>3
  <2> QED  BY <2>1, SubSeqEmpty
<1>7. Only(<<>>, S) = <<>>  BY OnlyEmpty
<1>8. HeardSoFar(d)' = Only(SubSeq(screen', i, Len(screen')), Utterance(Speaker) \ ChatLines(d))
  BY <1>1, <1>2, <1>4, <1>5, <1>6, <1>7
<1>9. i \in At(d, "connected")'  BY <1>2, <1>3 DEF At
<1> QED  BY <1>8, <1>9 DEF Listens

LEMMA ListensStill ==
    ASSUME NEW d \in Present, d \in Present', Listens(d), screen' = screen, Heard(d)' = Heard(d)
    PROVE  Listens(d)'
<1>1. HeardSoFar(d)' = HeardSoFar(d)  BY DEF HeardSoFar
<1> QED  BY <1>1 DEF Listens, At

(* A remark of somebody else reaches whoever was in the room before it.     *)
LEMMA ListensOnTo ==
    ASSUME Base, NEW d \in Conn, d \in Present, d \in Present', Listens(d),
           NEW m \in Broadcasts, m.says.who # d \/ m.says.what # "chat",
           screen' = Append(screen, m.says), Stream(d)' = Append(Stream(d), m)
    PROVE  Listens(d)'
<1>1. m.says \in Utterance(Speaker) /\ m.says \notin ChatLines(d)  BY Remarks DEF ChatLines
<1>2. Heard(d)' = Append(Heard(d), m.says)  BY Hears
<1>3. HeardSoFar(d)' = Append(HeardSoFar(d), m.says)  BY <1>2 DEF HeardSoFar
<1> QED  BY <1>1, <1>3, ListensOn DEF Base

LEMMA ConversationStep ==
    ASSUME Base, Silence, Speakers, OneConversation, RoomStep
    PROVE  OneConversation'
<1> SUFFICES ASSUME NEW d \in Present' PROVE Listens(d)'
  BY OneConversationIs
<1>1. d \in Conn /\ Running' /\ Running  BY Loop DEF Present
<1>2. d \in Present => Listens(d)  BY OneConversationIs
<1>3. Stays(d) => d \in Present  BY <1>1, StaysPresent
<1>4. ASSUME d \in Present, screen' = screen, Stream(d)' = Stream(d) PROVE Listens(d)'
  BY <1>1, <1>2, <1>4, HeardSame, ListensStill
<1>5. CASE Idles  BY <1>1, <1>3, <1>4, <1>5 DEF Idles, Hushed
<1>6. CASE HostSpeaks
  <2>1. PICK m \in Broadcasts : /\ m.says = [who |-> Host, what |-> "chat", n |-> lines + 1]
                                 /\ screen' = Append(screen, m.says)
                                 /\ Reaches(Active, m)
    BY <1>6 DEF HostSpeaks
  <2>2. d \in Present /\ d \in Active /\ m.says.who # d
    BY <1>1, <1>3, <1>6, <2>1, PresentIs, SocketsAssumption DEF HostSpeaks
  <2> QED  BY <1>1, <1>2, <2>1, <2>2, ListensOnTo DEF Reaches
<1>7. CASE Closes
  <2>1. d \in Present /\ d \in Active  BY <1>1, <1>3, <1>7, PresentIs DEF Closes
  <2>2. /\ Stream(d)' = Append(Append(Stream(d), ClosingNotice), CloseMessage)
        /\ screen' = Append(screen, ClosingNotice.says)
    BY <1>1, <1>7, <2>1 DEF Closes
  <2>3. Heard(d)' = Append(Heard(d), ClosingNotice.says)
    BY <1>1, <2>2, HearsNotice
  <2>4. HeardSoFar(d)' = Append(HeardSoFar(d), ClosingNotice.says)
    BY <2>1, <2>3 DEF HeardSoFar
  <2>5. ClosingNotice.says \in Utterance(Speaker) /\ ClosingNotice.says \notin ChatLines(d)
    BY Remarks DEF ChatLines
  <2> QED  BY <1>1, <1>2, <2>1, <2>2, <2>4, <2>5, ListensOn DEF Base
<1>8. CASE Stops \/ Exits  BY <1>1, <1>8 DEF Stops, Exits, Running
<1>9. ASSUME NEW c \in Conn, Accepts(c) \/ Drops(c) \/ Greets(c) PROVE Listens(d)'
  <2>1. d # c  BY <1>1, <1>9 DEF Accepts, Drops, Greets, Present
  <2>2. Stays(d) /\ Stream(d)' = Stream(d) /\ screen' = screen
    BY <1>1, <1>9, <2>1 DEF Accepts, Drops, Greets, Hushed, Reaches, Calm
  <2> QED  BY <1>3, <1>4, <2>2
<1>10. ASSUME NEW c \in Conn, ReadsFrom(c) \/ Sent(c) PROVE Listens(d)'
  <2>1. Stream(d)' = Stream(d) /\ screen' = screen
    BY <1>1, <1>10 DEF ReadsFrom, Sent, Hushed, Calm
  <2>2. d \in Present
    <3>1. CASE d # c  BY <1>1, <1>3, <1>10, <3>1 DEF ReadsFrom, Sent
    <3>2. CASE d = c  BY <1>1, <1>10, <3>2 DEF ReadsFrom, Sent, Present
    <3> QED  BY <3>1, <3>2
  <2> QED  BY <1>4, <2>1, <2>2
<1>11. ASSUME NEW c \in Conn, Enters(c) PROVE Listens(d)'
  <2>1. PICK m \in Broadcasts : /\ m.says = [who |-> c, what |-> "connected", n |-> 0]
                                 /\ screen' = Append(screen, m.says)
                                 /\ Reaches(Active \cup {c}, m)
    BY <1>11 DEF Enters
  <2>2. CASE d # c
    <3>1. d \in Present /\ d \in Active
      BY <1>1, <1>3, <1>11, <2>2, PresentIs DEF Enters
    <3> QED  BY <1>1, <1>2, <2>1, <2>2, <3>1, ListensOnTo DEF Reaches
  <2>3. CASE d = c
    <3>1. Heard(d) = <<>>  BY <1>1, <1>11, <2>3 DEF Enters, Silence, Silent
    <3>2. Heard(d)' = Append(<<>>, m.says)  BY <1>1, <2>1, <2>3, <3>1, Hears DEF Reaches
    <3>3. HeardSoFar(d)' = Append(<<>>, m.says)  BY <3>2 DEF HeardSoFar
    <3> QED  BY <1>1, <2>1, <2>3, <3>3, Remarks, ListensFirst DEF Base
  <2> QED  BY <2>2, <2>3
<1>12. ASSUME NEW c \in Conn, Speaks(c) PROVE Listens(d)'
  <2>1. conn[c].state \in {"ACTIVE", "CLOSED"} /\ c = reader /\ pc = "parse"
    BY <1>12 DEF Speaks, Base, Places
  <2>2. PICK m \in Broadcasts : /\ m.says = Head(Unparsed(c)).says
                                /\ screen' = Append(screen, m.says)
                                /\ Reaches(Active \ {c}, m)
    BY <1>12 DEF Speaks
  <2>3. m.says.who = c /\ m.says.what = "chat" /\ m.says \in Utterance(Speaker)
    BY <1>1, <1>12, <2>1, <2>2, SomebodySpeaks, Remarks DEF Speaks
  <2>4. CASE d # c
    <3>1. d \in Present  BY <1>3, <1>12, <1>1, <2>4 DEF Speaks
    <3>2. d \in Active \ {c}  BY <2>1, <2>4, <3>1, PresentIs
    <3> QED  BY <1>1, <1>2, <2>2, <2>3, <3>1, <3>2, ListensOnTo DEF Reaches
  <2>5. CASE d = c
    <3>1. d \in Present  BY <1>1, <2>1, <2>5 DEF Present
    <3>2. Heard(d)' = Heard(d)  BY <1>1, <2>2, <2>5, HeardSame DEF Reaches
    <3>3. HeardSoFar(d)' = HeardSoFar(d)  BY <3>1, <3>2 DEF HeardSoFar
    <3>4. m.says \in ChatLines(d)  BY <2>3, <2>5 DEF ChatLines, Utterance
    <3> QED  BY <1>1, <1>2, <2>2, <2>3, <3>1, <3>3, <3>4, ListensOn DEF Base
  <2> QED  BY <2>4, <2>5
<1>13. ASSUME NEW c \in Conn, Leaves(c) PROVE Listens(d)'
  <2>1. d # c /\ c = reader /\ pc = "parse"  BY <1>1, <1>13 DEF Leaves, Present
  <2>2. PICK m \in Broadcasts : /\ m.says = [who |-> c, what |-> "disconnected", n |-> 0]
                                /\ screen' = Append(screen, m.says)
                                /\ \A e \in Conn \ {c} :
                                     Stream(e)' = IF e \in Active THEN Append(Stream(e), m)
                                                  ELSE Stream(e)
    BY <1>13 DEF Leaves
  <2>3. d \in Present  BY <1>1, <1>3, <1>13, <2>1 DEF Leaves
  <2>4. d \in Active  BY <2>1, <2>3, PresentIs
  <2> QED  BY <1>1, <1>2, <2>1, <2>2, <2>3, <2>4, ListensOnTo
<1> QED  BY <1>5, <1>6, <1>7, <1>8, <1>9, <1>10, <1>11, <1>12, <1>13 DEF RoomStep

(* All members hear one and the same conversation, each from his arrival    *)
(* on, whatever the kernel has taken of it so far (server.cpp,              *)
(* broadcast_message_to_other_clients against the server's own output).     *)
THEOREM AllHearTheSame == Spec => []OneConversation
<1>1. Init => Orderly /\ OneConversation
  <2> SUFFICES ASSUME Init PROVE Orderly /\ OneConversation
    OBVIOUS
  <2>1. \A c \in Conn : conn[c].state = "FREED"  BY DEF Init, NoConnection
  <2> QED  BY <2>1, Started DEF Orderly, OneConversation
<1>2. (Orderly /\ OneConversation) /\ [Next]_vars => (Orderly /\ OneConversation)'
  <2> SUFFICES ASSUME Orderly, OneConversation, [Next]_vars
               PROVE  Orderly' /\ OneConversation'
    OBVIOUS
  <2>1. Orderly' /\ RoomStep  BY OrderlyStep
  <2> QED  BY <2>1, NumberedSpeakers, ConversationStep DEF Orderly, Ordered
<1> QED  BY <1>1, <1>2, PTL DEF Spec

-----------------------------------------------------------------------------
(* The orderly end.                                                         *)

(* The notice, and CLOSE_CON next to it.                                    *)
Dismissed(s) ==
    \E i \in 1 .. Len(s) - 1 : Announces(s[i], "closing") /\ s[i + 1].type = "CLOSE_CON"

(* c entered after the notice.                                              *)
Late(c) == \E i \in At(Host, "closing"), j \in At(c, "connected") : i < j

(* While the room closes whoever is active has been dismissed or was late;  *)
(* once the loop has ended in good order nothing of that is still queued.   *)
Farewell ==
    /\ Running /\ server_closing =>
         /\ At(Host, "closing") # {}
         /\ \A c \in Conn : conn[c].state = "ACTIVE" => Dismissed(Stream(c)) \/ Late(c)
    /\ pc = "cleanup" /\ server_closing =>
         \/ \E c \in Conn : conn[c].state = "CONNECTION_ERROR"
         \/ \A c \in Conn :
              /\ Stream(c) = wire[c]
              /\ conn[c].state = "ACTIVE" => Dismissed(Stream(c)) \/ Late(c)

LEMMA DismissedStays ==
    ASSUME NEW s \in Seq(Msg), NEW m \in Msg, Dismissed(s)
    PROVE  Dismissed(Append(s, m))
<1>1. PICK i \in 1 .. Len(s) - 1 : Announces(s[i], "closing") /\ s[i + 1].type = "CLOSE_CON"
  BY DEF Dismissed
<1> DEFINE t == Append(s, m)
<1>2. /\ Len(s) \in Nat /\ Len(t) = Len(s) + 1
      /\ \A j \in 1 .. Len(s) : t[j] = s[j]
  BY AppendProperties, LenProperties
<1> HIDE DEF t
<1>3. i \in 1 .. Len(s) /\ i + 1 \in 1 .. Len(s) /\ i \in 1 .. Len(t) - 1  BY <1>1, <1>2
<1>4. t[i] = s[i] /\ t[i + 1] = s[i + 1]  BY <1>2, <1>3
<1>5. Dismissed(t)  BY <1>1, <1>3, <1>4 DEF Dismissed
<1> QED  BY <1>5 DEF t

LEMMA DismissedNow ==
    ASSUME NEW s \in Seq(Msg)
    PROVE  Dismissed(Append(Append(s, ClosingNotice), CloseMessage))
<1>1. PICK k \in Msg : k = ClosingNotice  BY Remarks
<1>2. PICK x \in Msg : x = CloseMessage  BY Remarks
<1> DEFINE t == Append(s, k)
           u == Append(t, x)
<1>3. /\ Len(s) \in Nat /\ t \in Seq(Msg) /\ Len(t) = Len(s) + 1 /\ t[Len(s) + 1] = k
  BY AppendProperties, LenProperties
<1> HIDE DEF t
<1>4. /\ Len(u) = Len(t) + 1 /\ u[Len(t) + 1] = x
      /\ \A j \in 1 .. Len(t) : u[j] = t[j]
  BY <1>3, AppendProperties
<1> HIDE DEF u
<1>5. PICK i \in 1 .. Len(u) - 1 : i = Len(t)  BY <1>3, <1>4
<1>6. u[i] = k  BY <1>3, <1>4, <1>5
<1>7. u[i + 1] = x  BY <1>4, <1>5
<1>8. Announces(k, "closing") /\ x.type = "CLOSE_CON"
  BY <1>1, <1>2, Remarks DEF Announces, Broadcasts, CloseMessage
<1>9. Dismissed(u)  BY <1>5, <1>6, <1>7, <1>8 DEF Dismissed
<1> QED  BY <1>1, <1>2, <1>9 DEF u, t

LEMMA PlacesStay ==
    ASSUME TypeOK, screen' = screen \/ \E u \in Utterance(Speaker) : screen' = Append(screen, u)
    PROVE  \A who, what : At(who, what) \subseteq At(who, what)'
<1>1. CASE screen' = screen  BY <1>1 DEF At
<1>2. ASSUME NEW u \in Utterance(Speaker), screen' = Append(screen, u)
      PROVE  \A who, what : At(who, what) \subseteq At(who, what)'
  <2>1. /\ Len(screen) \in Nat /\ Len(screen') = Len(screen) + 1
        /\ \A i \in 1 .. Len(screen) : screen'[i] = screen[i]
    BY <1>2, ScreenGrows
  <2>2. ASSUME NEW i \in 1 .. Len(screen)
        PROVE  i \in 1 .. Len(screen') /\ screen'[i] = screen[i]
    BY <2>1
  <2> QED  BY <2>2 DEF At
<1> QED  BY <1>1, <1>2

(* c is as it was, or was told one thing more.                              *)
LEMMA StillDismissed ==
    ASSUME Base, NEW c \in Conn, Dismissed(Stream(c)) \/ Late(c),
           Stream(c)' = Stream(c) \/ \E m \in Msg : Stream(c)' = Append(Stream(c), m),
           screen' = screen \/ \E u \in Utterance(Speaker) : screen' = Append(screen, u)
    PROVE  Dismissed(Stream(c)') \/ Late(c)'
<1>1. CASE Late(c)
  <2>1. PICK i \in At(Host, "closing"), j \in At(c, "connected") : i < j
    BY <1>1 DEF Late
  <2>2. i \in At(Host, "closing")' /\ j \in At(c, "connected")'
    BY <2>1, PlacesStay DEF Base
  <2> QED  BY <2>1, <2>2 DEF Late
<1>2. CASE Dismissed(Stream(c))
  <2>1. PICK s \in Seq(Msg) : s = Stream(c)  BY HeardType DEF Base
  <2> QED  BY <1>2, <2>1, DismissedStays
<1> QED  BY <1>1, <1>2

LEMMA ClosingStep ==
    ASSUME Base, Farewell, RoomStep, Running', server_closing'
    PROVE  /\ At(Host, "closing")' # {}
           /\ \A c \in Conn : conn'[c].state = "ACTIVE" => Dismissed(Stream(c)') \/ Late(c)'
<1>1. Base /\ TypeOK /\ Running  BY Loop DEF Base
<1>2. server_closing => At(Host, "closing") # {}  BY <1>1 DEF Farewell
<1>3. ASSUME NEW d \in Conn, server_closing, conn[d].state = "ACTIVE"
      PROVE  Dismissed(Stream(d)) \/ Late(d)
  BY <1>1, <1>3 DEF Farewell
<1>4. ASSUME server_closing, screen' = screen \/ \E u \in Utterance(Speaker) : screen' = Append(screen, u)
      PROVE  At(Host, "closing")' # {}
  BY <1>1, <1>2, <1>4, PlacesStay
<1>5. CASE Idles \/ \E c \in Conn : Sent(c)
  <2>1. /\ server_closing /\ screen' = screen
        /\ \A d \in Conn : Stream(d)' = Stream(d) /\ conn'[d].state = conn[d].state
    BY <1>5 DEF Idles, Sent, Calm, Hushed, Stays
  <2> QED  BY <1>1, <1>3, <1>4, <2>1, StillDismissed
<1>6. ASSUME NEW c \in Conn, Accepts(c) \/ Greets(c)
      PROVE  /\ server_closing /\ screen' = screen /\ conn'[c].state # "ACTIVE"
             /\ \A d \in Conn \ {c} : Stream(d)' = Stream(d) /\ conn'[d].state = conn[d].state
  BY <1>6 DEF Accepts, Greets, Calm, Hushed, Reaches, Stays
<1>7. CASE \E c \in Conn : Accepts(c) \/ Greets(c)
  BY <1>1, <1>3, <1>4, <1>6, <1>7, StillDismissed
<1>8. ASSUME NEW c \in Conn, Drops(c) \/ ReadsFrom(c) PROVE FALSE
  BY <1>8 DEF Drops, ReadsFrom, Calm
<1>9. ASSUME NEW c \in Conn, Speaks(c) \/ Leaves(c) PROVE FALSE
  BY <1>1, <1>9 DEF Speaks, Leaves, Base, Places
<1>10. CASE HostSpeaks  BY <1>10 DEF HostSpeaks
<1>11. CASE Closes
  <2>1. screen' = Append(screen, ClosingNotice.says)  BY <1>11 DEF Closes
  <2>2. /\ Len(screen) \in Nat /\ Len(screen') = Len(screen) + 1
        /\ screen'[Len(screen) + 1] = ClosingNotice.says
    BY <1>1, <2>1, Remarks, ScreenGrows
  <2>3. Len(screen) + 1 \in At(Host, "closing")'  BY <2>2, Remarks DEF At
  <2>4. ASSUME NEW d \in Conn, conn'[d].state = "ACTIVE" PROVE Dismissed(Stream(d)')
    <3>1. d \in Active  BY <1>11, <2>4 DEF Closes, Stays, Active
    <3>2. Stream(d)' = Append(Append(Stream(d), ClosingNotice), CloseMessage)
      BY <1>11, <3>1 DEF Closes
    <3>3. PICK s \in Seq(Msg) : s = Stream(d)  BY <1>1, HeardType DEF Base
    <3> QED  BY <3>2, <3>3, DismissedNow
  <2> QED  BY <2>3, <2>4
<1>12. ASSUME NEW c \in Conn, Enters(c)
       PROVE  /\ At(Host, "closing")' # {}
              /\ \A d \in Conn : conn'[d].state = "ACTIVE" => Dismissed(Stream(d)') \/ Late(d)'
  <2>1. server_closing  BY <1>12 DEF Enters
  <2>2. PICK m \in Broadcasts : /\ m.says = [who |-> c, what |-> "connected", n |-> 0]
                                /\ screen' = Append(screen, m.says)
                                /\ Reaches(Active \cup {c}, m)
    BY <1>12 DEF Enters
  <2>3. m \in Msg /\ m.says \in Utterance(Speaker)  BY Remarks
  <2>4. Late(c)'
    <3>1. PICK i \in At(Host, "closing") : TRUE  BY <1>2, <2>1
    <3>2. /\ Len(screen) \in Nat /\ Len(screen') = Len(screen) + 1
          /\ screen'[Len(screen) + 1] = m.says
      BY <1>1, <2>2, <2>3, ScreenGrows
    <3>3. Len(screen) + 1 \in At(c, "connected")'  BY <2>2, <3>2 DEF At
    <3>4. i \in At(Host, "closing")'  BY <1>1, <2>2, <2>3, <3>1, PlacesStay
    <3>5. i < Len(screen) + 1  BY <3>1, <3>2 DEF At
    <3> QED  BY <3>3, <3>4, <3>5 DEF Late
  <2>5. ASSUME NEW d \in Conn, d # c, conn'[d].state = "ACTIVE"
        PROVE  Dismissed(Stream(d)') \/ Late(d)'
    <3>1. conn[d].state = "ACTIVE"  BY <1>12, <2>5 DEF Enters, Stays
    <3>2. Stream(d)' = Append(Stream(d), m)  BY <2>2, <3>1 DEF Reaches, Active
    <3> QED  BY <1>1, <1>3, <2>1, <2>2, <2>3, <3>1, <3>2, StillDismissed
  <2> QED  BY <1>4, <2>1, <2>2, <2>3, <2>4, <2>5
<1>13. CASE Stops \/ Exits  BY <1>13 DEF Stops, Exits, Running
<1> QED  BY <1>5, <1>7, <1>8, <1>9, <1>10, <1>11, <1>12, <1>13 DEF RoomStep

LEMMA CleanupStep ==
    ASSUME Base, Base', Speakers, Farewell, RoomStep, pc' = "cleanup", server_closing'
    PROVE  \/ \E c \in Conn : conn'[c].state = "CONNECTION_ERROR"
           \/ \A c \in Conn :
                /\ Stream(c)' = wire'[c]
                /\ conn'[c].state = "ACTIVE" => Dismissed(Stream(c)') \/ Late(c)'
<1>1. ~Running' /\ Base /\ Base'  BY DEF Running
<1>2. CASE Idles \/ \E c \in Conn : Sent(c)
  <2>1. /\ pc = "cleanup" /\ server_closing /\ UNCHANGED <<conn, wire, screen>>
        /\ \A c \in Conn : Stream(c)' = Stream(c)
    BY <1>2 DEF Idles, Sent, Calm, Hushed
  <2>2. CASE \E c \in Conn : conn[c].state = "CONNECTION_ERROR"  BY <2>1, <2>2
  <2>3. CASE \A c \in Conn : /\ Stream(c) = wire[c]
                             /\ conn[c].state = "ACTIVE" => Dismissed(Stream(c)) \/ Late(c)
    BY <1>1, <2>1, <2>3, StillDismissed
  <2> QED  BY <2>1, <2>2, <2>3 DEF Farewell
<1>3. CASE Stops
  <2>1. CASE \E c \in Conn : conn'[c].state = "CONNECTION_ERROR"  BY <2>1
  <2>2. CASE /\ \A c \in Conn : conn'[c].out_buffer = <<>>
             /\ \A c \in Conn : conn'[c].state = "ACTIVE" =>
                  server_closing /\ conn[c].state = "ACTIVE" /\ Stream(c)' = Stream(c)
    <3>1. ASSUME NEW c \in Conn PROVE Stream(c)' = wire'[c]
      <4>1. PICK k \in Connection : k = conn'[c]
        BY <1>1 DEF Base, TypeOK, ServerTypeOK
      <4>2. k.out_buffer = <<>> /\ k.bytes_written \in Nat  BY <2>2, <4>1, ConnectionFields
      <4>3. PICK w \in Seq(Msg) : w = wire'[c]
        BY <1>1 DEF Base, TypeOK, SocketsTypeOK
      <4>4. Stream(c)' = w \o SubSeq(<<>>, k.bytes_written + 1, Len(<<>>))
        BY <4>1, <4>2, <4>3 DEF Stream
      <4>5. Len(<<>>) = 0  BY EmptySeq
      <4>6. SubSeq(<<>>, k.bytes_written + 1, 0) = <<>>
        <5>1. k.bytes_written + 1 \in Int /\ 0 \in Int /\ 0 < k.bytes_written + 1  BY <4>2
        <5> QED  BY <5>1, SubSeqEmpty
      <4>7. w \o <<>> = w  BY ConcatEmptySeq
      <4> QED  BY <4>3, <4>4, <4>5, <4>6, <4>7
    <3>2. screen' = screen \/ \E u \in Utterance(Speaker) : screen' = Append(screen, u)
      BY Shows
    <3>3. ASSUME NEW c \in Conn, conn'[c].state = "ACTIVE"
          PROVE  Dismissed(Stream(c)') \/ Late(c)'
      <4>1. Running /\ server_closing /\ conn[c].state = "ACTIVE" /\ Stream(c)' = Stream(c)
        BY <1>3, <2>2, <3>3 DEF Stops
      <4> QED  BY <1>1, <3>2, <4>1, StillDismissed DEF Farewell
    <3> QED  BY <3>1, <3>3
  <2> QED  BY <1>3, <2>1, <2>2 DEF Stops
<1>4. CASE Exits  BY <1>4 DEF Exits
<1>5. CASE HostSpeaks \/ Closes  BY <1>1, <1>5 DEF HostSpeaks, Closes, GoesOn
<1>6. ASSUME NEW c \in Conn,
             \/ Accepts(c) \/ Drops(c) \/ Greets(c) \/ ReadsFrom(c)
             \/ Enters(c) \/ Speaks(c) \/ Leaves(c)
      PROVE  FALSE
  BY <1>1, <1>6 DEF Accepts, Drops, Greets, ReadsFrom, Enters, Speaks, Leaves, GoesOn
<1> QED  BY <1>2, <1>3, <1>4, <1>5, <1>6 DEF RoomStep

LEMMA FarewellStep ==
    ASSUME Base, Base', Speakers, Farewell, RoomStep
    PROVE  Farewell'
  BY ClosingStep, CleanupStep DEF Farewell

LEMMA FarewellIs == Farewell => OrderlyClose
  BY DEF Farewell, OrderlyClose, Dismissed, Late, connections

(* After "/quit" the program does not end before the kernel has taken every *)
(* byte and every member has been sent the notice with CLOSE_CON behind it, *)
(* unless a connection failed (server.cpp, announce_room_closing,           *)
(* queue_close_to_all_clients and the condition of the event loop).         *)
THEOREM QuitSaysGoodbye == Spec => []OrderlyClose
<1>1. Init => Orderly /\ Farewell
  BY Started DEF Orderly, Farewell, Init, Running
<1>2. (Orderly /\ Farewell) /\ [Next]_vars => (Orderly /\ Farewell)'
  <2> SUFFICES ASSUME Orderly, Farewell, [Next]_vars PROVE Orderly' /\ Farewell'
    OBVIOUS
  <2>1. Base /\ Speakers /\ Base' /\ Orderly' /\ RoomStep
    BY OrderlyStep, NumberedSpeakers DEF Orderly, Ordered
  <2> QED  BY <2>1, FarewellStep
<1> QED  BY <1>1, <1>2, FarewellIs, PTL DEF Spec
=============================================================================
