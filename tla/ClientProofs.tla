---------------------------- MODULE ClientProofs ----------------------------
(***************************************************************************)
(* Theorems about the client, for every name, line, read and write, and    *)
(* every server.                                                           *)
(***************************************************************************)
EXTENDS ClientProperties, SelectionProofs

-----------------------------------------------------------------------------
(* Types.                                                                   *)

(* A program whose fields have their types is a Program.                    *)
LEMMA ProgramFields ==
    ASSUME NEW p \in Program
    PROVE  /\ \A q \in {"start", "wait", "dispatch", "exited"} : [p EXCEPT !.pc = q] \in Program
           /\ \A q \in ConnectionState : [p EXCEPT !.state = q] \in Program
           /\ \A q \in BOOLEAN : [p EXCEPT !.quitting = q] \in Program
           /\ \A q \in Seq(Msg) : [p EXCEPT !.out_buffer = q] \in Program
           /\ \A q \in Nat : [p EXCEPT !.bytes_written = q] \in Program
           /\ \A q \in SUBSET EpollFlag : [p EXCEPT !.interest = q] \in Program
           /\ \A q \in SUBSET Event : [p EXCEPT !.batch = q] \in Program
           /\ \A q \in Seq(Utterance(Speaker)) : [p EXCEPT !.shown = q] \in Program
           /\ \A q \in Nat : [p EXCEPT !.typed = q] \in Program
           /\ p.pc \in {"start", "wait", "dispatch", "exited"}
           /\ p.state \in ConnectionState /\ p.quitting \in BOOLEAN /\ p.name \in Nat
           /\ p.out_buffer \in Seq(Msg) /\ p.bytes_written \in Nat
           /\ p.interest \in SUBSET EpollFlag /\ p.batch \in SUBSET Event
           /\ p.shown \in Seq(Utterance(Speaker)) /\ p.typed \in Nat
  BY DEF Program

LEMMA ClientFrames ==
    ASSUME ClientTypeOK, NEW c \in Conn
    PROVE  /\ Hello(c) \in Msg /\ Goodbye(c) \in Msg
           /\ \A size \in Nat : Chat(c, size) \in Msg
<1>1. client[c].name \in Nat /\ client[c].typed + 1 \in Nat
  BY DEF ClientTypeOK, Program
<1> QED
  BY <1>1 DEF Hello, Goodbye, Chat, Msg, Message, MessageType, Utterance, Topic, Speaker

(* What a program has sent is a part of its buffer, and what it has read a  *)
(* part of what was sent to it; a closed server holds nothing.              *)
Bounds(c) ==
    /\ client[c].bytes_written <= Len(client[c].out_buffer)
    /\ taken[c] <= Len(wire[c])
    /\ Len(arrived[c]) <= sent[c]
    /\ ~Linked(c) => arrived[c] = <<>>

LEMMA ClientTypes ==
    ASSUME ClientTypeOK, NEW c \in Conn
    PROVE  /\ client[c] \in Program
           /\ arrived[c] \in Seq(Msg) /\ wire[c] \in Seq(Msg)
           /\ taken[c] \in Nat /\ sent[c] \in Nat
           /\ Len(arrived[c]) \in Nat /\ Len(wire[c]) \in Nat
           /\ Len(client[c].out_buffer) \in Nat
           /\ client[c].bytes_written \in Nat
<1>1. client[c] \in Program /\ arrived[c] \in Seq(Msg) /\ wire[c] \in Seq(Msg)
      /\ taken[c] \in Nat /\ sent[c] \in Nat
  BY DEF ClientTypeOK, SocketsTypeOK
<1> QED  BY <1>1, ProgramFields, LenProperties

(* One program and its connection change.                                   *)
LEMMA OneProgram ==
    ASSUME ClientTypeOK, NEW c \in Conn, NEW p \in Program,
           client' = [client EXCEPT ![c] = p]
    PROVE  client' \in [Conn -> Program]
  BY DEF ClientTypeOK

LEMMA Watching ==
    /\ ReadOnly \in SUBSET EpollFlag
    /\ ReadWrite \in SUBSET EpollFlag
    /\ WriteOnly \in SUBSET EpollFlag
  BY DEF ReadOnly, ReadWrite, WriteOnly, EpollFlag

LEMMA LeaveType ==
    ASSUME ClientTypeOK, NEW c \in Conn, NEW st \in ConnectionState, Leave(c, st)
    PROVE  client' \in [Conn -> Program]
<1>1. [[client[c] EXCEPT !.pc = "exited"] EXCEPT !.state = st] \in Program
  BY ClientTypes, ProgramFields
<1> DEFINE p == [[client[c] EXCEPT !.pc = "exited"] EXCEPT !.state = st]
<1>2. [p EXCEPT !.batch = {}] \in Program
  BY <1>1, ProgramFields
<1>3. client' = [client EXCEPT ![c] = [p EXCEPT !.batch = {}]]
  BY DEF Leave, ClientTypeOK
<1> QED  BY <1>2, <1>3, OneProgram

LEMMA CloseEndType ==
    ASSUME ClientTypeOK, NEW c \in Conn, NEW n, CloseEnd(c, n)
    PROVE  fin' \in [Conn -> BOOLEAN] /\ rst' \in [Conn -> BOOLEAN]
  BY DEF CloseEnd, ClientTypeOK, SocketsTypeOK, Linked

LEMMA QueueHelloType ==
    ASSUME ClientTypeOK, NEW c \in Conn, NEW batch \in SUBSET Event, QueueHello(c, batch)
    PROVE  client' \in [Conn -> Program]
<1> DEFINE p0 == client[c]
           q  == IF batch = {} THEN "wait" ELSE "dispatch"
           p1 == [p0 EXCEPT !.pc = q]
           p2 == [p1 EXCEPT !.batch = batch]
           p3 == [p2 EXCEPT !.state = "SENDING_CLIENT_HELLO"]
           p4 == [p3 EXCEPT !.out_buffer = Append(p0.out_buffer, Hello(c))]
           p5 == [p4 EXCEPT !.interest = WriteOnly]
<1>1. p0 \in Program /\ p0.out_buffer \in Seq(Msg)
  BY ClientTypes, ProgramFields
<1>2. Append(p0.out_buffer, Hello(c)) \in Seq(Msg)
  BY <1>1, ClientFrames, AppendProperties
<1>3. client' = [client EXCEPT ![c] = p5]
  <2>1. client' = [client EXCEPT ![c] = client'[c]]
    BY DEF QueueHello, ClientTypeOK
  <2>2. client'[c] = [p0 EXCEPT !.pc = q, !.batch = batch,
                                !.state = "SENDING_CLIENT_HELLO",
                                !.out_buffer = Append(@, Hello(c)),
                                !.interest = WriteOnly]
    BY DEF QueueHello, ClientTypeOK
  <2>3. client'[c] = p5
    BY <1>1, <2>2 DEF Program
  <2> QED  BY <2>1, <2>3
<1>4. p1 \in Program  BY <1>1, ProgramFields
<1>5. p2 \in Program  BY <1>4, ProgramFields
<1>6. p3 \in Program  BY <1>5, ProgramFields DEF ConnectionState
<1>7. p4 \in Program  BY <1>2, <1>6, ProgramFields
<1>8. p5 \in Program  BY <1>7, Watching, ProgramFields
<1> HIDE DEF p5
<1> QED  BY <1>3, <1>8, OneProgram

(* Connecting.                                                              *)
LEMMA ConnectType ==
    ASSUME ClientTypeOK, NEW c \in Conn, ConnectNext(c)
    PROVE  ClientTypeOK'
<1>1. CASE ConnectLater(c)
  <2> DEFINE p == [[client[c] EXCEPT !.pc = "wait"] EXCEPT !.state = "CONNECTING"]
             q == [p EXCEPT !.interest = ReadWrite]
  <2>2. p \in Program  BY ClientTypes, ProgramFields DEF ConnectionState
  <2>3. q \in Program  BY <2>2, Watching, ProgramFields
  <2>4. client' = [client EXCEPT ![c] = q]
    <3>1. client' = [client EXCEPT ![c] = client'[c]]  BY <1>1 DEF ConnectLater, ClientTypeOK
    <3>2. client'[c] = q  BY <1>1 DEF ConnectLater, ClientTypeOK
    <3> QED  BY <3>1, <3>2
  <2>1. client' \in [Conn -> Program]
    <3> HIDE DEF q
    <3> QED  BY <2>3, <2>4, OneProgram
  <2> QED  BY <1>1, <2>1 DEF ConnectLater, ClientTypeOK, SocketsTypeOK, sockVars
<1>2. CASE ConnectNow(c)
  <2>1. CASE protocol_payload_length_is_legal(client[c].name)
    <3>1. QueueHello(c, {}) /\ fin' = fin  BY <1>2, <2>1 DEF ConnectNow
    <3>2. client' \in [Conn -> Program]  BY <3>1, QueueHelloType
    <3> QED  BY <1>2, <3>1, <3>2 DEF ConnectNow, ClientTypeOK, SocketsTypeOK
  <2>2. CASE ~protocol_payload_length_is_legal(client[c].name)
    <3>1. Leave(c, "CONNECTION_ERROR") /\ fin' = [fin EXCEPT ![c] = TRUE]
      BY <1>2, <2>2 DEF ConnectNow
    <3>2. client' \in [Conn -> Program]  BY <3>1, LeaveType DEF ConnectionState
    <3> QED  BY <1>2, <3>1, <3>2 DEF ConnectNow, ClientTypeOK, SocketsTypeOK
  <2> QED  BY <2>1, <2>2
<1>3. CASE ConnectFails(c)
  <2>1. client' \in [Conn -> Program]
    BY <1>3, LeaveType DEF ConnectFails, ConnectionState
  <2> QED  BY <1>3, <2>1 DEF ConnectFails, ClientTypeOK, SocketsTypeOK, sockVars
<1> QED  BY <1>1, <1>2, <1>3 DEF ConnectNext

(* Waiting, and events that no handler takes.                               *)
LEMMA WaitType ==
    ASSUME ClientTypeOK, NEW c \in Conn, WaitForEvents(c)
    PROVE  ClientTypeOK'
<1>1. SocketEvent(c) \in Event
  BY DEF SocketEvent, SocketReadiness, Event, EpollFlag
<1>2. StdinReady(c) \subseteq Event
  BY DEF StdinReady, Event, EpollFlag
<1>3. PICK ready \in SUBSET Event :
        client' = [client EXCEPT ![c].pc = "dispatch", ![c].batch = ready]
  <2>1. PICK typed \in SUBSET StdinReady(c) :
          client' = [client EXCEPT ![c].pc = "dispatch",
                       ![c].batch = {e \in {SocketEvent(c)} : e.flags # {}} \cup typed]
    BY DEF WaitForEvents
  <2>2. {e \in {SocketEvent(c)} : e.flags # {}} \cup typed \in SUBSET Event
    BY <1>1, <1>2
  <2> QED  BY <2>1, <2>2
<1> DEFINE p == [[client[c] EXCEPT !.pc = "dispatch"] EXCEPT !.batch = ready]
<1>5. client' = [client EXCEPT ![c] = p]  BY <1>3 DEF ClientTypeOK
<1>6. p \in Program
  <2>1. [client[c] EXCEPT !.pc = "dispatch"] \in Program  BY ClientTypes, ProgramFields
  <2> QED  BY <2>1, ProgramFields
<1>4. client' \in [Conn -> Program]  BY <1>5, <1>6, OneProgram
<1> QED  BY <1>4 DEF WaitForEvents, ClientTypeOK, SocketsTypeOK, sockVars

(* The loop goes on after an event.                                         *)
LEMMA AfterEvent ==
    ASSUME ClientTypeOK, NEW c \in Conn, NEW e
    PROVE  /\ After(c, e) \in {"wait", "dispatch"}
           /\ Rest(c, e) \in SUBSET Event
           /\ \A p \in Program : [[p EXCEPT !.pc = After(c, e)]
                                      EXCEPT !.batch = Rest(c, e)] \in Program
<1>1. After(c, e) \in {"wait", "dispatch"}  BY DEF After
<1>2. Rest(c, e) \in SUBSET Event  BY ClientTypes, ProgramFields DEF Rest
<1>3. ASSUME NEW p \in Program
      PROVE  [[p EXCEPT !.pc = After(c, e)] EXCEPT !.batch = Rest(c, e)] \in Program
  <2>1. [p EXCEPT !.pc = After(c, e)] \in Program  BY <1>1, ProgramFields
  <2> QED  BY <1>2, <2>1, ProgramFields
<1> QED  BY <1>1, <1>2, <1>3

LEMMA SkipType ==
    ASSUME ClientTypeOK, NEW c \in Conn, NEW e, SkipEvent(c, e)
    PROVE  ClientTypeOK'
<1> DEFINE p == [[client[c] EXCEPT !.pc = After(c, e)] EXCEPT !.batch = Rest(c, e)]
<1>1. client' = [client EXCEPT ![c] = p]  BY DEF SkipEvent, ClientTypeOK
<1>2. p \in Program  BY AfterEvent, ClientTypes
<1>3. client' \in [Conn -> Program]  BY <1>1, <1>2, OneProgram
<1> QED  BY <1>3 DEF SkipEvent, ClientTypeOK, SocketsTypeOK, sockVars

LEMMA CheckType ==
    ASSUME ClientTypeOK, NEW c \in Conn, NEW e,
           ConnectionRefused(c, e) \/ ConnectionMade(c, e)
    PROVE  ClientTypeOK'
<1>1. CASE ConnectionRefused(c, e)
  <2>1. client' \in [Conn -> Program]
    BY <1>1, LeaveType DEF ConnectionRefused, ConnectionState
  <2>2. fin' \in [Conn -> BOOLEAN] /\ rst' \in [Conn -> BOOLEAN]
    BY <1>1, CloseEndType DEF ConnectionRefused
  <2> QED
    BY <1>1, <2>1, <2>2 DEF ConnectionRefused, CheckConnection, ClientTypeOK, SocketsTypeOK
<1>2. CASE ConnectionMade(c, e)
  <2>1. client' \in [Conn -> Program]
    BY <1>2, QueueHelloType, AfterEvent DEF ConnectionMade
  <2> QED  BY <1>2, <2>1 DEF ConnectionMade, CheckConnection, ClientTypeOK, SocketsTypeOK
<1> QED  BY <1>1, <1>2

(* Sending.                                                                 *)
LEMMA SendsType ==
    ASSUME ClientTypeOK, NEW c \in Conn, Bounds(c), NEW k \in 0 .. Pending(c), Sends(c, k)
    PROVE  /\ sent' \in [Conn -> Nat] /\ arrived' \in [Conn -> Seq(Msg)]
           /\ hangup' \in [Conn -> {"none", "fin", "rst"}]
<1>1. /\ client[c].out_buffer \in Seq(Msg) /\ client[c].bytes_written \in Nat
      /\ Len(client[c].out_buffer) \in Nat
      /\ arrived[c] \in Seq(Msg) /\ sent[c] \in Nat
  BY ClientTypes, ProgramFields
<1>2. k \in Nat /\ client[c].bytes_written + k <= Len(client[c].out_buffer)
  BY <1>1 DEF Pending
<1> DEFINE s == SubSeq(client[c].out_buffer, client[c].bytes_written + 1,
                       client[c].bytes_written + k)
<1>3. s \in Seq(Msg)
  <2>1. \A i \in client[c].bytes_written + 1 .. client[c].bytes_written + k :
           client[c].out_buffer[i] \in Msg
    BY <1>1, <1>2, ElementOfSeq
  <2> QED  BY <1>1, <1>2, <2>1, SubSeqProperties
<1>4. arrived[c] \o s \in Seq(Msg)
  BY <1>1, <1>3, ConcatProperties
<1>5. sent' \in [Conn -> Nat]
  BY <1>1, <1>2 DEF Sends, ClientTypeOK, SocketsTypeOK
<1>6. arrived' = arrived \/ arrived' = [arrived EXCEPT ![c] = arrived[c] \o s]
  BY DEF Sends, ClientTypeOK, SocketsTypeOK
<1>7. arrived' \in [Conn -> Seq(Msg)]
  <2> HIDE DEF s
  <2> QED  BY <1>4, <1>6 DEF ClientTypeOK, SocketsTypeOK
<1>8. hangup' = hangup \/ hangup' = [hangup EXCEPT ![c] = "rst"]
  BY DEF Sends
<1> QED  BY <1>5, <1>7, <1>8 DEF ClientTypeOK

LEMMA FlushedType ==
    ASSUME NEW p \in Program
    PROVE  Flushed(p) \in Program
<1>1. [p EXCEPT !.out_buffer = <<>>] \in Program  BY ProgramFields, EmptySeq
<1>2. [[p EXCEPT !.out_buffer = <<>>] EXCEPT !.bytes_written = 0] \in Program
  BY <1>1, ProgramFields
<1> QED  BY <1>2 DEF Flushed

LEMMA GreetedType ==
    ASSUME NEW state \in ConnectionState
    PROVE  Greeted(state) \in ConnectionState
  BY DEF Greeted, ConnectionState

LEMMA SendType ==
    ASSUME ClientTypeOK, NEW c \in Conn, Bounds(c), NEW e, SendNext(c, e)
    PROVE  ClientTypeOK'
<1>0. client[c] \in Program  BY ClientTypes
<1>1. CASE SendFails(c, e)
  <2>1. client' \in [Conn -> Program]
    BY <1>1, LeaveType DEF SendFails, ConnectionState
  <2>2. fin' \in [Conn -> BOOLEAN] /\ rst' \in [Conn -> BOOLEAN]
    BY <1>1, CloseEndType DEF SendFails
  <2> QED  BY <1>1, <2>1, <2>2 DEF SendFails, SendEvent, ClientTypeOK, SocketsTypeOK
<1>2. CASE SendPartial(c, e)
  <2>1. PICK k \in 0 .. Pending(c) - 1 :
          /\ Sends(c, k)
          /\ client' = [client EXCEPT
               ![c] = [Written(@, k) EXCEPT !.pc = After(c, e), !.batch = Rest(c, e)]]
    BY <1>2 DEF SendPartial
  <2>2. k \in 0 .. Pending(c) /\ client[c].bytes_written + k \in Nat
    BY ClientTypes DEF Pending
  <2> DEFINE w == [client[c] EXCEPT !.bytes_written = @ + k]
             p == [[w EXCEPT !.pc = After(c, e)] EXCEPT !.batch = Rest(c, e)]
  <2>3. w \in Program  BY <1>0, <2>2, ProgramFields
  <2>4. p \in Program
    <3> HIDE DEF w
    <3> QED  BY <2>3, AfterEvent
  <2>5. client' = [client EXCEPT ![c] = p]  BY <2>1 DEF Written, ClientTypeOK
  <2> HIDE DEF p
  <2>6. client' \in [Conn -> Program]  BY <2>4, <2>5, OneProgram
  <2>7. /\ sent' \in [Conn -> Nat] /\ arrived' \in [Conn -> Seq(Msg)]
        /\ hangup' \in [Conn -> {"none", "fin", "rst"}]
    BY <2>1, <2>2, SendsType
  <2> QED  BY <1>2, <2>6, <2>7 DEF SendPartial, SendEvent, ClientTypeOK, SocketsTypeOK
<1>3. ASSUME SendAll(c, e)
      PROVE  /\ sent' \in [Conn -> Nat] /\ arrived' \in [Conn -> Seq(Msg)]
             /\ hangup' \in [Conn -> {"none", "fin", "rst"}]
  <2>1. Pending(c) \in 0 .. Pending(c)
    BY ClientTypes DEF Pending, Bounds
  <2> QED  BY <1>3, <2>1, SendsType DEF SendAll
<1>4. Flushed(client[c]) \in Program  BY <1>0, FlushedType
<1>5. CASE SendDone(c, e)
  <2>3. client[c].state \in ConnectionState  BY <1>0, ProgramFields
  <2>4. Greeted(client[c].state) \in ConnectionState  BY <2>3, GreetedType
  <2> DEFINE f == Flushed(client[c])
             p == [[f EXCEPT !.pc = After(c, e)] EXCEPT !.batch = Rest(c, e)]
             q == [p EXCEPT !.interest = ReadOnly]
             r == [q EXCEPT !.state = Greeted(client[c].state)]
  <2>1. p \in Program
    <3> HIDE DEF f
    <3> QED  BY <1>4, AfterEvent DEF f
  <2>2. q \in Program
    <3> HIDE DEF p
    <3> QED  BY <2>1, Watching, ProgramFields
  <2>5. r \in Program
    <3> HIDE DEF q, f
    <3> QED  BY <2>2, <2>4, ProgramFields
  <2>6. client' = [client EXCEPT ![c] = r]
    <3>1. client' = [client EXCEPT ![c] = client'[c]]
      BY <1>5 DEF SendDone, ClientTypeOK
    <3>2. client'[c] = r
      BY <1>0, <1>5 DEF SendDone, ClientTypeOK, Flushed, Program
    <3> HIDE DEF r
    <3> QED  BY <3>1, <3>2
  <2> HIDE DEF r
  <2>7. client' \in [Conn -> Program]  BY <2>5, <2>6, OneProgram
  <2> QED  BY <1>3, <1>5, <2>7 DEF SendDone, SendAll, SendEvent, ClientTypeOK, SocketsTypeOK
<1>6. CASE SendGoodbye(c, e)
  <2> DEFINE f == Flushed(client[c])
             p == [f EXCEPT !.pc = "exited"]
             q == [p EXCEPT !.batch = {}]
  <2>1. p \in Program
    <3> HIDE DEF f
    <3> QED  BY <1>4, ProgramFields DEF f
  <2>2. q \in Program
    <3> HIDE DEF p
    <3> QED  BY <2>1, ProgramFields
  <2>3. client' = [client EXCEPT ![c] = q]
    BY <1>6 DEF SendGoodbye, ClientTypeOK
  <2> HIDE DEF q
  <2>4. client' \in [Conn -> Program]  BY <2>2, <2>3, OneProgram
  <2>5. fin' \in [Conn -> BOOLEAN]
    BY <1>6 DEF SendGoodbye, ClientTypeOK, SocketsTypeOK, Linked
  <2> QED
    BY <1>3, <1>6, <2>4, <2>5
       DEF SendGoodbye, SendAll, SendEvent, ClientTypeOK, SocketsTypeOK
<1> QED  BY <1>1, <1>2, <1>5, <1>6 DEF SendNext

(* Reading.                                                                 *)
LEMMA Unreads ==
    ASSUME ClientTypeOK, NEW c \in Conn, Bounds(c), NEW k \in ReadSizes(c)
    PROVE  k \in 0 .. Unread(c) /\ k \in Nat /\ taken[c] + k \in 0 .. Len(wire[c])
  BY ClientTypes DEF ReadSizes, Unread, Bounds

LEMMA InputShape ==
    ASSUME ClientTypeOK, NEW c \in Conn, Bounds(c), NEW k \in 0 .. Unread(c)
    PROVE  /\ Input(c, k) \in Seq(Msg) /\ Len(Input(c, k)) = k
           /\ \A i \in 1 .. k : Input(c, k)[i] = wire[c][taken[c] + i]
<1>1. /\ wire[c] \in Seq(Msg) /\ taken[c] \in Nat /\ Len(wire[c]) \in Nat
      /\ k \in Nat /\ taken[c] + k <= Len(wire[c])
  BY ClientTypes DEF Unread, Bounds
<1>2. \A w \in Seq(Msg), t \in Nat, n \in Nat : t + n <= Len(w) =>
        /\ SubSeq(w, t + 1, t + n) \in Seq(Msg) /\ Len(SubSeq(w, t + 1, t + n)) = n
        /\ \A i \in 1 .. n : SubSeq(w, t + 1, t + n)[i] = w[t + i]
  BY PieceShape
<1> QED  BY <1>1, <1>2 DEF Input

LEMMA MsgSays == \A m \in Msg : m.says \in Utterance(Speaker)
  BY DEF Msg, Message

LEMMA PrintsType ==
    ASSUME ClientTypeOK, NEW c \in Conn, NEW frames \in Seq(Msg)
    PROVE  /\ Says(Only(frames, Broadcasts)) \in Seq(Utterance(Speaker))
           /\ Prints(c, frames) \in Seq(Utterance(Speaker))
<1>1. Only(frames, Broadcasts) \in Seq(Msg)  BY OnlyType
<1>2. Says(Only(frames, Broadcasts)) \in Seq(Utterance(Speaker))
  BY <1>1, MsgSays, SaysType
<1>3. client[c].shown \in Seq(Utterance(Speaker))  BY ClientTypes, ProgramFields
<1> QED  BY <1>2, <1>3, ConcatProperties DEF Prints

LEMMA ReadType ==
    ASSUME ClientTypeOK, NEW c \in Conn, Bounds(c), NEW e, ReadNext(c, e)
    PROVE  ClientTypeOK'
<1>0. client[c] \in Program /\ taken[c] \in Nat  BY ClientTypes
<1>1. CASE ReadFails(c, e)
  <2>1. client' \in [Conn -> Program]
    BY <1>1, LeaveType DEF ReadFails, ConnectionState
  <2>2. fin' \in [Conn -> BOOLEAN] /\ rst' \in [Conn -> BOOLEAN]
    BY <1>1, CloseEndType DEF ReadFails
  <2> QED  BY <1>1, <2>1, <2>2 DEF ReadFails, ReadEvent, ClientTypeOK, SocketsTypeOK
<1>2. ASSUME NEW k \in ReadSizes(c), Reads(c, k) PROVE taken' \in [Conn -> Nat]
  BY <1>0, <1>2, Unreads DEF Reads, ClientTypeOK, SocketsTypeOK
<1>3. CASE ReadFrames(c, e)
  <2>1. PICK k \in ReadSizes(c) :
          /\ Reads(c, k)
          /\ client' = [client EXCEPT
              ![c].pc = After(c, e), ![c].batch = Rest(c, e),
              ![c].state = IF k > 0 THEN "ACTIVE" ELSE @,
              ![c].shown = Prints(c, Input(c, k))]
    BY <1>3 DEF ReadFrames
  <2> DEFINE s == IF k > 0 THEN "ACTIVE" ELSE client[c].state
             p == [[client[c] EXCEPT !.pc = After(c, e)] EXCEPT !.batch = Rest(c, e)]
             q == [p EXCEPT !.state = s]
             r == [q EXCEPT !.shown = Prints(c, Input(c, k))]
  <2>2. p \in Program  BY <1>0, AfterEvent
  <2>3. s \in ConnectionState
    <3>1. s \in {"ACTIVE", client[c].state}  OBVIOUS
    <3>2. client[c].state \in ConnectionState  BY <1>0, ProgramFields
    <3> HIDE DEF s
    <3> QED  BY <3>1, <3>2 DEF ConnectionState
  <2>4. q \in Program
    <3> HIDE DEF p, s
    <3> QED  BY <2>2, <2>3, ProgramFields
  <2>5. Prints(c, Input(c, k)) \in Seq(Utterance(Speaker))
    BY Unreads, InputShape, PrintsType
  <2>6. r \in Program
    <3> HIDE DEF q
    <3> QED  BY <2>4, <2>5, ProgramFields
  <2>7. client' = [client EXCEPT ![c] = r]
    <3>1. client' = [client EXCEPT ![c] = client'[c]]  BY <2>1 DEF ClientTypeOK
    <3>2. client'[c] = r  BY <1>0, <2>1 DEF ClientTypeOK, Program
    <3> HIDE DEF r
    <3> QED  BY <3>1, <3>2
  <2> HIDE DEF r
  <2>8. client' \in [Conn -> Program]  BY <2>6, <2>7, OneProgram
  <2> QED  BY <1>2, <1>3, <2>1, <2>8 DEF ReadFrames, ReadEvent, ClientTypeOK, SocketsTypeOK
<1>4. CASE ReadEnds(c, e)
  <2>1. PICK k \in ReadSizes(c) :
          /\ Reads(c, k)
          /\ CloseEnd(c, Unread(c) - k)
          /\ \/ Leave(c, "CLOSED")
             \/ \E i \in Stops(c, k), st \in {"CLOSED", "CONNECTION_ERROR"} :
                  client' = [client EXCEPT
                      ![c].pc = "exited", ![c].batch = {}, ![c].state = st,
                      ![c].shown = Prints(c, Input(c, i - 1))]
    BY <1>4 DEF ReadEnds
  <2>2. client' \in [Conn -> Program]
    <3>1. CASE Leave(c, "CLOSED")  BY <3>1, LeaveType DEF ConnectionState
    <3>2. ASSUME NEW i \in Stops(c, k), NEW st \in {"CLOSED", "CONNECTION_ERROR"},
                 client' = [client EXCEPT
                      ![c].pc = "exited", ![c].batch = {}, ![c].state = st,
                      ![c].shown = Prints(c, Input(c, i - 1))]
          PROVE  client' \in [Conn -> Program]
      <4>1. i - 1 \in 0 .. Unread(c)
        <5>1. i \in 1 .. k  BY <3>2 DEF Stops
        <5> QED  BY <5>1, Unreads, ClientTypes DEF Unread
      <4>2. Prints(c, Input(c, i - 1)) \in Seq(Utterance(Speaker))
        BY <4>1, InputShape, PrintsType
      <4> DEFINE p == [client[c] EXCEPT !.pc = "exited"]
                 q == [p EXCEPT !.batch = {}]
                 r == [q EXCEPT !.state = st]
                 u == [r EXCEPT !.shown = Prints(c, Input(c, i - 1))]
      <4>3. q \in Program
        <5>1. p \in Program  BY <1>0, ProgramFields
        <5> HIDE DEF p
        <5> QED  BY <5>1, ProgramFields
      <4>4. r \in Program
        <5> HIDE DEF q
        <5> QED  BY <4>3, ProgramFields DEF ConnectionState
      <4>5. u \in Program
        <5> HIDE DEF r
        <5> QED  BY <4>2, <4>4, ProgramFields
      <4>6. client' = [client EXCEPT ![c] = u]
        <5>1. client' = [client EXCEPT ![c] = client'[c]]  BY <3>2 DEF ClientTypeOK
        <5>2. client'[c] = u  BY <1>0, <3>2 DEF ClientTypeOK, Program
        <5> HIDE DEF u
        <5> QED  BY <5>1, <5>2
      <4> HIDE DEF u
      <4> QED  BY <4>5, <4>6, OneProgram
    <3> QED  BY <2>1, <3>1, <3>2
  <2>3. fin' \in [Conn -> BOOLEAN] /\ rst' \in [Conn -> BOOLEAN]
    BY <2>1, CloseEndType
  <2> QED  BY <1>2, <1>4, <2>1, <2>2, <2>3 DEF ReadEnds, ReadEvent, ClientTypeOK, SocketsTypeOK
<1> QED  BY <1>1, <1>3, <1>4 DEF ReadNext

(* The terminal.                                                            *)
LEMMA TypedType ==
    ASSUME ClientTypeOK, NEW c \in Conn, NEW e, NEW events \in SUBSET EpollFlag
    PROVE  /\ Typed(c, e, events) \in [Conn -> Program]
           /\ Typed(c, e, events) = [client EXCEPT ![c] = Typed(c, e, events)[c]]
<1> DEFINE p == [[client[c] EXCEPT !.pc = After(c, e)] EXCEPT !.batch = Rest(c, e)]
           q == [p EXCEPT !.typed = client[c].typed + 1]
           r == [q EXCEPT !.interest = events]
<1>0. client[c] \in Program  BY ClientTypes
<1>1. p \in Program  BY <1>0, AfterEvent
<1>2. client[c].typed + 1 \in Nat
  <2>1. client[c].typed \in Nat  BY <1>0, ProgramFields
  <2> QED  BY <2>1
<1>3. q \in Program
  <2> HIDE DEF p
  <2> QED  BY <1>1, <1>2, ProgramFields
<1>4. r \in Program
  <2> HIDE DEF q
  <2> QED  BY <1>3, ProgramFields
<1>5. Typed(c, e, events)[c] = r  BY <1>0 DEF Typed, ClientTypeOK, Program
<1>6. Typed(c, e, events) = [client EXCEPT ![c] = Typed(c, e, events)[c]]
  BY DEF Typed, ClientTypeOK
<1> HIDE DEF r
<1> QED  BY <1>4, <1>5, <1>6 DEF ClientTypeOK

LEMMA StdinType ==
    ASSUME ClientTypeOK, NEW c \in Conn, NEW e, StdinNext(c, e)
    PROVE  ClientTypeOK'
<1>0. client[c] \in Program /\ client[c].out_buffer \in Seq(Msg)
      /\ client[c].interest \in SUBSET EpollFlag
      /\ client[c].shown \in Seq(Utterance(Speaker))
  BY ClientTypes, ProgramFields
<1>1. CASE StdinLeaves(c, e)
  <2>1. client' \in [Conn -> Program]
    BY <1>0, <1>1, LeaveType, ProgramFields DEF StdinLeaves
  <2>2. fin' \in [Conn -> BOOLEAN] /\ rst' \in [Conn -> BOOLEAN]
    BY <1>1, CloseEndType DEF StdinLeaves
  <2> QED  BY <1>1, <2>1, <2>2 DEF StdinLeaves, StdinEvent, ClientTypeOK, SocketsTypeOK
<1>2. CASE StdinIgnored(c, e)
  <2>1. client' \in [Conn -> Program]  BY <1>0, <1>2, TypedType DEF StdinIgnored
  <2> QED  BY <1>2, <2>1 DEF StdinIgnored, StdinEvent, ClientTypeOK, SocketsTypeOK
<1>3. ASSUME NEW events \in SUBSET EpollFlag
      PROVE  /\ Typed(c, e, events)[c] \in Program
             /\ Typed(c, e, events)[c].out_buffer = client[c].out_buffer
             /\ Typed(c, e, events)[c].shown = client[c].shown
             /\ Typed(c, e, events) \in [Conn -> Program]
  <2>1. Typed(c, e, events) \in [Conn -> Program]  BY TypedType
  <2>2. /\ Typed(c, e, events)[c].out_buffer = client[c].out_buffer
        /\ Typed(c, e, events)[c].shown = client[c].shown
    BY <1>0 DEF Typed, ClientTypeOK, Program
  <2> QED  BY <2>1, <2>2
<1>4. CASE StdinChat(c, e)
  <2>1. PICK size \in TypedSizes :
          client' = [Typed(c, e, ReadWrite) EXCEPT
                       ![c].out_buffer = Append(@, Chat(c, size)),
                       ![c].shown = Append(@, Chat(c, size).says)]
    BY <1>4 DEF StdinChat
  <2>2. Chat(c, size) \in Msg  BY ClientFrames, ClientAssumption
  <2> DEFINE ty == Typed(c, e, ReadWrite)
             o == Append(ty[c].out_buffer, Chat(c, size))
             s == Append(ty[c].shown, Chat(c, size).says)
             p == [ty[c] EXCEPT !.out_buffer = o]
             q == [p EXCEPT !.shown = s]
  <2>3. ty[c] \in Program /\ ty \in [Conn -> Program]  BY <1>3, Watching
  <2>4. o \in Seq(Msg) /\ s \in Seq(Utterance(Speaker))
    <3>1. ty[c].out_buffer \in Seq(Msg) /\ ty[c].shown \in Seq(Utterance(Speaker))
      BY <2>3, ProgramFields
    <3> HIDE DEF ty
    <3> QED  BY <2>2, <3>1, MsgSays, AppendProperties
  <2>5. p \in Program
    <3> HIDE DEF ty, o
    <3> QED  BY <2>3, <2>4, ProgramFields
  <2>6. q \in Program
    <3> HIDE DEF p, s
    <3> QED  BY <2>4, <2>5, ProgramFields
  <2>7. client' = [ty EXCEPT ![c] = q]
    <3>1. client' = [ty EXCEPT ![c].out_buffer = Append(@, Chat(c, size)),
                       ![c].shown = Append(@, Chat(c, size).says)]  BY <2>1
    <3> HIDE DEF ty
    <3>2. client' = [ty EXCEPT ![c] = client'[c]]  BY <2>3, <3>1
    <3>3. client'[c] = q  BY <2>3, <3>1 DEF Program
    <3> HIDE DEF q
    <3> QED  BY <3>2, <3>3
  <2>8. client' \in [Conn -> Program]
    <3> HIDE DEF ty, q
    <3> QED  BY <2>3, <2>6, <2>7
  <2> QED  BY <1>4, <2>8 DEF StdinChat, StdinEvent, ClientTypeOK, SocketsTypeOK
<1>5. CASE StdinQuit(c, e)
  <2> DEFINE ty == Typed(c, e, WriteOnly)
             o == Append(ty[c].out_buffer, Goodbye(c))
             p == [ty[c] EXCEPT !.out_buffer = o]
             q == [p EXCEPT !.quitting = TRUE]
  <2>1. ty[c] \in Program /\ ty \in [Conn -> Program]  BY <1>3, Watching
  <2>2. o \in Seq(Msg)
    <3>1. ty[c].out_buffer \in Seq(Msg)  BY <2>1, ProgramFields
    <3> HIDE DEF ty
    <3> QED  BY <3>1, ClientFrames, AppendProperties
  <2>3. p \in Program
    <3> HIDE DEF ty, o
    <3> QED  BY <2>1, <2>2, ProgramFields
  <2>4. q \in Program
    <3> HIDE DEF p
    <3> QED  BY <2>3, ProgramFields
  <2>5. client' = [ty EXCEPT ![c] = q]
    <3>1. client' = [ty EXCEPT ![c].out_buffer = Append(@, Goodbye(c)),
                               ![c].quitting = TRUE]  BY <1>5 DEF StdinQuit
    <3> HIDE DEF ty
    <3>2. client' = [ty EXCEPT ![c] = client'[c]]  BY <2>1, <3>1
    <3>3. client'[c] = q  BY <2>1, <3>1 DEF Program
    <3> HIDE DEF q
    <3> QED  BY <3>2, <3>3
  <2>6. client' \in [Conn -> Program]
    <3> HIDE DEF ty, q
    <3> QED  BY <2>1, <2>4, <2>5
  <2> QED  BY <1>5, <2>6 DEF StdinQuit, StdinEvent, ClientTypeOK, SocketsTypeOK
<1> QED  BY <1>1, <1>2, <1>4, <1>5 DEF StdinNext

(* The network and the server.                                              *)
LEMMA OutsideType ==
    ASSUME ClientTypeOK, NEW c \in Conn, NetworkNext(c) \/ ServerNext(c)
    PROVE  ClientTypeOK'
<1> USE DEF ClientTypeOK, SocketsTypeOK, sockVars, clientVars
<1>1. CASE Established(c)  BY <1>1 DEF Established, RemoteConnect
<1>2. CASE Refused(c)  BY <1>2 DEF Refused
<1>3. CASE AnsweredByReset(c)  BY <1>3 DEF AnsweredByReset
<1>4. CASE ServerSends(c)
  <2>1. PICK f \in Replies :
          wire' = [wire EXCEPT ![c] = Append(@,
            [type |-> f.type, size |-> f.size,
             says |-> [who |-> Host, what |-> TopicOf(f.type), n |-> Len(@) + 1]])]
    BY <1>4 DEF ServerSends
  <2> DEFINE m == [type |-> f.type, size |-> f.size,
                   says |-> [who |-> Host, what |-> TopicOf(f.type), n |-> Len(wire[c]) + 1]]
  <2>2. wire[c] \in Seq(Msg) /\ Len(wire[c]) \in Nat  BY LenProperties
  <2>3. f.type \in MessageType /\ f.size \in Nat  BY ClientAssumption
  <2>4. TopicOf(f.type) \in Topic  BY DEF TopicOf, Topic
  <2>5. m \in Msg  BY <2>2, <2>3, <2>4 DEF Msg, Message, Utterance, Speaker
  <2>6. wire' = [wire EXCEPT ![c] = Append(wire[c], m)]  BY <2>1
  <2> HIDE DEF m
  <2>7. wire' \in [Conn -> Seq(Msg)]  BY <2>2, <2>5, <2>6, AppendProperties
  <2> QED  BY <1>4, <2>7 DEF ServerSends
<1>5. CASE ServerReads(c)
  <2>1. Tail(arrived[c]) \in Seq(Msg)  BY <1>5, HeadTailProperties DEF ServerReads
  <2> QED  BY <1>5, <2>1 DEF ServerReads
<1>6. CASE ServerCloses(c)
  <2>1. \A x \in {EndOf(c), "rst"} : x \in {"none", "fin", "rst"}  BY DEF EndOf
  <2>2. arrived' \in [Conn -> Seq(Msg)]
    BY <1>6, EmptySeq DEF ServerCloses, CloseSockets
  <2> QED  BY <1>6, <2>1, <2>2 DEF ServerCloses, CloseSockets
<1> QED  BY <1>1, <1>2, <1>3, <1>4, <1>5, <1>6 DEF NetworkNext, ServerNext

LEMMA ClientTypeInit == Init => ClientTypeOK
<1> SUFFICES ASSUME Init PROVE ClientTypeOK  OBVIOUS
<1>1. SocketsTypeOK  BY EmptySeq DEF Init, SocketsInit, SocketsTypeOK
<1>2. PICK names \in [Conn -> NameSizes] :
         client = [c \in Conn |->
           [pc |-> "start", state |-> "NONE", quitting |-> FALSE, name |-> names[c],
            out_buffer |-> <<>>, bytes_written |-> 0, interest |-> {},
            batch |-> {}, shown |-> <<>>, typed |-> 0]]
  BY DEF Init, ClientInit
<1>3. ASSUME NEW c \in Conn PROVE client[c] \in Program
  <2>1. names[c] \in Nat  BY ClientAssumption
  <2>2. <<>> \in Seq(Msg) /\ <<>> \in Seq(Utterance(Speaker))  BY EmptySeq
  <2> QED  BY <1>2, <2>1, <2>2 DEF Program, ConnectionState
<1>4. client \in [Conn -> Program]  BY <1>2, <1>3
<1> QED  BY <1>1, <1>4 DEF Init, ClientInit, ClientTypeOK

LEMMA ClientTypeNext ==
    ASSUME ClientTypeOK, NEW c \in Conn, Bounds(c),
           ClientNext(c) \/ NetworkNext(c) \/ ServerNext(c)
    PROVE  ClientTypeOK'
<1>1. CASE ClientNext(c)
  BY <1>1, ConnectType, WaitType, SkipType, CheckType, SendType, ReadType, StdinType
     DEF ClientNext, LoopNext
<1> QED  BY <1>1, OutsideType

LEMMA ClientTypeStep ==
    ClientTypeOK /\ (\A c \in Conn : Bounds(c)) /\ [Next]_vars => ClientTypeOK'
<1> SUFFICES ASSUME ClientTypeOK, \A c \in Conn : Bounds(c), [Next]_vars
             PROVE  ClientTypeOK'
  OBVIOUS
<1>1. CASE UNCHANGED vars
  BY <1>1 DEF vars, sockVars, clientVars, ClientTypeOK, SocketsTypeOK
<1> QED  BY <1>1, ClientTypeNext DEF Next

-----------------------------------------------------------------------------
(* The kinds of steps.  What a step means for the conversation of c is      *)
(* stated once, whatever handler takes it.                                  *)

(* Nothing is sent to or read by the server; nothing is sent to or read by  *)
(* the client; the client's output stays as it is.                          *)
UpSame(c)   == arrived'[c] = arrived[c] /\ sent'[c] = sent[c]
DownSame(c) == wire'[c] = wire[c] /\ taken'[c] = taken[c]
OutSame(c)  == /\ client'[c].out_buffer = client[c].out_buffer
               /\ client'[c].bytes_written = client[c].bytes_written

(* c stays in the loop: only a start or the loop lead into it.              *)
RunsOn(c) == Running(c) /\ client'[c].pc \notin {"start", "exited"}

Idles(c) ==
    /\ UpSame(c) /\ DownSame(c) /\ OutSame(c)
    /\ client'[c].pc = "start" <=> client[c].pc = "start"
    /\ client'[c].pc = "exited" <=> client[c].pc = "exited"
    /\ client'[c].state = client[c].state
    /\ client'[c].quitting = client[c].quitting
    /\ client'[c].interest = client[c].interest
    /\ client'[c].shown = client[c].shown

Connects(c) ==
    /\ UpSame(c) /\ DownSame(c) /\ OutSame(c)
    /\ client[c].pc = "start" /\ client'[c].pc \notin {"start", "exited"}
    /\ client'[c].state = "CONNECTING"
    /\ client'[c].quitting = client[c].quitting
    /\ client'[c].shown = client[c].shown

Introduces(c) ==
    /\ UpSame(c) /\ DownSame(c)
    /\ client[c].pc = "start" \/ (Running(c) /\ client[c].state = "CONNECTING")
    /\ client'[c].pc \notin {"start", "exited"}
    /\ client'[c].state = "SENDING_CLIENT_HELLO"
    /\ protocol_payload_length_is_legal(client[c].name)
    /\ client'[c].out_buffer = Append(client[c].out_buffer, Hello(c))
    /\ client'[c].bytes_written = client[c].bytes_written
    /\ client'[c].quitting = client[c].quitting
    /\ client'[c].interest = WriteOnly
    /\ client'[c].shown = client[c].shown

(* k frames leave the output buffer for the server, if it is still there.   *)
Passes(c, k) ==
    /\ sent'[c] = sent[c] + k
    /\ \/ /\ Linked(c)
          /\ arrived'[c] = arrived[c] \o
               SubSeq(client[c].out_buffer, client[c].bytes_written + 1,
                      client[c].bytes_written + k)
       \/ ~Linked(c) /\ arrived'[c] = arrived[c]

Writes(c) ==
    /\ RunsOn(c) /\ DownSame(c)
    /\ \E k \in 0 .. Pending(c) - 1 :
         /\ Passes(c, k)
         /\ client'[c].bytes_written = client[c].bytes_written + k
    /\ client'[c].out_buffer = client[c].out_buffer
    /\ client'[c].state = client[c].state
    /\ client'[c].quitting = client[c].quitting
    /\ client'[c].interest = client[c].interest
    /\ client'[c].shown = client[c].shown

Flushes(c) ==
    /\ RunsOn(c) /\ DownSame(c)
    /\ ~client[c].quitting /\ client[c].state \in {"SENDING_CLIENT_HELLO", "ACTIVE"}
    /\ Passes(c, Pending(c))
    /\ client'[c].out_buffer = <<>> /\ client'[c].bytes_written = 0
    /\ client'[c].state = Greeted(client[c].state)
    /\ client'[c].quitting = client[c].quitting
    /\ client'[c].interest = ReadOnly
    /\ client'[c].shown = client[c].shown

Leaves(c) ==
    /\ client'[c].pc = "exited" /\ DownSame(c)
    /\ \/ UpSame(c) /\ OutSame(c)
       \/ /\ Passes(c, Pending(c))
          /\ client'[c].out_buffer = <<>> /\ client'[c].bytes_written = 0
    /\ client'[c].shown = client[c].shown

(* k frames are read, and the first j of them handled.                      *)
Handles(c, k, j) ==
    /\ Running(c) /\ client[c].state \in {"WAITING_FOR_SERVER_HELLO", "ACTIVE"}
    /\ UpSame(c) /\ OutSame(c)
    /\ wire'[c] = wire[c] /\ taken'[c] = taken[c] + k
    /\ client'[c].shown = Prints(c, Input(c, j))
    /\ client[c].state = "WAITING_FOR_SERVER_HELLO" /\ j > 0 =>
         Input(c, j)[1].type = "SERVER_HELLO"

Listens(c) ==
    \E k \in 0 .. Unread(c) :
        /\ RunsOn(c) /\ Handles(c, k, k)
        /\ client'[c].state = IF k > 0 THEN "ACTIVE" ELSE client[c].state
        /\ client'[c].quitting = client[c].quitting
        /\ client'[c].interest = client[c].interest

ListensLast(c) ==
    \E k \in 0 .. Unread(c) : \E j \in 0 .. k :
        client'[c].pc = "exited" /\ Handles(c, k, j)

Speaks(c) ==
    /\ RunsOn(c) /\ UpSame(c) /\ DownSame(c)
    /\ client[c].state = "ACTIVE" /\ ~client[c].quitting
    /\ \E size \in Nat :
         /\ protocol_payload_length_is_legal(size)
         /\ client'[c].out_buffer = Append(client[c].out_buffer, Chat(c, size))
         /\ client'[c].shown = Append(client[c].shown, Chat(c, size).says)
    /\ client'[c].bytes_written = client[c].bytes_written
    /\ client'[c].state = client[c].state
    /\ client'[c].quitting = client[c].quitting
    /\ client'[c].interest = ReadWrite

Resigns(c) ==
    /\ RunsOn(c) /\ UpSame(c) /\ DownSame(c)
    /\ client[c].state # "CONNECTING" /\ ~client[c].quitting
    /\ client'[c].out_buffer = Append(client[c].out_buffer, Goodbye(c))
    /\ client'[c].bytes_written = client[c].bytes_written
    /\ client'[c].state = client[c].state
    /\ client'[c].quitting
    /\ client'[c].interest = WriteOnly
    /\ client'[c].shown = client[c].shown

(* The server's part.                                                       *)
IsTold(c) ==
    /\ client'[c] = client[c] /\ UpSame(c) /\ taken'[c] = taken[c]
    /\ \E s \in Seq(Msg) : /\ \A i \in 1 .. Len(s) : s[i].says \notin ChatLines(c)
                           /\ wire'[c] = wire[c] \o s

IsHeard(c) ==
    /\ client'[c] = client[c] /\ DownSame(c) /\ sent'[c] = sent[c]
    /\ \E k \in 0 .. Len(arrived[c]) :
         arrived'[c] = SubSeq(arrived[c], k + 1, Len(arrived[c]))

IsDropped(c) ==
    /\ client'[c] = client[c] /\ DownSame(c) /\ sent'[c] = sent[c]
    /\ arrived'[c] = <<>>

(* The others are left alone, and only the server closes a connection.      *)
Alone(c) ==
    \A d \in Conn \ {c} :
        /\ client'[d] = client[d] /\ UpSame(d) /\ DownSame(d)
        /\ tcp'[d] = tcp[d]

ProgramKind(c) ==
    \/ Idles(c) \/ Connects(c) \/ Introduces(c) \/ Writes(c) \/ Flushes(c) \/ Leaves(c)
    \/ Listens(c) \/ ListensLast(c) \/ Speaks(c) \/ Resigns(c)

ProgramStep(c) == Alone(c) /\ ProgramKind(c) /\ (Linked(c) => Linked(c)')

ClientKind(c) == ProgramKind(c) \/ IsTold(c) \/ IsHeard(c)


ClientStep(c) ==
    /\ Alone(c)
    /\ \/ ClientKind(c) /\ (Linked(c) => Linked(c)')
       \/ IsDropped(c)

-----------------------------------------------------------------------------
(* Every step is of one of these kinds.                                     *)
LEMMA LeaveIs ==
    ASSUME ClientTypeOK, NEW c \in Conn, NEW st, Leave(c, st)
    PROVE  /\ client'[c].pc = "exited" /\ OutSame(c)
           /\ client'[c].shown = client[c].shown
           /\ \A d \in Conn \ {c} : client'[d] = client[d]
  BY DEF Leave, OutSame, ClientTypeOK, Program

LEMMA QueueHelloIs ==
    ASSUME ClientTypeOK, NEW c \in Conn, NEW batch, QueueHello(c, batch)
    PROVE  /\ client'[c].pc \notin {"start", "exited"}
           /\ client'[c].state = "SENDING_CLIENT_HELLO"
           /\ client'[c].out_buffer = Append(client[c].out_buffer, Hello(c))
           /\ client'[c].bytes_written = client[c].bytes_written
           /\ client'[c].quitting = client[c].quitting
           /\ client'[c].interest = WriteOnly
           /\ client'[c].shown = client[c].shown
           /\ \A d \in Conn \ {c} : client'[d] = client[d]
<1>1. client[c] \in Program /\ client \in [Conn -> Program]  BY DEF ClientTypeOK
<1>2. PICK q \in {"wait", "dispatch"} :
        client'[c] = [client[c] EXCEPT !.pc = q, !.batch = batch,
                                       !.state = "SENDING_CLIENT_HELLO",
                                       !.out_buffer = Append(@, Hello(c)),
                                       !.interest = WriteOnly]
  BY <1>1 DEF QueueHello
<1>3. \A d \in Conn \ {c} : client'[d] = client[d]
  BY <1>1 DEF QueueHello
<1>4. q \notin {"start", "exited"}  OBVIOUS
<1> QED  BY <1>1, <1>2, <1>3, <1>4 DEF Program

LEMMA ConnectKind ==
    ASSUME ClientTypeOK, NEW c \in Conn, ConnectNext(c)
    PROVE  ProgramStep(c)
<1> USE DEF UpSame, DownSame, ProgramStep, Alone, ProgramKind, Linked, sockVars
<1>1. CASE ConnectLater(c)
  <2>1. Connects(c)
    BY <1>1 DEF ConnectLater, Starting, Connects, OutSame, ClientTypeOK, Program
  <2> QED  BY <1>1, <2>1 DEF ConnectLater, ClientTypeOK
<1>2. CASE ConnectNow(c)
  <2>0. tcp[c] = "none"  BY <1>2 DEF ConnectNow
  <2>1. CASE protocol_payload_length_is_legal(client[c].name)
    <3>1. QueueHello(c, {})  BY <1>2, <2>1 DEF ConnectNow
    <3>2. Introduces(c)
      BY <1>2, <2>1, <3>1, QueueHelloIs DEF ConnectNow, Starting, Introduces
    <3> QED  BY <1>2, <2>0, <3>1, <3>2, QueueHelloIs DEF ConnectNow, ClientTypeOK, SocketsTypeOK
  <2>2. CASE ~protocol_payload_length_is_legal(client[c].name)
    <3>1. Leave(c, "CONNECTION_ERROR")  BY <1>2, <2>2 DEF ConnectNow
    <3>2. Leaves(c)  BY <1>2, <3>1, LeaveIs DEF ConnectNow, Leaves
    <3> QED  BY <1>2, <2>0, <3>1, <3>2, LeaveIs DEF ConnectNow, ClientTypeOK, SocketsTypeOK
  <2> QED  BY <2>1, <2>2
<1>3. CASE ConnectFails(c)
  <2>1. Leaves(c)  BY <1>3, LeaveIs DEF ConnectFails, Leaves
  <2> QED  BY <1>3, <2>1, LeaveIs DEF ConnectFails
<1> QED  BY <1>1, <1>2, <1>3 DEF ConnectNext

LEMMA WaitKind ==
    ASSUME ClientTypeOK, NEW c \in Conn, NEW e, WaitForEvents(c) \/ SkipEvent(c, e)
    PROVE  ProgramStep(c)
<1>1. /\ \A d \in Conn \ {c} : client'[d] = client[d]
      /\ client[c].pc \in {"wait", "dispatch"} /\ client'[c].pc \in {"wait", "dispatch"}
      /\ client'[c].state = client[c].state /\ client'[c].quitting = client[c].quitting
      /\ client'[c].interest = client[c].interest /\ client'[c].shown = client[c].shown
      /\ OutSame(c)
  <2>1. CASE WaitForEvents(c)
    <3>1. PICK ready : client' = [client EXCEPT ![c].pc = "dispatch", ![c].batch = ready]
      BY <2>1 DEF WaitForEvents
    <3>2. client'[c] = [client[c] EXCEPT !.pc = "dispatch", !.batch = ready]
      BY <3>1 DEF ClientTypeOK
    <3>3. \A d \in Conn \ {c} : client'[d] = client[d]  BY <3>1 DEF ClientTypeOK
    <3> QED  BY <2>1, <3>2, <3>3, ClientTypes DEF WaitForEvents, OutSame, Program
  <2>2. CASE SkipEvent(c, e)
    <3>1. client'[c] = [client[c] EXCEPT !.pc = After(c, e), !.batch = Rest(c, e)]
      BY <2>2 DEF SkipEvent, ClientTypeOK
    <3>2. \A d \in Conn \ {c} : client'[d] = client[d]
      BY <2>2 DEF SkipEvent, ClientTypeOK
    <3>3. After(c, e) \in {"wait", "dispatch"}  BY DEF After
    <3>4. client[c].pc = "dispatch"  BY <2>2 DEF SkipEvent, Dispatched
    <3>5. client[c] \in Program  BY ClientTypes
    <3>6. /\ client'[c].pc = After(c, e) /\ OutSame(c)
          /\ client'[c].state = client[c].state /\ client'[c].quitting = client[c].quitting
          /\ client'[c].interest = client[c].interest /\ client'[c].shown = client[c].shown
      BY <3>1, <3>5 DEF OutSame, Program
    <3> QED  BY <3>2, <3>3, <3>4, <3>6
  <2> QED  BY <2>1, <2>2
<1>2. UNCHANGED sockVars  BY DEF WaitForEvents, SkipEvent
<1> QED
  BY <1>1, <1>2 DEF ProgramStep, ProgramKind, Alone, Idles, UpSame, DownSame, Linked, sockVars

LEMMA CheckKind ==
    ASSUME ClientTypeOK, NEW c \in Conn, NEW e,
           ConnectionRefused(c, e) \/ ConnectionMade(c, e)
    PROVE  ProgramStep(c)
<1> USE DEF UpSame, DownSame, ProgramStep, Alone, ProgramKind, Linked
<1>1. CASE ConnectionRefused(c, e)
  <2>1. Leave(c, "CONNECTION_ERROR")  BY <1>1 DEF ConnectionRefused
  <2>2. Leaves(c)  BY <1>1, <2>1, LeaveIs DEF ConnectionRefused, CheckConnection, Leaves
  <2> QED  BY <1>1, <2>1, <2>2, LeaveIs DEF ConnectionRefused, CheckConnection
<1>2. CASE ConnectionMade(c, e)
  <2>1. QueueHello(c, Rest(c, e))  BY <1>2 DEF ConnectionMade
  <2>2. Running(c) /\ client[c].state = "CONNECTING"
    BY <1>2 DEF ConnectionMade, CheckConnection, Dispatched,
                event_is_check_connection_success, Running
  <2>3. Introduces(c)
    BY <1>2, <2>1, <2>2, QueueHelloIs DEF ConnectionMade, CheckConnection, Introduces
  <2> QED  BY <1>2, <2>1, <2>3, QueueHelloIs DEF ConnectionMade, CheckConnection
<1> QED  BY <1>1, <1>2

LEMMA SendsIs ==
    ASSUME ClientTypeOK, NEW c \in Conn, NEW k, Sends(c, k)
    PROVE  /\ Passes(c, k)
           /\ \A d \in Conn \ {c} : UpSame(d)
  BY DEF Sends, Passes, UpSame, ClientTypeOK, SocketsTypeOK

LEMMA SendKind ==
    ASSUME ClientTypeOK, NEW c \in Conn, NEW e, SendNext(c, e)
    PROVE  ProgramStep(c)
<1>0. client[c] \in Program /\ client \in [Conn -> Program]
  BY ClientTypes DEF ClientTypeOK
<1>1. ASSUME SendEvent(c, e)
      PROVE  /\ UNCHANGED tcp /\ Running(c)
             /\ \A d \in Conn : DownSame(d)
             /\ client[c].quitting \/ client[c].state \in {"SENDING_CLIENT_HELLO", "ACTIVE"}
  BY <1>1 DEF SendEvent, Dispatched, event_is_send_network_message, Running, DownSame
<1>2. ASSUME \A d \in Conn \ {c} : client'[d] = client[d], SendEvent(c, e),
             \A d \in Conn \ {c} : UpSame(d), Writes(c) \/ Flushes(c) \/ Leaves(c)
      PROVE  ProgramStep(c)
  BY <1>1, <1>2 DEF ProgramStep, ProgramKind, Alone, Linked
<1>3. CASE SendFails(c, e)
  <2>1. Leave(c, "CONNECTION_ERROR") /\ SendEvent(c, e) /\ UNCHANGED <<arrived, sent>>
    BY <1>3 DEF SendFails
  <2>2. Leaves(c)  BY <1>1, <2>1, LeaveIs DEF Leaves, UpSame
  <2> QED  BY <1>2, <2>1, <2>2, LeaveIs DEF UpSame
<1>4. CASE SendPartial(c, e)
  <2>1. PICK k \in 0 .. Pending(c) - 1 :
          /\ Sends(c, k)
          /\ client' = [client EXCEPT
               ![c] = [Written(@, k) EXCEPT !.pc = After(c, e), !.batch = Rest(c, e)]]
    BY <1>4 DEF SendPartial
  <2>3. client'[c] = [client[c] EXCEPT !.bytes_written = @ + k,
                                       !.pc = After(c, e), !.batch = Rest(c, e)]
    BY <1>0, <2>1 DEF Written
  <2>4. \A d \in Conn \ {c} : client'[d] = client[d]  BY <1>0, <2>1
  <2>5. After(c, e) \in {"wait", "dispatch"}  BY DEF After
  <2>6. /\ client'[c].pc = After(c, e)
        /\ client'[c].bytes_written = client[c].bytes_written + k
        /\ client'[c].out_buffer = client[c].out_buffer
        /\ client'[c].state = client[c].state /\ client'[c].quitting = client[c].quitting
        /\ client'[c].interest = client[c].interest /\ client'[c].shown = client[c].shown
    BY <1>0, <2>3 DEF Program
  <2>7. SendEvent(c, e)  BY <1>4 DEF SendPartial
  <2>8. Writes(c)
    BY <1>1, <2>1, <2>5, <2>6, <2>7, SendsIs DEF Writes, RunsOn
  <2> QED  BY <1>2, <2>1, <2>4, <2>7, <2>8, SendsIs
<1>5. CASE SendDone(c, e)
  <2>1. client'[c] = [Flushed(client[c]) EXCEPT !.pc = After(c, e), !.batch = Rest(c, e),
                                   !.interest = ReadOnly, !.state = Greeted(client[c].state)]
    BY <1>0, <1>5 DEF SendDone
  <2>2. \A d \in Conn \ {c} : client'[d] = client[d]  BY <1>0, <1>5 DEF SendDone
  <2>3. After(c, e) \in {"wait", "dispatch"}  BY DEF After
  <2>4. /\ client'[c].pc = After(c, e)
        /\ client'[c].out_buffer = <<>> /\ client'[c].bytes_written = 0
        /\ client'[c].state = Greeted(client[c].state)
        /\ client'[c].quitting = client[c].quitting
        /\ client'[c].interest = ReadOnly /\ client'[c].shown = client[c].shown
    BY <1>0, <2>1 DEF Program, Flushed
  <2>5. SendEvent(c, e) /\ Sends(c, Pending(c)) /\ ~client[c].quitting
    BY <1>5 DEF SendDone, SendAll
  <2>6. Flushes(c)
    BY <1>1, <2>3, <2>4, <2>5, SendsIs DEF Flushes, RunsOn
  <2> QED  BY <1>2, <2>2, <2>5, <2>6, SendsIs
<1>6. CASE SendGoodbye(c, e)
  <2>1. client'[c] = [Flushed(client[c]) EXCEPT !.pc = "exited", !.batch = {}]
    BY <1>0, <1>6 DEF SendGoodbye
  <2>2. \A d \in Conn \ {c} : client'[d] = client[d]  BY <1>0, <1>6 DEF SendGoodbye
  <2>3. /\ client'[c].pc = "exited"
        /\ client'[c].out_buffer = <<>> /\ client'[c].bytes_written = 0
        /\ client'[c].shown = client[c].shown
    BY <1>0, <2>1 DEF Program, Flushed
  <2>4. SendEvent(c, e) /\ Sends(c, Pending(c))
    BY <1>6 DEF SendGoodbye, SendAll
  <2>5. Leaves(c)
    BY <1>1, <2>3, <2>4, SendsIs DEF Leaves
  <2> QED  BY <1>2, <2>2, <2>4, <2>5, SendsIs
<1> QED  BY <1>3, <1>4, <1>5, <1>6 DEF SendNext

LEMMA PrintsNothing ==
    ASSUME ClientTypeOK, NEW c \in Conn, Bounds(c)
    PROVE  Prints(c, Input(c, 0)) = client[c].shown
<1>1. 0 \in 0 .. Unread(c)  BY ClientTypes DEF Unread, Bounds
<1>2. Input(c, 0) \in Seq(Msg) /\ Len(Input(c, 0)) = 0  BY <1>1, InputShape
<1>3. Input(c, 0) = <<>>  BY <1>2, EmptySeq
<1>4. Says(Only(Input(c, 0), Broadcasts)) = <<>>
  <2>1. Only(Input(c, 0), Broadcasts) = <<>>  BY <1>3, OnlyEmpty
  <2>2. <<>> \in Seq(Msg)  BY EmptySeq
  <2>3. Says(<<>>) \in Seq(Utterance(Speaker)) /\ Len(Says(<<>>)) = Len(<<>>)
    BY <2>2, MsgSays, SaysType
  <2> QED  BY <2>1, <2>3, EmptySeq
<1>5. client[c].shown \in Seq(Utterance(Speaker))  BY ClientTypes, ProgramFields
<1> QED  BY <1>4, <1>5, ConcatEmptySeq DEF Prints

LEMMA ReadKind ==
    ASSUME ClientTypeOK, NEW c \in Conn, Bounds(c), NEW e, ReadNext(c, e)
    PROVE  ProgramStep(c)
<1>0. /\ client[c] \in Program /\ client \in [Conn -> Program]
      /\ taken \in [Conn -> Nat] /\ taken[c] \in Nat
  BY ClientTypes DEF ClientTypeOK, SocketsTypeOK
<1>1. ASSUME ReadEvent(c, e)
      PROVE  /\ UNCHANGED <<tcp, wire>> /\ Running(c)
             /\ \A d \in Conn : UpSame(d)
             /\ client[c].state \in {"WAITING_FOR_SERVER_HELLO", "ACTIVE"}
  BY <1>1 DEF ReadEvent, Dispatched, event_is_read_network_message, Running, UpSame
<1>2. ASSUME \A d \in Conn \ {c} : client'[d] = client[d] /\ taken'[d] = taken[d],
             ReadEvent(c, e), Leaves(c) \/ Listens(c) \/ ListensLast(c)
      PROVE  ProgramStep(c)
  BY <1>1, <1>2 DEF ProgramStep, ProgramKind, Alone, Linked, DownSame
<1>3. CASE ReadFails(c, e)
  <2>1. Leave(c, "CONNECTION_ERROR") /\ ReadEvent(c, e) /\ UNCHANGED taken
    BY <1>3 DEF ReadFails
  <2>2. Leaves(c)  BY <1>1, <2>1, LeaveIs DEF Leaves, DownSame
  <2> QED  BY <1>2, <2>1, <2>2, LeaveIs
<1>4. ASSUME NEW k \in ReadSizes(c), Reads(c, k)
      PROVE  /\ taken'[c] = taken[c] + k
             /\ \A d \in Conn \ {c} : taken'[d] = taken[d]
  BY <1>0, <1>4 DEF Reads
<1>5. CASE ReadFrames(c, e)
  <2>1. PICK k \in ReadSizes(c) :
          /\ Stops(c, k) = {} /\ Reads(c, k)
          /\ client' = [client EXCEPT
              ![c].pc = After(c, e), ![c].batch = Rest(c, e),
              ![c].state = IF k > 0 THEN "ACTIVE" ELSE @,
              ![c].shown = Prints(c, Input(c, k))]
    BY <1>5 DEF ReadFrames
  <2>2. \A d \in Conn \ {c} : client'[d] = client[d]  BY <1>0, <2>1
  <2>3. After(c, e) \in {"wait", "dispatch"}  BY DEF After
  <2>4. /\ client'[c].pc = After(c, e) /\ OutSame(c)
        /\ client'[c].state = IF k > 0 THEN "ACTIVE" ELSE client[c].state
        /\ client'[c].shown = Prints(c, Input(c, k))
        /\ client'[c].quitting = client[c].quitting
        /\ client'[c].interest = client[c].interest
    BY <1>0, <2>1 DEF Program, OutSame
  <2>5. k \in 0 .. Unread(c) /\ k \in Nat  BY Unreads
  <2>6. client[c].state = "WAITING_FOR_SERVER_HELLO" /\ k > 0 =>
           Input(c, k)[1].type = "SERVER_HELLO"
    BY <2>1, <2>5 DEF Stops, Expected
  <2>7. ReadEvent(c, e)  BY <1>5 DEF ReadFrames
  <2>8. Handles(c, k, k)
    BY <1>1, <1>4, <2>1, <2>4, <2>6, <2>7 DEF Handles
  <2>9. Listens(c)
    BY <1>1, <2>3, <2>4, <2>5, <2>7, <2>8 DEF Listens, RunsOn
  <2> QED  BY <1>2, <1>4, <2>1, <2>2, <2>7, <2>9
<1>6. CASE ReadEnds(c, e)
  <2>0. ReadEvent(c, e)  BY <1>6 DEF ReadEnds
  <2>1. PICK k \in ReadSizes(c) :
          /\ Reads(c, k)
          /\ \/ Leave(c, "CLOSED")
             \/ \E i \in Stops(c, k), st \in {"CLOSED", "CONNECTION_ERROR"} :
                  /\ \A j \in Stops(c, k) : i <= j
                  /\ client' = [client EXCEPT
                      ![c].pc = "exited", ![c].batch = {}, ![c].state = st,
                      ![c].shown = Prints(c, Input(c, i - 1))]
    BY <1>6 DEF ReadEnds
  <2>2. k \in 0 .. Unread(c) /\ k \in Nat  BY Unreads
  <2>3. CASE Leave(c, "CLOSED")
    <3>1. Handles(c, k, 0)
      BY <1>1, <1>4, <2>0, <2>1, <2>3, LeaveIs, PrintsNothing DEF Handles
    <3>2. 0 \in 0 .. k  BY <2>2
    <3>3. ListensLast(c)  BY <2>2, <2>3, <3>1, <3>2, LeaveIs DEF ListensLast
    <3> QED  BY <1>2, <1>4, <2>0, <2>1, <2>3, <3>3, LeaveIs
  <2>4. ASSUME NEW i \in Stops(c, k), NEW st \in {"CLOSED", "CONNECTION_ERROR"},
               \A j \in Stops(c, k) : i <= j,
               client' = [client EXCEPT
                      ![c].pc = "exited", ![c].batch = {}, ![c].state = st,
                      ![c].shown = Prints(c, Input(c, i - 1))]
        PROVE  ProgramStep(c)
    <3>1. \A d \in Conn \ {c} : client'[d] = client[d]  BY <1>0, <2>4
    <3>2. /\ client'[c].pc = "exited" /\ OutSame(c)
          /\ client'[c].shown = Prints(c, Input(c, i - 1))
      BY <1>0, <2>4 DEF Program, OutSame
    <3>3. i \in 1 .. k /\ i - 1 \in 0 .. k /\ i - 1 \in 0 .. Unread(c)
      <4>1. i \in 1 .. k  BY DEF Stops
      <4>2. Unread(c) \in Int  BY ClientTypes DEF Unread
      <4> QED  BY <2>2, <4>1, <4>2
    <3>4. client[c].state = "WAITING_FOR_SERVER_HELLO" /\ i - 1 > 0 =>
             Input(c, i - 1)[1].type = "SERVER_HELLO"
      <4>1. SUFFICES ASSUME client[c].state = "WAITING_FOR_SERVER_HELLO", i - 1 > 0
                     PROVE  Input(c, i - 1)[1].type = "SERVER_HELLO"
        OBVIOUS
      <4>2. 1 \in 1 .. k /\ 1 \in 1 .. i - 1 /\ ~(i <= 1)  BY <2>2, <3>3, <4>1
      <4>3. 1 \notin Stops(c, k)  BY <2>4, <4>2
      <4>4. Input(c, k)[1].type = "SERVER_HELLO"  BY <4>1, <4>2, <4>3 DEF Stops, Expected
      <4>5. Input(c, k)[1] = wire[c][taken[c] + 1]  BY <2>2, <4>2, InputShape
      <4>6. Input(c, i - 1)[1] = wire[c][taken[c] + 1]  BY <3>3, <4>2, InputShape
      <4> QED  BY <4>4, <4>5, <4>6
    <3>5. Handles(c, k, i - 1)
      BY <1>1, <1>4, <2>0, <2>1, <3>2, <3>4 DEF Handles
    <3>6. ListensLast(c)  BY <2>2, <3>2, <3>3, <3>5 DEF ListensLast
    <3> QED  BY <1>2, <1>4, <2>0, <2>1, <3>1, <3>6
  <2> QED  BY <2>1, <2>3, <2>4
<1> QED  BY <1>3, <1>5, <1>6 DEF ReadNext

LEMMA TypedIs ==
    ASSUME ClientTypeOK, NEW c \in Conn, NEW e, NEW events
    PROVE  LET ty == Typed(c, e, events)
           IN  /\ ty[c].pc \in {"wait", "dispatch"}
               /\ ty[c].state = client[c].state /\ ty[c].quitting = client[c].quitting
               /\ ty[c].out_buffer = client[c].out_buffer
               /\ ty[c].bytes_written = client[c].bytes_written
               /\ ty[c].interest = events /\ ty[c].shown = client[c].shown
               /\ \A d \in Conn \ {c} : ty[d] = client[d]
<1>0. client[c] \in Program /\ client \in [Conn -> Program]
  BY ClientTypes DEF ClientTypeOK
<1>1. After(c, e) \in {"wait", "dispatch"}  BY DEF After
<1>2. Typed(c, e, events)[c] =
        [client[c] EXCEPT !.pc = After(c, e), !.batch = Rest(c, e),
                          !.typed = @ + 1, !.interest = events]
  BY <1>0 DEF Typed
<1>3. \A d \in Conn \ {c} : Typed(c, e, events)[d] = client[d]
  BY <1>0 DEF Typed
<1> QED  BY <1>0, <1>1, <1>2, <1>3 DEF Program

LEMMA StdinKind ==
    ASSUME ClientTypeOK, NEW c \in Conn, NEW e, StdinNext(c, e)
    PROVE  ProgramStep(c)
<1>0. client[c] \in Program /\ client \in [Conn -> Program]
      /\ client[c].interest \in SUBSET EpollFlag
  BY ClientTypes, ProgramFields DEF ClientTypeOK
<1>1. StdinEvent(c, e)
  BY DEF StdinNext, StdinLeaves, StdinIgnored, StdinChat, StdinQuit
<1>2. /\ UNCHANGED tcp /\ Running(c) /\ ~client[c].quitting
      /\ \A d \in Conn : UpSame(d) /\ DownSame(d)
  BY <1>1 DEF StdinEvent, Dispatched, event_is_read_stdin, Running, UpSame, DownSame
<1>3. ASSUME \A d \in Conn \ {c} : client'[d] = client[d],
             Leaves(c) \/ Idles(c) \/ Speaks(c) \/ Resigns(c)
      PROVE  ProgramStep(c)
  BY <1>2, <1>3 DEF ProgramStep, ProgramKind, Alone, Linked
<1>4. CASE StdinLeaves(c, e)
  <2>1. Leave(c, client[c].state)  BY <1>4 DEF StdinLeaves
  <2>2. Leaves(c)  BY <1>2, <2>1, LeaveIs DEF Leaves
  <2> QED  BY <1>3, <2>1, <2>2, LeaveIs
<1>5. CASE StdinIgnored(c, e)
  <2>1. client' = Typed(c, e, client[c].interest)  BY <1>5 DEF StdinIgnored
  <2>2. Idles(c)  BY <1>2, <2>1, TypedIs DEF Idles, OutSame, Running
  <2> QED  BY <1>3, <2>1, <2>2, TypedIs
<1>6. CASE StdinChat(c, e)
  <2>1. PICK size \in TypedSizes :
          /\ protocol_payload_length_is_legal(size)
          /\ client' = [Typed(c, e, ReadWrite) EXCEPT
                          ![c].out_buffer = Append(@, Chat(c, size)),
                          ![c].shown = Append(@, Chat(c, size).says)]
    BY <1>6 DEF StdinChat
  <2>2. size \in Nat  BY ClientAssumption
  <2>3. PICK ty : ty = Typed(c, e, ReadWrite)  OBVIOUS
  <2>4. ty \in [Conn -> Program]  BY <2>3, TypedType, Watching
  <2>5. /\ client'[c] = [ty[c] EXCEPT !.out_buffer = Append(@, Chat(c, size)),
                                      !.shown = Append(@, Chat(c, size).says)]
        /\ \A d \in Conn \ {c} : client'[d] = ty[d]
    BY <2>1, <2>3, <2>4
  <2>6. /\ client'[c].out_buffer = Append(ty[c].out_buffer, Chat(c, size))
        /\ client'[c].shown = Append(ty[c].shown, Chat(c, size).says)
        /\ client'[c].pc = ty[c].pc /\ client'[c].state = ty[c].state
        /\ client'[c].quitting = ty[c].quitting
        /\ client'[c].bytes_written = ty[c].bytes_written
        /\ client'[c].interest = ty[c].interest
    BY <2>4, <2>5 DEF Program
  <2>7. /\ ty[c].pc \in {"wait", "dispatch"}
        /\ ty[c].state = client[c].state /\ ty[c].quitting = client[c].quitting
        /\ ty[c].out_buffer = client[c].out_buffer
        /\ ty[c].bytes_written = client[c].bytes_written
        /\ ty[c].interest = ReadWrite /\ ty[c].shown = client[c].shown
        /\ \A d \in Conn \ {c} : ty[d] = client[d]
    BY <2>3, TypedIs
  <2>8. client[c].state = "ACTIVE"  BY <1>6 DEF StdinChat
  <2>9. Speaks(c)  BY <1>2, <2>1, <2>2, <2>6, <2>7, <2>8 DEF Speaks, RunsOn
  <2> QED  BY <1>3, <2>5, <2>7, <2>9
<1>7. CASE StdinQuit(c, e)
  <2>3. PICK ty : ty = Typed(c, e, WriteOnly)  OBVIOUS
  <2>4. ty \in [Conn -> Program]  BY <2>3, TypedType, Watching
  <2>5. /\ client'[c] = [ty[c] EXCEPT !.out_buffer = Append(@, Goodbye(c)),
                                      !.quitting = TRUE]
        /\ \A d \in Conn \ {c} : client'[d] = ty[d]
    BY <1>7, <2>3, <2>4 DEF StdinQuit
  <2>6. /\ client'[c].out_buffer = Append(ty[c].out_buffer, Goodbye(c))
        /\ client'[c].shown = ty[c].shown
        /\ client'[c].pc = ty[c].pc /\ client'[c].state = ty[c].state
        /\ client'[c].quitting = TRUE
        /\ client'[c].bytes_written = ty[c].bytes_written
        /\ client'[c].interest = ty[c].interest
    BY <2>4, <2>5 DEF Program
  <2>7. /\ ty[c].pc \in {"wait", "dispatch"}
        /\ ty[c].state = client[c].state
        /\ ty[c].out_buffer = client[c].out_buffer
        /\ ty[c].bytes_written = client[c].bytes_written
        /\ ty[c].interest = WriteOnly /\ ty[c].shown = client[c].shown
        /\ \A d \in Conn \ {c} : ty[d] = client[d]
    BY <2>3, TypedIs
  <2>8. client[c].state # "CONNECTING"  BY <1>7 DEF StdinQuit
  <2>9. Resigns(c)  BY <1>2, <2>6, <2>7, <2>8 DEF Resigns, RunsOn
  <2> QED  BY <1>3, <2>5, <2>7, <2>9
<1> QED  BY <1>4, <1>5, <1>6, <1>7 DEF StdinNext

LEMMA OutsideKind ==
    ASSUME ClientTypeOK, NEW c \in Conn, NetworkNext(c) \/ ServerNext(c)
    PROVE  ClientStep(c)
<1> USE DEF ClientStep, ClientKind, ProgramKind, Alone, UpSame, DownSame, OutSame, Linked,
            ClientTypeOK, SocketsTypeOK
<1>1. CASE Established(c)
  BY <1>1 DEF Established, RemoteConnect, Idles, clientVars
<1>2. CASE Refused(c)  BY <1>2 DEF Refused, Idles, sockVars
<1>3. CASE AnsweredByReset(c)  BY <1>3 DEF AnsweredByReset, Idles, clientVars
<1>4. CASE ServerSends(c)
  <2>1. PICK f \in Replies :
          wire' = [wire EXCEPT ![c] = Append(@,
            [type |-> f.type, size |-> f.size,
             says |-> [who |-> Host, what |-> TopicOf(f.type), n |-> Len(@) + 1]])]
    BY <1>4 DEF ServerSends
  <2> DEFINE m == [type |-> f.type, size |-> f.size,
                   says |-> [who |-> Host, what |-> TopicOf(f.type), n |-> Len(wire[c]) + 1]]
  <2>2. Len(wire[c]) \in Nat  BY LenProperties
  <2>3. f.type \in MessageType /\ f.size \in Nat  BY ClientAssumption
  <2>4. TopicOf(f.type) \in Topic  BY DEF TopicOf, Topic
  <2>5. m \in Msg /\ m.says.who = Host
    BY <2>2, <2>3, <2>4 DEF Msg, Message, Utterance, Speaker
  <2>6. wire'[c] = Append(wire[c], m)  BY <2>1
  <2>9. PICK s \in Seq(Msg) : /\ \A i \in 1 .. Len(s) : s[i].says \notin ChatLines(c)
                              /\ wire'[c] = wire[c] \o s
    <3>1. m.says \notin ChatLines(c)  BY <2>5, SocketsAssumption DEF ChatLines
    <3> HIDE DEF m
    <3>2. <<m>> \in Seq(Msg) /\ Len(<<m>>) = 1 /\ <<m>>[1] = m  BY <2>5
    <3>3. wire'[c] = wire[c] \o <<m>>  BY <2>5, <2>6, AppendIsConcat
    <3>4. \A i \in 1 .. Len(<<m>>) : <<m>>[i].says \notin ChatLines(c)
      BY <3>1, <3>2
    <3> QED  BY <3>2, <3>3, <3>4
  <2>7. \A d \in Conn \ {c} : wire'[d] = wire[d]  BY <2>1
  <2> HIDE DEF m
  <2>8. IsTold(c)  BY <1>4, <2>9 DEF ServerSends, IsTold, clientVars
  <2> QED  BY <1>4, <2>7, <2>8 DEF ServerSends, clientVars
<1>5. CASE ServerReads(c)
  <2>1. PICK a : a = arrived[c]  OBVIOUS
  <2>2. a \in Seq(Msg) /\ a # <<>>  BY <1>5, <2>1 DEF ServerReads
  <2>3. Len(a) \in Nat /\ Len(a) # 0  BY <2>2, LenProperties, EmptySeq
  <2>4. 1 \in 0 .. Len(a) /\ Tail(a) = SubSeq(a, 1 + 1, Len(a))
    BY <2>3 DEF Tail
  <2>5. IsHeard(c)  BY <1>5, <2>1, <2>4 DEF ServerReads, IsHeard, clientVars
  <2> QED  BY <1>5, <2>5 DEF ServerReads, clientVars
<1>6. CASE ServerCloses(c)  BY <1>6 DEF ServerCloses, CloseSockets, IsDropped
<1> QED  BY <1>1, <1>2, <1>3, <1>4, <1>5, <1>6 DEF NetworkNext, ServerNext

LEMMA ProgramSteps ==
    ASSUME ClientTypeOK, NEW c \in Conn, Bounds(c), ClientNext(c)
    PROVE  ProgramStep(c)
  BY ConnectKind, WaitKind, CheckKind, SendKind, ReadKind, StdinKind
     DEF ClientNext, LoopNext

LEMMA ClientKinds ==
    ASSUME ClientTypeOK, NEW c \in Conn, Bounds(c),
           ClientNext(c) \/ NetworkNext(c) \/ ServerNext(c)
    PROVE  ClientStep(c)
<1>1. CASE ClientNext(c)
  BY <1>1, ProgramSteps DEF ProgramStep, ClientStep, ClientKind
<1> QED  BY <1>1, OutsideKind

-----------------------------------------------------------------------------
(* The invariant.                                                           *)

(* The server never tells a client what the client's own user said.         *)
Foreign(c) == \A i \in 1 .. Len(wire[c]) : wire[c][i].says \notin ChatLines(c)

(* How far the conversation has come in each state.                         *)
Greets(c) == taken[c] > 0 /\ wire[c][1].type = "SERVER_HELLO"
Stage(c) ==
    /\ client[c].pc = "start" \/ (Running(c) /\ client[c].state = "CONNECTING") =>
         /\ ~client[c].quitting /\ client[c].out_buffer = <<>>
         /\ client[c].bytes_written = 0 /\ client[c].shown = <<>>
         /\ taken[c] = 0 /\ sent[c] = 0
    /\ Running(c) =>
         client[c].state \in {"CONNECTING", "SENDING_CLIENT_HELLO",
                              "WAITING_FOR_SERVER_HELLO", "ACTIVE"}
    /\ Running(c) /\ client[c].state \in {"SENDING_CLIENT_HELLO", "WAITING_FOR_SERVER_HELLO"} =>
         client[c].shown = <<>> /\ taken[c] = 0
    /\ Running(c) /\ client[c].state \in {"WAITING_FOR_SERVER_HELLO", "ACTIVE"} =>
         sent[c] > 0
    /\ Running(c) /\ client[c].state = "ACTIVE" => Greets(c)
    /\ client[c].shown # <<>> => sent[c] > 0 /\ Greets(c)

(* The frames in the buffer and those the server has still to read are the  *)
(* last ones of what was told, each at its place.                           *)
Accounts(c) ==
    Running(c) =>
        /\ sent[c] + Len(client[c].out_buffer) = client[c].bytes_written + Len(Told(c))
        /\ client[c].bytes_written <= sent[c]
        /\ \A i \in 1 .. Len(client[c].out_buffer) :
             client[c].out_buffer[i].says = Told(c)[sent[c] - client[c].bytes_written + i]
        /\ \A i \in 1 .. Len(arrived[c]) :
             arrived[c][i].says = Told(c)[sent[c] - Len(arrived[c]) + i]

Watches(c) ==
    Running(c) /\ client[c].state # "CONNECTING" =>
        (client[c].out_buffer # <<>> <=> "EPOLLOUT" \in client[c].interest)

Heard(c) ==
    IF client[c].pc # "exited" THEN Others(c) = ReadBroadcasts(c)
    ELSE IsPrefix(Others(c), ReadBroadcasts(c))

ClientInv ==
    /\ ClientTypeOK
    /\ \A c \in Conn :
         Bounds(c) /\ Foreign(c) /\ Stage(c) /\ Accounts(c) /\ Watches(c) /\ Heard(c)

-----------------------------------------------------------------------------
(* Bounds, and who speaks.                                                  *)
LEMMA PassesBounds ==
    ASSUME ClientTypeOK, NEW c \in Conn, Bounds(c), NEW k \in 0 .. Pending(c), Passes(c, k)
    PROVE  /\ k \in Nat /\ client[c].bytes_written + k <= Len(client[c].out_buffer)
           /\ Linked(c) => /\ Len(arrived'[c]) = Len(arrived[c]) + k
                           /\ \A i \in 1 .. Len(arrived[c]) : arrived'[c][i] = arrived[c][i]
                           /\ \A i \in 1 .. k : arrived'[c][Len(arrived[c]) + i] =
                                client[c].out_buffer[client[c].bytes_written + i]
           /\ ~Linked(c) => arrived'[c] = <<>>
<1>1. PICK o, b, a : o = client[c].out_buffer /\ b = client[c].bytes_written /\ a = arrived[c]
  OBVIOUS
<1>2. o \in Seq(Msg) /\ b \in Nat /\ a \in Seq(Msg) /\ Len(o) \in Nat /\ Len(a) \in Nat
  BY <1>1, ClientTypes, ProgramFields
<1>3. k \in Nat /\ b + k <= Len(o)  BY <1>1, <1>2 DEF Pending
<1> DEFINE s == SubSeq(o, b + 1, b + k)
<1>4. s \in Seq(Msg) /\ Len(s) = k /\ \A i \in 1 .. k : s[i] = o[b + i]
  BY <1>2, <1>3, PieceShape
<1>5. Linked(c) => arrived'[c] = a \o s  BY <1>1 DEF Passes
<1> HIDE DEF s
<1>6. /\ Len(a \o s) = Len(a) + Len(s)
      /\ \A i \in 1 .. Len(a) + Len(s) :
            (a \o s)[i] = IF i <= Len(a) THEN a[i] ELSE s[i - Len(a)]
  BY <1>2, <1>4, ConcatProperties
<1>7. \A i \in 1 .. Len(a) : (a \o s)[i] = a[i]
  BY <1>2, <1>3, <1>4, <1>6
<1>8. ASSUME NEW i \in 1 .. k PROVE (a \o s)[Len(a) + i] = o[b + i]
  <2>1. Len(a) + i \in 1 .. Len(a) + Len(s) /\ ~(Len(a) + i <= Len(a)) /\ Len(a) + i - Len(a) = i
    BY <1>2, <1>3, <1>4
  <2> QED  BY <1>4, <1>6, <2>1
<1>9. ~Linked(c) => arrived'[c] = <<>>  BY DEF Passes, Bounds
<1> QED  BY <1>1, <1>3, <1>4, <1>5, <1>6, <1>7, <1>8, <1>9

LEMMA BoundsStep ==
    ASSUME ClientTypeOK, NEW c \in Conn, Bounds(c),
           ClientKind(c), Linked(c) => Linked(c)'
    PROVE  Bounds(c)'
<1>0. /\ client[c].out_buffer \in Seq(Msg) /\ Len(client[c].out_buffer) \in Nat
      /\ client[c].bytes_written \in Nat
      /\ arrived[c] \in Seq(Msg) /\ wire[c] \in Seq(Msg)
      /\ taken[c] \in Nat /\ sent[c] \in Nat
      /\ Len(arrived[c]) \in Nat /\ Len(wire[c]) \in Nat
  BY ClientTypes, ProgramFields
<1>1. ASSUME NEW m \in Msg, client'[c].out_buffer = Append(client[c].out_buffer, m),
             client'[c].bytes_written = client[c].bytes_written, UpSame(c), DownSame(c)
      PROVE  Bounds(c)'
  <2>1. Len(client'[c].out_buffer) = Len(client[c].out_buffer) + 1
    BY <1>0, <1>1, AppendProperties
  <2> QED  BY <1>0, <1>1, <2>1 DEF Bounds, UpSame, DownSame
<1>2. ASSUME UpSame(c), OutSame(c), wire'[c] = wire[c],
             taken'[c] \in taken[c] .. Len(wire[c])
      PROVE  Bounds(c)'
  BY <1>0, <1>2 DEF Bounds, UpSame, OutSame
<1>3. ASSUME UpSame(c), OutSame(c), DownSame(c) PROVE Bounds(c)'
  <2>1. taken[c] \in taken[c] .. Len(wire[c])  BY <1>0 DEF Bounds
  <2> QED  BY <1>2, <1>3, <2>1 DEF DownSame
<1>4. ASSUME NEW k \in 0 .. Pending(c), Passes(c, k), DownSame(c),
             client'[c].bytes_written <= Len(client'[c].out_buffer)
      PROVE  Bounds(c)'
  <2>1. Len(arrived'[c]) <= sent'[c] /\ (~Linked(c)' => arrived'[c] = <<>>)
    <3>1. CASE Linked(c)
      <4>1. Len(arrived'[c]) = Len(arrived[c]) + k /\ k \in Nat
        BY <1>4, <3>1, PassesBounds
      <4>2. sent'[c] = sent[c] + k  BY <1>4 DEF Passes
      <4>3. Len(arrived[c]) <= sent[c]  BY DEF Bounds
      <4>4. Linked(c)'  BY <3>1
      <4> QED  BY <1>0, <4>1, <4>2, <4>3, <4>4
    <3>2. CASE ~Linked(c)
      <4>1. arrived'[c] = <<>> /\ k \in Nat  BY <1>4, <3>2, PassesBounds
      <4>2. Len(arrived'[c]) = 0  BY <4>1, EmptySeq
      <4> QED  BY <1>0, <1>4, <4>1, <4>2 DEF Passes
    <3> QED  BY <3>1, <3>2
  <2> QED  BY <1>4, <2>1 DEF Bounds, DownSame
<1>5. Pending(c) \in 0 .. Pending(c)  BY <1>0 DEF Bounds, Pending
<1>6. Len(<<>>) = 0  BY EmptySeq
<1>7. CASE Idles(c)  BY <1>3, <1>7 DEF Idles
<1>8. CASE Connects(c)  BY <1>3, <1>8 DEF Connects
<1>9. CASE Introduces(c)  BY <1>1, <1>9, ClientFrames DEF Introduces
<1>10. CASE Writes(c)
  <2>1. PICK k \in 0 .. Pending(c) :
          Passes(c, k) /\ client'[c].bytes_written = client[c].bytes_written + k
    BY <1>10, ClientTypes DEF Writes, Pending
  <2>2. client'[c].bytes_written <= Len(client'[c].out_buffer)
    BY <1>10, <2>1, PassesBounds DEF Writes
  <2> QED  BY <1>4, <1>10, <2>1, <2>2 DEF Writes
<1>11. CASE Flushes(c)
  BY <1>4, <1>5, <1>6, <1>11 DEF Flushes
<1>12. CASE Leaves(c)
  <2>1. CASE UpSame(c) /\ OutSame(c)  BY <1>3, <1>12, <2>1 DEF Leaves
  <2>2. CASE ~(UpSame(c) /\ OutSame(c))
    BY <1>4, <1>5, <1>6, <1>12, <2>2 DEF Leaves
  <2> QED  BY <2>1, <2>2
<1>13. ASSUME NEW k \in 0 .. Unread(c), NEW j, Handles(c, k, j) PROVE Bounds(c)'
  <2>1. taken[c] + k \in taken[c] .. Len(wire[c])  BY <1>0 DEF Unread
  <2> QED  BY <1>2, <1>13, <2>1 DEF Handles
<1>14. CASE Listens(c)  BY <1>13, <1>14 DEF Listens
<1>15. CASE ListensLast(c)  BY <1>13, <1>15 DEF ListensLast
<1>16. CASE Speaks(c)  BY <1>1, <1>16, ClientFrames DEF Speaks
<1>17. CASE Resigns(c)  BY <1>1, <1>17, ClientFrames DEF Resigns
<1>18. CASE IsTold(c)
  <2>1. PICK s \in Seq(Msg) : wire'[c] = wire[c] \o s  BY <1>18 DEF IsTold
  <2>2. Len(wire'[c]) = Len(wire[c]) + Len(s) /\ Len(s) \in Nat
    BY <1>0, <2>1, ConcatProperties, LenProperties
  <2>3. taken[c] <= Len(wire'[c])  BY <1>0, <2>2 DEF Bounds
  <2> QED  BY <1>0, <1>18, <2>3 DEF IsTold, Bounds, UpSame
<1>19. CASE IsHeard(c)
  <2>1. PICK k \in 0 .. Len(arrived[c]) :
          arrived'[c] = SubSeq(arrived[c], k + 1, Len(arrived[c]))
    BY <1>19 DEF IsHeard
  <2>2. arrived'[c] \in Seq(Msg) /\ Len(arrived'[c]) = Len(arrived[c]) - k
    BY <1>0, <2>1, LeftShape DEF Left
  <2>3. Len(arrived'[c]) <= sent'[c]  BY <1>0, <1>19, <2>2 DEF IsHeard, Bounds
  <2>4. ~Linked(c) => arrived'[c] = <<>>
    <3>1. SUFFICES ASSUME ~Linked(c) PROVE arrived'[c] = <<>>  OBVIOUS
    <3>2. Len(arrived[c]) = 0  BY <3>1, EmptySeq DEF Bounds
    <3>3. k = 0  BY <3>2
    <3>4. Len(arrived'[c]) = 0  BY <2>2, <3>2, <3>3
    <3> QED  BY <2>2, <3>4, EmptySeq
  <2>5. ~Linked(c)' => ~Linked(c)  OBVIOUS
  <2> QED  BY <1>19, <2>3, <2>4, <2>5 DEF IsHeard, Bounds, DownSame
<1> QED
  BY <1>7, <1>8, <1>9, <1>10, <1>11, <1>12, <1>14, <1>15, <1>16, <1>17, <1>18, <1>19
     DEF ClientKind, ProgramKind

LEMMA ForeignStep ==
    ASSUME ClientTypeOK, NEW c \in Conn, Foreign(c), ClientKind(c) \/ IsDropped(c)
    PROVE  Foreign(c)'
<1>1. CASE wire'[c] = wire[c]  BY <1>1 DEF Foreign
<1>2. CASE IsTold(c)
  <2>1. PICK s \in Seq(Msg) : /\ \A i \in 1 .. Len(s) : s[i].says \notin ChatLines(c)
                              /\ wire'[c] = wire[c] \o s
    BY <1>2 DEF IsTold
  <2>2. PICK w : w = wire[c]  OBVIOUS
  <2>3. w \in Seq(Msg)  BY <2>2, ClientTypes
  <2>4. /\ Len(w) \in Nat /\ Len(s) \in Nat /\ Len(w \o s) = Len(w) + Len(s)
        /\ \A i \in 1 .. Len(w) + Len(s) :
             (w \o s)[i] = IF i <= Len(w) THEN w[i] ELSE s[i - Len(w)]
    BY <2>3, ConcatProperties, LenProperties
  <2>5. \A i \in 1 .. Len(w) : w[i].says \notin ChatLines(c)  BY <2>2 DEF Foreign
  <2>6. ASSUME NEW i \in 1 .. Len(w \o s) PROVE (w \o s)[i].says \notin ChatLines(c)
    <3>1. CASE i <= Len(w)
      <4>1. i \in 1 .. Len(w) /\ i \in 1 .. Len(w) + Len(s)  BY <2>4, <3>1
      <4> QED  BY <2>4, <2>5, <3>1, <4>1
    <3>2. CASE ~(i <= Len(w))
      <4>1. i - Len(w) \in 1 .. Len(s) /\ i \in 1 .. Len(w) + Len(s)  BY <2>4, <3>2
      <4> QED  BY <2>1, <2>4, <3>2, <4>1
    <3> QED  BY <3>1, <3>2
  <2> QED  BY <2>1, <2>2, <2>6 DEF Foreign
<1> QED
  BY <1>1, <1>2 DEF ClientKind, ProgramKind,
              Idles, Connects, Introduces, Writes, Flushes, Leaves,
     Listens, ListensLast, Handles, Speaks, Resigns, IsHeard, IsDropped, DownSame

-----------------------------------------------------------------------------
(* What was told.                                                           *)
NameSaid(c) == [who |-> c, what |-> "name", n |-> 0]
ByeSaid(c)  == [who |-> c, what |-> "nothing", n |-> 0]
Account(c, own, quits) ==
    <<NameSaid(c)>> \o own \o (IF quits THEN <<ByeSaid(c)>> ELSE <<>>)

LEMMA ToldIs ==
    ASSUME NEW c
    PROVE  /\ Told(c) = IF client[c].state = "CONNECTING" THEN <<>>
                        ELSE Account(c, Own(c), client[c].quitting)
           /\ Told(c)' = IF client'[c].state = "CONNECTING" THEN <<>>
                         ELSE Account(c, Own(c)', client'[c].quitting)
  BY DEF Told, Account, NameSaid, ByeSaid, Hello, Goodbye

LEMMA AccountShape ==
    ASSUME NEW c \in Conn, NEW own \in Seq(Utterance(Speaker))
    PROVE  /\ \A quits \in BOOLEAN : /\ Account(c, own, quits) \in Seq(Utterance(Speaker))
                                     /\ Len(Account(c, own, quits)) > 0
           /\ Account(c, <<>>, FALSE) = Append(<<>>, NameSaid(c))
           /\ \A x \in Utterance(Speaker) :
                Account(c, Append(own, x), FALSE) = Append(Account(c, own, FALSE), x)
           /\ Account(c, own, TRUE) = Append(Account(c, own, FALSE), ByeSaid(c))
<1> DEFINE U == Utterance(Speaker)
           h == <<NameSaid(c)>>
<1>1. NameSaid(c) \in U /\ ByeSaid(c) \in U
  BY DEF NameSaid, ByeSaid, Utterance, Speaker, Topic
<1>2. <<>> \in Seq(U)  BY EmptySeq
<1>3. h = Append(<<>>, NameSaid(c))  OBVIOUS
<1>4. h \in Seq(U) /\ Len(h) = 1  BY <1>1
<1> HIDE DEF h, U
<1>5. \A o \in Seq(U) : /\ h \o o \in Seq(U) /\ Len(h \o o) > 0 /\ (h \o o) \o <<>> = h \o o
  <2>1. ASSUME NEW o \in Seq(U)
        PROVE  h \o o \in Seq(U) /\ Len(h \o o) > 0 /\ (h \o o) \o <<>> = h \o o
    <3>1. h \o o \in Seq(U) /\ Len(h \o o) = Len(h) + Len(o) /\ Len(o) \in Nat
      BY <1>4, ConcatProperties, LenProperties
    <3> QED  BY <1>4, <3>1, ConcatEmptySeq
  <2> QED  BY <2>1
<1>6. \A o \in Seq(U) : Account(c, o, FALSE) = h \o o
  BY <1>5 DEF Account, h
<1>7. \A o \in Seq(U) : Account(c, o, TRUE) = Append(h \o o, ByeSaid(c))
  <2>1. ASSUME NEW o \in Seq(U) PROVE Account(c, o, TRUE) = Append(h \o o, ByeSaid(c))
    <3>1. Account(c, o, TRUE) = (h \o o) \o <<ByeSaid(c)>>  BY DEF Account, h
    <3> QED  BY <1>1, <1>5, <3>1, AppendIsConcat
  <2> QED  BY <2>1
<1>8. own \in Seq(U)  BY DEF U
<1>9. Account(c, own, FALSE) \in Seq(U) /\ Len(Account(c, own, FALSE)) > 0
  BY <1>5, <1>6, <1>8
<1>10. Account(c, own, TRUE) \in Seq(U) /\ Len(Account(c, own, TRUE)) > 0
  <2>1. h \o own \in Seq(U) /\ Len(h \o own) \in Nat  BY <1>5, <1>8, LenProperties
  <2>2. /\ Append(h \o own, ByeSaid(c)) \in Seq(U)
        /\ Len(Append(h \o own, ByeSaid(c))) = Len(h \o own) + 1
    BY <1>1, <2>1, AppendProperties
  <2>3. Account(c, own, TRUE) = Append(h \o own, ByeSaid(c))  BY <1>7, <1>8
  <2>4. Len(h \o own) + 1 > 0  BY <2>1
  <2> QED  BY <2>2, <2>3, <2>4
<1>11. Account(c, <<>>, FALSE) = Append(<<>>, NameSaid(c))
  <2>1. h \o <<>> = h  BY <1>4, ConcatEmptySeq
  <2> QED  BY <1>2, <1>3, <1>6, <2>1
<1>12. ASSUME NEW x \in U
       PROVE  Account(c, Append(own, x), FALSE) = Append(Account(c, own, FALSE), x)
  <2>1. Append(own, x) \in Seq(U)  BY <1>8, AppendProperties
  <2>2. h \o Append(own, x) = Append(h \o own, x)  BY <1>4, <1>8, ConcatAppend
  <2> QED  BY <1>6, <1>8, <2>1, <2>2
<1> QED  BY <1>6, <1>7, <1>8, <1>9, <1>10, <1>11, <1>12 DEF U

LEMMA ToldType ==
    ASSUME ClientTypeOK, NEW c \in Conn
    PROVE  /\ Own(c) \in Seq(Utterance(Speaker))
           /\ Told(c) \in Seq(Utterance(Speaker)) /\ Len(Told(c)) \in Nat
           /\ client[c].state # "CONNECTING" => Len(Told(c)) > 0
<1>1. client[c].shown \in Seq(Utterance(Speaker)) /\ client[c].quitting \in BOOLEAN
  BY ClientTypes, ProgramFields
<1>2. Own(c) \in Seq(Utterance(Speaker))  BY <1>1, OnlyType DEF Own
<1>3. <<>> \in Seq(Utterance(Speaker))  BY EmptySeq
<1>4. /\ Account(c, Own(c), client[c].quitting) \in Seq(Utterance(Speaker))
      /\ Len(Account(c, Own(c), client[c].quitting)) > 0
  BY <1>1, <1>2, AccountShape
<1>5. Told(c) \in Seq(Utterance(Speaker))  BY <1>3, <1>4, ToldIs
<1> QED  BY <1>2, <1>4, <1>5, ToldIs, LenProperties

LEMMA ToldSame ==
    ASSUME NEW c, Own(c)' = Own(c), client'[c].quitting = client[c].quitting,
           client'[c].state = "CONNECTING" <=> client[c].state = "CONNECTING"
    PROVE  Told(c)' = Told(c)
  BY ToldIs

(* What is queued by a step is what is told by it.                          *)
LEMMA ToldGrows ==
    ASSUME ClientTypeOK, NEW c \in Conn, Stage(c)
    PROVE  /\ Introduces(c) => Told(c)' = Append(<<>>, Hello(c).says)
           /\ \A size \in Nat :
                Speaks(c) /\ client'[c].shown = Append(client[c].shown, Chat(c, size).says)
                  => Told(c)' = Append(Told(c), Chat(c, size).says)
           /\ Resigns(c) => Told(c)' = Append(Told(c), Goodbye(c).says)
<1>0. /\ client[c].shown \in Seq(Utterance(Speaker))
      /\ Own(c) \in Seq(Utterance(Speaker))
      /\ client[c].quitting \in BOOLEAN
  BY ClientTypes, ProgramFields, ToldType
<1>1. ASSUME Introduces(c) PROVE Told(c)' = Append(<<>>, Hello(c).says)
  <2>1. client'[c].shown = <<>> /\ client'[c].quitting = FALSE
    BY <1>1, ClientTypes, ProgramFields DEF Introduces, Stage
  <2>2. Own(c)' = <<>>  BY <2>1, OnlyEmpty DEF Own
  <2>3. client'[c].state # "CONNECTING"  BY <1>1 DEF Introduces
  <2>4. Told(c)' = Account(c, <<>>, FALSE)  BY <2>1, <2>2, <2>3, ToldIs
  <2>5. Account(c, <<>>, FALSE) = Append(<<>>, NameSaid(c))  BY <1>0, AccountShape
  <2> QED  BY <2>4, <2>5 DEF Hello, NameSaid
<1>2. ASSUME NEW size \in Nat, Speaks(c),
             client'[c].shown = Append(client[c].shown, Chat(c, size).says)
      PROVE  Told(c)' = Append(Told(c), Chat(c, size).says)
  <2>0. PICK x : x = Chat(c, size).says  OBVIOUS
  <2>1. x \in Utterance(Speaker) /\ x \in ChatLines(c)
    <3>1. Chat(c, size) \in Msg /\ client[c].typed \in Nat
      BY ClientFrames, ClientTypes, ProgramFields
    <3> QED  BY <2>0, <3>1, MsgSays DEF Chat, ChatLines
  <2>2. Own(c)' = Append(Own(c), x)
    BY <1>0, <1>2, <2>0, <2>1, OnlyAppend DEF Own
  <2>3. /\ client[c].quitting = FALSE /\ client'[c].quitting = FALSE
        /\ client[c].state # "CONNECTING" /\ client'[c].state # "CONNECTING"
    BY <1>0, <1>2 DEF Speaks
  <2>4. /\ Told(c) = Account(c, Own(c), FALSE)
        /\ Told(c)' = Account(c, Append(Own(c), x), FALSE)
    BY <2>2, <2>3, ToldIs
  <2>5. \A y \in Utterance(Speaker) :
           Account(c, Append(Own(c), y), FALSE) = Append(Account(c, Own(c), FALSE), y)
    BY <1>0, AccountShape
  <2> QED  BY <2>0, <2>1, <2>4, <2>5
<1>3. ASSUME Resigns(c) PROVE Told(c)' = Append(Told(c), Goodbye(c).says)
  <2>1. Own(c)' = Own(c)  BY <1>3 DEF Own, Resigns
  <2>2. client[c].quitting = FALSE  BY <1>0, <1>3 DEF Resigns
  <2>3. client[c].state # "CONNECTING" /\ client'[c].state # "CONNECTING"
    BY <1>3 DEF Resigns
  <2>4. Told(c) = Account(c, Own(c), FALSE)  BY <2>2, <2>3, ToldIs
  <2>5. Told(c)' = Account(c, Own(c), TRUE)
    BY <1>3, <2>1, <2>3, ToldIs DEF Account, Resigns
  <2>6. Account(c, Own(c), TRUE) = Append(Account(c, Own(c), FALSE), ByeSaid(c))
    BY <1>0, AccountShape
  <2> QED  BY <2>4, <2>5, <2>6 DEF Goodbye, ByeSaid
<1> QED  BY <1>1, <1>2, <1>3

-----------------------------------------------------------------------------
(* The stages of the conversation.                                          *)
LEMMA StageStep ==
    ASSUME ClientTypeOK, NEW c \in Conn, Bounds(c), Stage(c), Accounts(c),
           ClientKind(c) \/ IsDropped(c)
    PROVE  Stage(c)'
<1>0. /\ taken[c] \in Nat /\ sent[c] \in Nat /\ wire[c] \in Seq(Msg) /\ Len(wire[c]) \in Nat
      /\ client[c].out_buffer \in Seq(Msg) /\ Len(client[c].out_buffer) \in Nat
      /\ client[c].bytes_written \in Nat
  BY ClientTypes, ProgramFields
<1>1. ASSUME client'[c] = client[c], sent'[c] = sent[c], taken'[c] = taken[c],
             Greets(c) => Greets(c)'
      PROVE  Stage(c)'
  BY <1>1 DEF Stage, Running
<1>2. ASSUME DownSame(c) PROVE Greets(c)' <=> Greets(c)
  BY <1>2 DEF Greets, DownSame
<1>3. CASE Idles(c)
  BY <1>2, <1>3 DEF Stage, Idles, UpSame, DownSame, OutSame, Running
<1>4. CASE Connects(c)
  BY <1>2, <1>4 DEF Stage, Connects, UpSame, DownSame, OutSame, Running
<1>5. CASE Introduces(c)
  BY <1>2, <1>5 DEF Stage, Introduces, UpSame, DownSame, Running
<1>6. CASE Writes(c)
  <2>1. PICK k \in 0 .. Pending(c) :
          sent'[c] = sent[c] + k /\ client'[c].bytes_written = client[c].bytes_written + k
    BY <1>6, ClientTypes DEF Writes, Passes, Pending
  <2>2. k \in Nat /\ k <= Len(client[c].out_buffer) - client[c].bytes_written
    BY <1>0 DEF Pending
  <2>3. client[c].state = "CONNECTING" => k = 0
    <3>1. SUFFICES ASSUME client[c].state = "CONNECTING" PROVE k = 0  OBVIOUS
    <3>2. client[c].out_buffer = <<>> /\ client[c].bytes_written = 0
      BY <1>6, <3>1 DEF Writes, RunsOn, Stage
    <3>3. Len(client[c].out_buffer) = 0  BY <3>2, EmptySeq
    <3> QED  BY <2>2, <3>2, <3>3
  <2>4. sent[c] > 0 => sent'[c] > 0  BY <1>0, <2>1, <2>2
  <2>5. client[c].state = "CONNECTING" =>
           /\ sent'[c] = sent[c] /\ client'[c].bytes_written = client[c].bytes_written
    BY <1>0, <2>1, <2>3
  <2> QED
    BY <1>2, <1>6, <2>4, <2>5 DEF Stage, Writes, RunsOn, DownSame, Running
<1>7. CASE Flushes(c)
  <2>1. sent'[c] = sent[c] + Pending(c)  BY <1>7 DEF Flushes, Passes
  <2>2. Running(c) /\ client[c].state # "CONNECTING"  BY <1>7 DEF Flushes, RunsOn
  <2>3. /\ sent[c] + Len(client[c].out_buffer) = client[c].bytes_written + Len(Told(c))
        /\ Len(Told(c)) \in Nat /\ Len(Told(c)) > 0
    BY <2>2, ToldType DEF Accounts
  <2>4. sent'[c] > 0  BY <1>0, <2>1, <2>3 DEF Pending
  <2> QED
    BY <1>2, <1>7, <2>4 DEF Stage, Flushes, RunsOn, DownSame, Running, Greeted
<1>8. CASE Leaves(c)
  <2>1. sent[c] > 0 => sent'[c] > 0
    <3>1. CASE UpSame(c)  BY <3>1 DEF UpSame
    <3>2. CASE sent'[c] = sent[c] + Pending(c)  BY <1>0, <3>2 DEF Pending, Bounds
    <3> QED  BY <1>8, <3>1, <3>2 DEF Leaves, Passes
  <2> QED  BY <1>2, <1>8, <2>1 DEF Stage, Leaves, Running
<1>9. ASSUME NEW k \in 0 .. Unread(c), NEW j \in 0 .. k, Handles(c, k, j),
             j > 0 \/ Greets(c)
      PROVE  Greets(c)'
  <2>1. k \in Nat /\ j \in Nat /\ taken'[c] = taken[c] + k /\ wire'[c] = wire[c]
    BY <1>9 DEF Handles
  <2>2. CASE Greets(c)  BY <1>0, <2>1, <2>2 DEF Greets
  <2>3. CASE ~Greets(c)
    <3>1. j > 0 /\ client[c].state = "WAITING_FOR_SERVER_HELLO"
      BY <1>9, <2>3 DEF Handles, Stage
    <3>2. taken[c] = 0  BY <1>9, <3>1 DEF Handles, Stage
    <3>3. Input(c, j)[1].type = "SERVER_HELLO"  BY <1>9, <3>1 DEF Handles
    <3>4. j \in 0 .. Unread(c) /\ 1 \in 1 .. j  BY <1>0, <2>1, <3>1 DEF Unread
    <3>5. Input(c, j)[1] = wire[c][taken[c] + 1]  BY <3>4, InputShape
    <3>6. taken[c] + 1 = 1  BY <3>2
    <3>7. wire[c][1].type = "SERVER_HELLO"  BY <3>3, <3>5, <3>6
    <3>8. taken'[c] > 0  BY <1>0, <2>1, <3>1
    <3> QED  BY <2>1, <3>7, <3>8 DEF Greets
  <2> QED  BY <2>2, <2>3
<1>10. ASSUME NEW k \in 0 .. Unread(c), NEW j \in 0 .. k, Handles(c, k, j)
       PROVE  client'[c].shown # <<>> => sent'[c] > 0 /\ Greets(c)'
  <2>1. sent'[c] = sent[c] /\ sent[c] > 0  BY <1>10 DEF Handles, Stage, UpSame
  <2>2. CASE j > 0  BY <1>9, <1>10, <2>1, <2>2
  <2>3. CASE j = 0
    <3>1. client'[c].shown = client[c].shown  BY <1>10, <2>3, PrintsNothing DEF Handles
    <3>2. client'[c].shown # <<>> => Greets(c)  BY <3>1 DEF Stage
    <3> QED  BY <1>9, <1>10, <2>1, <3>2
  <2>4. j > 0 \/ j = 0  OBVIOUS
  <2> QED  BY <2>2, <2>3, <2>4
<1>11. CASE Listens(c)
  <2>1. PICK k \in 0 .. Unread(c) :
          /\ RunsOn(c) /\ Handles(c, k, k)
          /\ client'[c].state = IF k > 0 THEN "ACTIVE" ELSE client[c].state
    BY <1>11 DEF Listens
  <2>2. k \in 0 .. k /\ k \in Nat  OBVIOUS
  <2>3. client'[c].shown # <<>> => sent'[c] > 0 /\ Greets(c)'  BY <1>10, <2>1, <2>2
  <2>4. sent'[c] = sent[c] /\ sent[c] > 0  BY <2>1 DEF Handles, Stage, UpSame
  <2>5. client'[c].pc # "start"
        /\ client'[c].state \in {"WAITING_FOR_SERVER_HELLO", "ACTIVE"}
    BY <2>1 DEF RunsOn, Handles
  <2>6. client'[c].state = "ACTIVE" => Greets(c)'
    <3>1. SUFFICES ASSUME client'[c].state = "ACTIVE" PROVE k > 0 \/ Greets(c)
      BY <1>9, <2>1, <2>2
    <3> QED  BY <2>1, <3>1 DEF RunsOn, Stage
  <2>7. client'[c].state = "WAITING_FOR_SERVER_HELLO" =>
          client'[c].shown = <<>> /\ taken'[c] = 0
    <3>1. SUFFICES ASSUME client'[c].state = "WAITING_FOR_SERVER_HELLO"
                   PROVE  client'[c].shown = <<>> /\ taken'[c] = 0
      OBVIOUS
    <3>2. k = 0 /\ client[c].state = "WAITING_FOR_SERVER_HELLO"  BY <2>1, <2>2, <3>1
    <3>3. client[c].shown = <<>> /\ taken[c] = 0  BY <2>1, <3>2 DEF Stage, RunsOn
    <3>4. client'[c].shown = client[c].shown  BY <2>1, <3>2, PrintsNothing DEF Handles
    <3>5. taken'[c] = taken[c] + k  BY <2>1 DEF Handles
    <3> QED  BY <3>2, <3>3, <3>4, <3>5
  <2> QED  BY <2>3, <2>4, <2>5, <2>6, <2>7 DEF Stage, Running
<1>12. CASE ListensLast(c)
  <2>1. client'[c].shown # <<>> => sent'[c] > 0 /\ Greets(c)'
    BY <1>10, <1>12 DEF ListensLast
  <2>2. client'[c].pc = "exited"  BY <1>12 DEF ListensLast
  <2> QED  BY <2>1, <2>2 DEF Stage, Running
<1>13. CASE Speaks(c)
  BY <1>2, <1>13 DEF Stage, Speaks, RunsOn, UpSame, DownSame, Running
<1>14. CASE Resigns(c)
  BY <1>2, <1>14 DEF Stage, Resigns, RunsOn, UpSame, DownSame, Running
<1>15. CASE IsTold(c)
  <2>1. PICK s \in Seq(Msg) : wire'[c] = wire[c] \o s  BY <1>15 DEF IsTold
  <2>2. \A i \in 1 .. Len(wire[c]) : wire'[c][i] = wire[c][i]
    <3>1. PICK w : w = wire[c]  OBVIOUS
    <3>2. /\ Len(w) \in Nat /\ Len(s) \in Nat
          /\ \A i \in 1 .. Len(w) + Len(s) :
               (w \o s)[i] = IF i <= Len(w) THEN w[i] ELSE s[i - Len(w)]
      BY <1>0, <3>1, ConcatProperties, LenProperties
    <3>3. \A i \in 1 .. Len(w) : (w \o s)[i] = w[i]  BY <3>2
    <3> QED  BY <2>1, <3>1, <3>3
  <2>3. Greets(c) => Greets(c)'
    <3>1. SUFFICES ASSUME Greets(c) PROVE Greets(c)'  OBVIOUS
    <3>2. 1 \in 1 .. Len(wire[c])  BY <1>0, <3>1 DEF Greets, Bounds
    <3> QED  BY <1>15, <2>2, <3>1, <3>2 DEF Greets, IsTold
  <2> QED  BY <1>1, <1>15, <2>3 DEF IsTold, UpSame
<1>16. CASE IsHeard(c) \/ IsDropped(c)
  BY <1>1, <1>2, <1>16 DEF IsHeard, IsDropped, DownSame
<1> QED
  BY <1>3, <1>4, <1>5, <1>6, <1>7, <1>8, <1>11, <1>12, <1>13, <1>14, <1>15, <1>16
     DEF ClientKind, ProgramKind

-----------------------------------------------------------------------------
(* What the user is shown.                                                  *)

(* What j frames of the server print is said by the server.                 *)
LEMMA PrintsOthers ==
    ASSUME ClientTypeOK, NEW c \in Conn, Bounds(c), Foreign(c), NEW j \in 0 .. Unread(c)
    PROVE  LET p == Says(Only(Input(c, j), Broadcasts))
           IN  /\ p \in Seq(Utterance(Speaker))
               /\ Only(Prints(c, Input(c, j)), ChatLines(c)) = Own(c)
               /\ Only(Prints(c, Input(c, j)), Utterance(Speaker) \ ChatLines(c))
                    = Others(c) \o p
               /\ Says(Only(SubSeq(wire[c], 1, taken[c] + j), Broadcasts))
                    = ReadBroadcasts(c) \o p
<1> DEFINE U == Utterance(Speaker)
           H == {m \in Msg : m.says \notin ChatLines(c)}
           p == Says(Only(Input(c, j), Broadcasts))
<1>1. /\ wire[c] \in Seq(Msg) /\ Len(wire[c]) \in Nat /\ taken[c] \in Nat
      /\ j \in Nat /\ taken[c] + j <= Len(wire[c])
      /\ client[c].shown \in Seq(U)
  <2>1. /\ wire[c] \in Seq(Msg) /\ Len(wire[c]) \in Nat /\ taken[c] \in Nat
        /\ taken[c] <= Len(wire[c])
    BY ClientTypes DEF Bounds
  <2>2. j \in Nat /\ taken[c] + j <= Len(wire[c])  BY <2>1 DEF Unread
  <2>3. client[c].shown \in Seq(U)  BY ClientTypes, ProgramFields
  <2> QED  BY <2>1, <2>2, <2>3
<1>2. Input(c, j) \in Seq(Msg)  BY InputShape
<1>3. Input(c, j) \in Seq(H)
  <2>1. \A i \in taken[c] + 1 .. taken[c] + j : wire[c][i] \in H
    BY <1>1, ElementOfSeq DEF Foreign
  <2> HIDE DEF H
  <2> QED  BY <1>1, <2>1, SubSeqProperties DEF Input
<1>4. \A m \in H : m.says \in U \ ChatLines(c)
  BY MsgSays
<1>5. p \in Seq(U \ ChatLines(c))
  <2>1. Only(Input(c, j), Broadcasts) \in Seq(H)
    <3> HIDE DEF H
    <3> QED  BY <1>3, OnlyType
  <2> HIDE DEF H, U
  <2> QED  BY <1>4, <2>1, SaysType
<1>6. p \in Seq(U)  BY <1>2, PrintsType
<1>7. Prints(c, Input(c, j)) = client[c].shown \o p  BY DEF Prints
<1>8. Only(p, ChatLines(c)) = <<>> /\ Only(p, U \ ChatLines(c)) = p
  <2>1. (U \ ChatLines(c)) \cap ChatLines(c) = {}
        /\ U \ ChatLines(c) \subseteq U \ ChatLines(c)
    OBVIOUS
  <2> HIDE DEF p, U
  <2> QED  BY <1>5, <2>1, OnlyNone, OnlyAll
<1>9. Only(client[c].shown, ChatLines(c)) = Own(c)
      /\ Only(client[c].shown, U \ ChatLines(c)) = Others(c)
  BY DEF Own, Others
<1>10. Only(Prints(c, Input(c, j)), ChatLines(c)) = Own(c)
  <2>1. Only(client[c].shown \o p, ChatLines(c)) = Own(c) \o <<>>
    <3> HIDE DEF p, U
    <3>1. PICK sh, L : sh = client[c].shown /\ L = ChatLines(c)  OBVIOUS
    <3>2. Only(sh \o p, L) = Only(sh, L) \o Only(p, L)  BY <1>1, <1>6, <3>1, OnlyConcat
    <3> QED  BY <1>8, <1>9, <3>1, <3>2
  <2>2. Own(c) \o <<>> = Own(c)  BY ToldType, ConcatEmptySeq
  <2> QED  BY <1>7, <2>1, <2>2
<1>11. Only(Prints(c, Input(c, j)), U \ ChatLines(c)) = Others(c) \o p
  <2>1. Only(client[c].shown \o p, U \ ChatLines(c)) = Others(c) \o p
    <3> HIDE DEF p, U
    <3>1. PICK sh, L : sh = client[c].shown /\ L = U \ ChatLines(c)  OBVIOUS
    <3>2. Only(sh \o p, L) = Only(sh, L) \o Only(p, L)  BY <1>1, <1>6, <3>1, OnlyConcat
    <3> QED  BY <1>8, <1>9, <3>1, <3>2
  <2> QED  BY <1>7, <2>1
<1>12. Says(Only(SubSeq(wire[c], 1, taken[c] + j), Broadcasts)) = ReadBroadcasts(c) \o p
  <2>1. PICK w, t : w = wire[c] /\ t = taken[c]  OBVIOUS
  <2>2. w \in Seq(Msg) /\ Len(w) \in Nat /\ t \in Nat /\ t + j <= Len(w)  BY <1>1, <2>1
  <2>3. SubSeq(w, 1, t + j) = SubSeq(w, 1, t) \o SubSeq(w, t + 1, t + j)
    BY <1>1, <2>2, StartSplits
  <2>4. t \in 0 .. Len(w)  BY <1>1, <2>2
  <2>5. SubSeq(w, 1, t) \in Seq(Msg)  BY <2>2, <2>4, StartShape
  <2>6. SubSeq(w, t + 1, t + j) \in Seq(Msg)  BY <1>2, <2>1 DEF Input
  <2> DEFINE a == SubSeq(w, 1, t)
             b == SubSeq(w, t + 1, t + j)
  <2> HIDE DEF a, b
  <2>7. Only(a \o b, Broadcasts) = Only(a, Broadcasts) \o Only(b, Broadcasts)
    BY <2>5, <2>6, OnlyConcat DEF a, b
  <2>8. Only(a, Broadcasts) \in Seq(Msg) /\ Only(b, Broadcasts) \in Seq(Msg)
    BY <2>5, <2>6, OnlyType DEF a, b
  <2>9. Says(Only(a, Broadcasts) \o Only(b, Broadcasts))
          = Says(Only(a, Broadcasts)) \o Says(Only(b, Broadcasts))
    BY <2>8, MsgSays, SaysConcat
  <2> QED  BY <2>1, <2>3, <2>7, <2>9 DEF a, b, ReadBroadcasts, Input
<1> QED  BY <1>6, <1>10, <1>11, <1>12
(* The broadcasts of the first m frames begin those of the first n.         *)
LEMMA BroadcastsPrefix ==
    ASSUME NEW w \in Seq(Msg), NEW n \in 0 .. Len(w), NEW m \in 0 .. n
    PROVE  IsPrefix(Says(Only(SubSeq(w, 1, m), Broadcasts)),
                    Says(Only(SubSeq(w, 1, n), Broadcasts)))
<1> DEFINE U == Utterance(Speaker)
           a == SubSeq(w, 1, m)
           b == SubSeq(w, m + 1, n)
           x == Says(Only(a, Broadcasts))
           y == Says(Only(b, Broadcasts))
<1>1. Len(w) \in Nat /\ m \in Nat /\ n \in Nat /\ m <= n /\ n <= Len(w)
  BY LenProperties
<1>2. PICK k \in Nat : m + k = n
  <2>1. n - m \in Nat /\ m + (n - m) = n  BY <1>1
  <2> QED  BY <2>1
<1>3. SubSeq(w, 1, m + k) = SubSeq(w, 1, m) \o SubSeq(w, m + 1, m + k)
  BY <1>1, <1>2, StartSplits
<1>4. a \in Seq(Msg)
  <2>1. m \in 0 .. Len(w)  BY <1>1
  <2> QED  BY <2>1, StartShape
<1>5. b \in Seq(Msg)
  <2>1. SubSeq(w, m + 1, m + k) \in Seq(Msg)  BY <1>1, <1>2, PieceShape
  <2> QED  BY <1>2, <2>1
<1>6. SubSeq(w, 1, n) = a \o b  BY <1>2, <1>3
<1> HIDE DEF a, b
<1>7. Only(a \o b, Broadcasts) = Only(a, Broadcasts) \o Only(b, Broadcasts)
  BY <1>4, <1>5, OnlyConcat
<1>8. Only(a, Broadcasts) \in Seq(Msg) /\ Only(b, Broadcasts) \in Seq(Msg)
  BY <1>4, <1>5, OnlyType
<1>9. Says(Only(a, Broadcasts) \o Only(b, Broadcasts)) = x \o y
  BY <1>8, MsgSays, SaysConcat
<1>10. x \in Seq(U) /\ y \in Seq(U)  BY <1>8, MsgSays, SaysType
<1> HIDE DEF x, y, U
<1>11. IsPrefix(x, x \o y)
  <2>1. Len(x) \in Nat /\ Len(y) \in Nat /\ Len(x \o y) = Len(x) + Len(y)
    BY <1>10, LenProperties, ConcatProperties
  <2>2. Len(x) \in 0 .. Len(x)  BY <2>1
  <2>3. SubSeq(x \o y, 1, Len(x)) = SubSeq(x, 1, Len(x))  BY <1>10, <2>2, StartOfConcat
  <2> QED  BY <2>1, <2>3 DEF IsPrefix
<1> QED  BY <1>6, <1>7, <1>9, <1>11 DEF x, a

(* c prints what it reads.                                                  *)
LEMMA HearsMore ==
    ASSUME ClientTypeOK, NEW c \in Conn, Bounds(c), Foreign(c), Heard(c),
           NEW k \in 0 .. Unread(c), NEW j \in 0 .. k, Handles(c, k, j)
    PROVE  /\ Own(c)' = Own(c)
           /\ IsPrefix(Others(c)', ReadBroadcasts(c)')
           /\ j = k => Others(c)' = ReadBroadcasts(c)'
<1>1. /\ wire[c] \in Seq(Msg) /\ Len(wire[c]) \in Nat /\ taken[c] \in Nat
      /\ taken[c] <= Len(wire[c])
  BY ClientTypes DEF Bounds
<1>2. /\ j \in 0 .. Unread(c) /\ j \in Nat /\ k \in Nat /\ k \in 0 .. Unread(c)
      /\ taken[c] + k <= Len(wire[c]) /\ taken[c] + j \in 0 .. taken[c] + k
      /\ taken[c] + k \in 0 .. Len(wire[c])
  BY <1>1 DEF Unread
<1>3. /\ client'[c].shown = Prints(c, Input(c, j))
      /\ wire'[c] = wire[c] /\ taken'[c] = taken[c] + k
      /\ Running(c)
  BY DEF Handles
<1> DEFINE p == Says(Only(Input(c, j), Broadcasts))
           upTo(n) == Says(Only(SubSeq(wire[c], 1, n), Broadcasts))
<1>4. /\ Own(c)' = Own(c) /\ Others(c)' = Others(c) \o p
      /\ upTo(taken[c] + j) = ReadBroadcasts(c) \o p
  BY <1>2, <1>3, PrintsOthers DEF Own, Others
<1>5. Others(c) = ReadBroadcasts(c)  BY <1>3 DEF Heard, Running
<1>6. Others(c)' = upTo(taken[c] + j)  BY <1>4, <1>5
<1>7. ReadBroadcasts(c)' = upTo(taken[c] + k)  BY <1>3 DEF ReadBroadcasts
<1>8. PICK w, m, n : w = wire[c] /\ m = taken[c] + j /\ n = taken[c] + k  OBVIOUS
<1>9. w \in Seq(Msg) /\ n \in 0 .. Len(w) /\ m \in 0 .. n /\ n \in Nat /\ m \in Nat
  BY <1>1, <1>2, <1>8
<1>10. IsPrefix(Says(Only(SubSeq(w, 1, m), Broadcasts)),
                Says(Only(SubSeq(w, 1, n), Broadcasts)))
  BY <1>9, BroadcastsPrefix
<1> QED  BY <1>4, <1>6, <1>7, <1>8, <1>10

LEMMA HeardStep ==
    ASSUME ClientTypeOK, NEW c \in Conn, Bounds(c), Foreign(c), Heard(c),
           ClientKind(c) \/ IsDropped(c)
    PROVE  Heard(c)'
<1>0. /\ client[c].shown \in Seq(Utterance(Speaker))
      /\ wire[c] \in Seq(Msg) /\ Len(wire[c]) \in Nat /\ taken[c] \in 0 .. Len(wire[c])
  <2>1. /\ wire[c] \in Seq(Msg) /\ Len(wire[c]) \in Nat
        /\ taken[c] \in Nat /\ taken[c] <= Len(wire[c])
    BY ClientTypes DEF Bounds
  <2>2. taken[c] \in 0 .. Len(wire[c])  BY <2>1
  <2>3. client[c].shown \in Seq(Utterance(Speaker))  BY ClientTypes, ProgramFields
  <2> QED  BY <2>1, <2>2, <2>3
<1>1. Others(c) \in Seq(Utterance(Speaker))  BY <1>0, OnlyType DEF Others
<1>2. Heard(c) => IsPrefix(Others(c), ReadBroadcasts(c))
  <2>1. Len(Others(c)) <= Len(Others(c))  BY <1>1, LenProperties
  <2> QED  BY <2>1 DEF Heard, IsPrefix
<1>3. ASSUME Others(c)' = Others(c), ReadBroadcasts(c)' = ReadBroadcasts(c),
             client'[c].pc = "exited" \/ client[c].pc # "exited"
      PROVE  Heard(c)'
  BY <1>2, <1>3 DEF Heard
<1>4. ASSUME client'[c].shown = client[c].shown, DownSame(c),
             client'[c].pc = "exited" \/ client[c].pc # "exited"
      PROVE  Heard(c)'
  <2>1. Others(c)' = Others(c)  BY <1>4 DEF Others
  <2>2. ReadBroadcasts(c)' = ReadBroadcasts(c)  BY <1>4 DEF ReadBroadcasts, DownSame
  <2> QED  BY <1>3, <1>4, <2>1, <2>2
<1>5. CASE Idles(c) \/ Connects(c) \/ Introduces(c) \/ Writes(c) \/ Flushes(c) \/ Leaves(c)
           \/ Resigns(c)
  BY <1>4, <1>5 DEF Idles, Connects, Introduces, Writes, Flushes, Leaves, Resigns,
                    RunsOn, Running
<1>6. CASE Listens(c)
  <2>1. PICK k \in 0 .. Unread(c) : RunsOn(c) /\ Handles(c, k, k)  BY <1>6 DEF Listens
  <2>2. k \in 0 .. k  OBVIOUS
  <2>3. Others(c)' = ReadBroadcasts(c)'  BY <2>1, <2>2, HearsMore
  <2> QED  BY <2>1, <2>3 DEF Heard, RunsOn
<1>7. CASE ListensLast(c)
  <2>1. PICK k \in 0 .. Unread(c) : \E j \in 0 .. k :
          client'[c].pc = "exited" /\ Handles(c, k, j)
    BY <1>7 DEF ListensLast
  <2>2. IsPrefix(Others(c)', ReadBroadcasts(c)')  BY <2>1, HearsMore
  <2> QED  BY <2>1, <2>2 DEF Heard
<1>8. CASE Speaks(c)
  <2>1. PICK size \in Nat : client'[c].shown = Append(client[c].shown, Chat(c, size).says)
    BY <1>8 DEF Speaks
  <2>2. PICK x : x = Chat(c, size).says  OBVIOUS
  <2>3. x \in Utterance(Speaker) /\ x \in ChatLines(c)
    <3>1. Chat(c, size) \in Msg /\ client[c].typed \in Nat
      BY ClientFrames, ClientTypes, ProgramFields
    <3> QED  BY <2>2, <3>1, MsgSays DEF Chat, ChatLines
  <2>4. x \notin Utterance(Speaker) \ ChatLines(c)  BY <2>3
  <2>5. Others(c)' = Others(c)  BY <1>0, <2>1, <2>2, <2>3, <2>4, OnlyAppend DEF Others
  <2>6. ReadBroadcasts(c)' = ReadBroadcasts(c)
    BY <1>8 DEF Speaks, ReadBroadcasts, DownSame
  <2> QED  BY <1>3, <1>8, <2>5, <2>6 DEF Speaks, RunsOn, Running
<1>9. CASE IsTold(c)
  <2>1. PICK s \in Seq(Msg) : wire'[c] = wire[c] \o s  BY <1>9 DEF IsTold
  <2>2. SubSeq(wire[c] \o s, 1, taken[c]) = SubSeq(wire[c], 1, taken[c])
    <3>1. PICK w, t : w = wire[c] /\ t = taken[c]  OBVIOUS
    <3>2. SubSeq(w \o s, 1, t) = SubSeq(w, 1, t)  BY <1>0, <3>1, StartOfConcat
    <3> QED  BY <3>1, <3>2
  <2>3. ReadBroadcasts(c)' = ReadBroadcasts(c)
    BY <1>9, <2>1, <2>2 DEF IsTold, ReadBroadcasts
  <2>4. Others(c)' = Others(c)  BY <1>9 DEF Others, IsTold
  <2> QED  BY <1>3, <1>9, <2>3, <2>4 DEF IsTold
<1>10. CASE IsHeard(c) \/ IsDropped(c)
  BY <1>4, <1>10 DEF IsHeard, IsDropped
<1> QED  BY <1>5, <1>6, <1>7, <1>8, <1>9, <1>10 DEF ClientKind, ProgramKind

-----------------------------------------------------------------------------
(* What is queued, and what is watched.                                     *)
LEMMA WatchesStep ==
    ASSUME ClientTypeOK, NEW c \in Conn, Watches(c), ClientKind(c) \/ IsDropped(c)
    PROVE  Watches(c)'
<1>0. client[c].out_buffer \in Seq(Msg)  BY ClientTypes, ProgramFields
<1>1. \A m \in Msg : Append(client[c].out_buffer, m) # <<>>  BY <1>0, AppendProperties
<1>2. /\ "EPOLLOUT" \in ReadWrite /\ "EPOLLOUT" \in WriteOnly /\ "EPOLLOUT" \notin ReadOnly
  BY DEF ReadWrite, WriteOnly, ReadOnly
<1>3. CASE Idles(c)  BY <1>3 DEF Watches, Idles, OutSame, Running
<1>4. CASE Connects(c)  BY <1>4 DEF Watches, Connects
<1>5. CASE Introduces(c)
  <2>1. client'[c].out_buffer # <<>>  BY <1>1, <1>5, ClientFrames DEF Introduces
  <2> QED  BY <1>2, <1>5, <2>1 DEF Watches, Introduces
<1>6. CASE Writes(c)  BY <1>6 DEF Watches, Writes, RunsOn, Running
<1>7. CASE Flushes(c)  BY <1>2, <1>7 DEF Watches, Flushes
<1>8. CASE Leaves(c) \/ ListensLast(c)
  BY <1>8 DEF Watches, Leaves, ListensLast, Running
<1>9. CASE Listens(c)
  <2>1. RunsOn(c) /\ OutSame(c) /\ client'[c].interest = client[c].interest
        /\ client[c].state # "CONNECTING"
    BY <1>9 DEF Listens, Handles
  <2> QED  BY <2>1 DEF Watches, RunsOn, OutSame
<1>10. CASE Speaks(c)
  <2>1. client'[c].out_buffer # <<>>  BY <1>1, <1>10, ClientFrames DEF Speaks
  <2> QED  BY <1>2, <1>10, <2>1 DEF Watches, Speaks
<1>11. CASE Resigns(c)
  <2>1. client'[c].out_buffer # <<>>  BY <1>1, <1>11, ClientFrames DEF Resigns
  <2> QED  BY <1>2, <1>11, <2>1 DEF Watches, Resigns
<1>12. CASE IsTold(c) \/ IsHeard(c) \/ IsDropped(c)
  BY <1>12 DEF IsTold, IsHeard, IsDropped, Watches, Running
<1> QED
  BY <1>3, <1>4, <1>5, <1>6, <1>7, <1>8, <1>9, <1>10, <1>11, <1>12
     DEF ClientKind, ProgramKind
-----------------------------------------------------------------------------
(* The accounts.                                                            *)

(* s frames were sent, b of those still in the buffer out; arr is what the  *)
(* server has not read.                                                     *)
Balanced(s, b, out, arr, told) ==
    /\ s + Len(out) = b + Len(told)
    /\ b <= s
    /\ \A i \in 1 .. Len(out) : out[i].says = told[s - b + i]
    /\ \A i \in 1 .. Len(arr) : arr[i].says = told[s - Len(arr) + i]

LEMMA AccountsIs ==
    ASSUME NEW c
    PROVE  /\ Accounts(c) <=> (Running(c) =>
                Balanced(sent[c], client[c].bytes_written, client[c].out_buffer,
                         arrived[c], Told(c)))
           /\ Accounts(c)' <=> (Running(c)' =>
                Balanced(sent'[c], client'[c].bytes_written, client'[c].out_buffer,
                         arrived'[c], Told(c)'))
  BY DEF Accounts, Balanced

LEMMA BalancedEmpty == Balanced(0, 0, <<>>, <<>>, <<>>)
  BY EmptySeq DEF Balanced

(* A frame is queued, and what it says told.                                *)
LEMMA BalancedGrows ==
    ASSUME NEW s \in Nat, NEW b \in Nat, NEW out \in Seq(Msg), NEW arr \in Seq(Msg),
           NEW told \in Seq(Utterance(Speaker)), Balanced(s, b, out, arr, told),
           Len(arr) <= s, b <= Len(out), NEW m \in Msg
    PROVE  Balanced(s, b, Append(out, m), arr, Append(told, m.says))
<1> DEFINE o == Append(out, m)
           t == Append(told, m.says)
<1>1. /\ Len(o) = Len(out) + 1 /\ Len(out) \in Nat
      /\ \A i \in 1 .. Len(out) : o[i] = out[i]
      /\ o[Len(out) + 1] = m
  BY AppendProperties, LenProperties
<1>2. /\ Len(t) = Len(told) + 1 /\ Len(told) \in Nat
      /\ \A i \in 1 .. Len(told) : t[i] = told[i]
      /\ t[Len(told) + 1] = m.says
  <2>1. m.says \in Utterance(Speaker)  BY MsgSays
  <2> QED  BY <2>1, AppendProperties, LenProperties
<1>3. Len(arr) \in Nat  BY LenProperties
<1> HIDE DEF o, t
<1>4. s + Len(out) = b + Len(told) /\ b <= s  BY DEF Balanced
<1>5. ASSUME NEW i \in 1 .. Len(o) PROVE o[i].says = t[s - b + i]
  <2>1. CASE i = Len(out) + 1
    <3>1. s - b + i = Len(told) + 1  BY <1>1, <1>2, <1>4, <2>1
    <3> QED  BY <1>1, <1>2, <2>1, <3>1
  <2>2. CASE i # Len(out) + 1
    <3>1. i \in 1 .. Len(out) /\ s - b + i \in 1 .. Len(told)  BY <1>1, <1>2, <1>4, <2>2
    <3>2. out[i].says = told[s - b + i]  BY <3>1 DEF Balanced
    <3> QED  BY <1>1, <1>2, <3>1, <3>2
  <2> QED  BY <2>1, <2>2
<1>6. ASSUME NEW i \in 1 .. Len(arr) PROVE arr[i].says = t[s - Len(arr) + i]
  <2>1. s - Len(arr) + i \in 1 .. Len(told)  BY <1>1, <1>2, <1>3, <1>4
  <2>2. arr[i].says = told[s - Len(arr) + i]  BY DEF Balanced
  <2> QED  BY <1>2, <2>1, <2>2
<1>7. s + Len(o) = b + Len(t)  BY <1>1, <1>2, <1>4
<1> QED  BY <1>4, <1>5, <1>6, <1>7 DEF Balanced, o, t

(* k frames of the buffer are sent; they arrive, or nothing is left there.  *)
LEMMA BalancedPasses ==
    ASSUME NEW s \in Nat, NEW b \in Nat, NEW out \in Seq(Msg), NEW arr \in Seq(Msg),
           NEW told, Len(told) \in Nat, Balanced(s, b, out, arr, told),
           NEW k \in Nat, b + k <= Len(out),
           NEW new,
           \/ new = <<>>
           \/ /\ Len(new) = Len(arr) + k
              /\ \A i \in 1 .. Len(arr) : new[i] = arr[i]
              /\ \A i \in 1 .. k : new[Len(arr) + i] = out[b + i]
    PROVE  Balanced(s + k, b + k, out, new, told)
<1>1. s + Len(out) = b + Len(told) /\ b <= s  BY DEF Balanced
<1>2. Len(out) \in Nat /\ Len(arr) \in Nat  BY LenProperties
<1>3. (s + k) + Len(out) = (b + k) + Len(told)  BY <1>1, <1>2
<1>4. b + k <= s + k  BY <1>1
<1>5. (s + k) - (b + k) = s - b  OBVIOUS
<1>6. \A i \in 1 .. Len(out) : out[i].says = told[(s + k) - (b + k) + i]
  BY <1>5 DEF Balanced
<1>7. ASSUME NEW i \in 1 .. Len(new) PROVE new[i].says = told[(s + k) - Len(new) + i]
  <2>1. CASE new = <<>>  BY <1>7, <2>1, EmptySeq
  <2>2. CASE /\ Len(new) = Len(arr) + k
             /\ \A j \in 1 .. Len(arr) : new[j] = arr[j]
             /\ \A j \in 1 .. k : new[Len(arr) + j] = out[b + j]
    <3>1. (s + k) - Len(new) + i = s - Len(arr) + i  BY <1>2, <2>2
    <3>2. CASE i <= Len(arr)
      <4>1. i \in 1 .. Len(arr)  BY <1>2, <2>2, <3>2
      <4> QED  BY <2>2, <3>1, <4>1 DEF Balanced
    <3>3. CASE ~(i <= Len(arr))
      <4>1. PICK j \in 1 .. k : i = Len(arr) + j
        <5>1. i - Len(arr) \in 1 .. k /\ i = Len(arr) + (i - Len(arr))
          BY <1>2, <2>2, <3>3
        <5> QED  BY <5>1
      <4>2. new[i] = out[b + j]  BY <2>2, <4>1
      <4>3. b + j \in 1 .. Len(out)  BY <1>2
      <4>4. out[b + j].says = told[s - b + (b + j)]  BY <4>3 DEF Balanced
      <4>5. s - b + (b + j) = s - Len(arr) + i  BY <1>2, <4>1
      <4> QED  BY <3>1, <4>2, <4>4, <4>5
    <3> QED  BY <3>2, <3>3
  <2> QED  BY <2>1, <2>2
<1> QED  BY <1>3, <1>4, <1>6, <1>7 DEF Balanced

(* The buffer is empty once all of it is sent.                              *)
LEMMA BalancedFlushes ==
    ASSUME NEW s \in Nat, NEW out \in Seq(Msg), NEW arr,
           NEW told \in Seq(Utterance(Speaker)), Balanced(s, Len(out), out, arr, told)
    PROVE  Balanced(s, 0, <<>>, arr, told)
<1>1. Len(out) \in Nat /\ Len(told) \in Nat /\ Len(<<>>) = 0
  BY LenProperties, EmptySeq
<1>2. s = Len(told)  BY <1>1 DEF Balanced
<1>3. s + Len(<<>>) = 0 + Len(told) /\ 0 <= s  BY <1>1, <1>2
<1>4. \A i \in 1 .. Len(<<>>) : <<>>[i].says = told[s - 0 + i]  BY <1>1
<1> QED  BY <1>3, <1>4 DEF Balanced

(* The server reads k frames, or goes.                                      *)
LEMMA BalancedHears ==
    ASSUME NEW s \in Nat, NEW b, NEW out, NEW arr \in Seq(Msg), NEW told,
           Balanced(s, b, out, arr, told)
    PROVE  /\ Balanced(s, b, out, <<>>, told)
           /\ \A k \in 0 .. Len(arr) :
                Balanced(s, b, out, SubSeq(arr, k + 1, Len(arr)), told)
<1>1. Balanced(s, b, out, <<>>, told)  BY EmptySeq DEF Balanced
<1>2. ASSUME NEW k \in 0 .. Len(arr)
      PROVE  Balanced(s, b, out, SubSeq(arr, k + 1, Len(arr)), told)
  <2>1. PICK l : l = SubSeq(arr, k + 1, Len(arr))  OBVIOUS
  <2>2. /\ Len(arr) \in Nat /\ Len(l) = Len(arr) - k
        /\ \A i \in 1 .. Len(arr) - k : l[i] = arr[k + i]
    BY <2>1, LeftShape, LenProperties DEF Left
  <2>3. ASSUME NEW i \in 1 .. Len(l) PROVE l[i].says = told[s - Len(l) + i]
    <3>1. k + i \in 1 .. Len(arr) /\ i \in 1 .. Len(arr) - k  BY <2>2
    <3>2. arr[k + i].says = told[s - Len(arr) + (k + i)]  BY <3>1 DEF Balanced
    <3>3. s - Len(arr) + (k + i) = s - Len(l) + i  BY <2>2
    <3> QED  BY <2>2, <3>1, <3>2, <3>3
  <2> QED  BY <2>1, <2>3 DEF Balanced
<1> QED  BY <1>1, <1>2

LEMMA AccountsStep ==
    ASSUME ClientTypeOK, NEW c \in Conn, Bounds(c), Foreign(c), Stage(c), Accounts(c),
           Heard(c), ClientKind(c) \/ IsDropped(c)
    PROVE  Accounts(c)'
<1>0. PICK s, b, out, arr, told :
        /\ s = sent[c] /\ b = client[c].bytes_written /\ out = client[c].out_buffer
        /\ arr = arrived[c] /\ told = Told(c)
  OBVIOUS
<1>1. /\ s \in Nat /\ b \in Nat /\ out \in Seq(Msg) /\ arr \in Seq(Msg)
      /\ Len(out) \in Nat /\ Len(arr) \in Nat
      /\ told \in Seq(Utterance(Speaker))
  BY <1>0, ClientTypes, ProgramFields, ToldType
<1>2. b <= Len(out) /\ Len(arr) <= s  BY <1>0 DEF Bounds
<1>3. Running(c) => Balanced(s, b, out, arr, told)  BY <1>0, AccountsIs
<1>4. SUFFICES ASSUME Running(c)'
               PROVE  Balanced(sent'[c], client'[c].bytes_written, client'[c].out_buffer,
                               arrived'[c], Told(c)')
  BY AccountsIs
<1>5. ASSUME client'[c].shown = client[c].shown PROVE Own(c)' = Own(c)
  BY <1>5 DEF Own
<1>6. ASSUME Running(c), UpSame(c), OutSame(c), Told(c)' = Told(c)
      PROVE  Accounts(c)'
  BY <1>0, <1>3, <1>6, AccountsIs DEF UpSame, OutSame
<1>7. CASE Idles(c)
  <2>1. Running(c)  BY <1>4, <1>7 DEF Idles, Running
  <2>2. Told(c)' = Told(c)  BY <1>5, <1>7, ToldSame DEF Idles
  <2> QED  BY <1>4, <1>6, <1>7, <2>1, <2>2, AccountsIs DEF Idles
<1>8. ASSUME client[c].pc = "start" \/ (Running(c) /\ client[c].state = "CONNECTING")
      PROVE  s = 0 /\ b = 0 /\ out = <<>> /\ arr = <<>>
  <2>1. s = 0 /\ b = 0 /\ out = <<>>  BY <1>0, <1>8 DEF Stage
  <2>2. Len(arr) = 0  BY <1>1, <1>2, <2>1
  <2> QED  BY <1>1, <2>1, <2>2, EmptySeq
<1>9. CASE Connects(c)
  <2>1. s = 0 /\ b = 0 /\ out = <<>> /\ arr = <<>>  BY <1>8, <1>9 DEF Connects
  <2>2. Told(c)' = <<>>  BY <1>9, ToldIs DEF Connects
  <2> QED  BY <1>0, <1>9, <2>1, <2>2, BalancedEmpty DEF Connects, UpSame, OutSame
<1>10. CASE Introduces(c)
  <2>1. s = 0 /\ b = 0 /\ out = <<>> /\ arr = <<>>  BY <1>8, <1>10 DEF Introduces
  <2>2. Told(c)' = Append(<<>>, Hello(c).says)  BY <1>10, ToldGrows
  <2>3. PICK m \in Msg : m = Hello(c)  BY ClientFrames
  <2>4. Balanced(0, 0, Append(<<>>, m), <<>>, Append(<<>>, m.says))
    <3>1. <<>> \in Seq(Msg) /\ <<>> \in Seq(Utterance(Speaker)) /\ Len(<<>>) = 0
      BY EmptySeq
    <3>2. 0 \in Nat /\ Len(<<>>) <= 0 /\ 0 <= Len(<<>>)  BY <3>1
    <3> QED  BY <3>1, <3>2, BalancedEmpty, BalancedGrows
  <2> QED  BY <1>0, <1>10, <2>1, <2>2, <2>3, <2>4 DEF Introduces, UpSame
<1>11. ASSUME Running(c), NEW k \in 0 .. Pending(c), Passes(c, k)
       PROVE  /\ k \in Nat /\ sent'[c] = s + k
              /\ Balanced(s + k, b + k, out, arrived'[c], told)
  <2>1. /\ k \in Nat /\ b + k <= Len(out)
        /\ \/ arrived'[c] = <<>>
           \/ /\ Len(arrived'[c]) = Len(arr) + k
              /\ \A i \in 1 .. Len(arr) : arrived'[c][i] = arr[i]
              /\ \A i \in 1 .. k : arrived'[c][Len(arr) + i] = out[b + i]
    BY <1>0, <1>11, PassesBounds
  <2>2. PICK new : new = arrived'[c]  OBVIOUS
  <2>3. Balanced(s, b, out, arr, told)  BY <1>3, <1>11
  <2>4. Len(told) \in Nat  BY <1>1, LenProperties
  <2>5. Balanced(s + k, b + k, out, new, told)
    BY <1>1, <2>1, <2>2, <2>3, <2>4, BalancedPasses
  <2> QED  BY <1>0, <1>11, <2>1, <2>2, <2>5 DEF Passes
<1>12. CASE Writes(c)
  <2>1. PICK k \in 0 .. Pending(c) :
          Passes(c, k) /\ client'[c].bytes_written = client[c].bytes_written + k
    BY <1>12, ClientTypes DEF Writes, Pending
  <2>2. Told(c)' = Told(c)  BY <1>5, <1>12, ToldSame DEF Writes
  <2>3. sent'[c] = s + k /\ Balanced(s + k, b + k, out, arrived'[c], told)
    BY <1>11, <1>12, <2>1 DEF Writes, RunsOn
  <2> QED  BY <1>0, <1>12, <2>1, <2>2, <2>3 DEF Writes
<1>13. CASE Flushes(c)
  <2>1. PICK k : k = Pending(c)  OBVIOUS
  <2>2. k \in 0 .. Pending(c) /\ b + k = Len(out) /\ s + k \in Nat
    <3>1. k = Len(out) - b  BY <1>0, <2>1 DEF Pending
    <3>2. k \in Nat /\ b + k = Len(out) /\ s + k \in Nat  BY <1>1, <1>2, <3>1
    <3>3. k \in 0 .. k  BY <3>2
    <3> QED  BY <2>1, <3>2, <3>3
  <2>3. sent'[c] = s + k /\ Balanced(s + k, Len(out), out, arrived'[c], told)
    BY <1>11, <1>13, <2>1, <2>2 DEF Flushes, RunsOn
  <2>4. Balanced(s + k, 0, <<>>, arrived'[c], told)
    BY <1>1, <2>2, <2>3, BalancedFlushes
  <2>5. Told(c)' = Told(c)
    BY <1>5, <1>13, ToldSame DEF Flushes, Greeted
  <2> QED  BY <1>0, <1>13, <2>3, <2>4, <2>5 DEF Flushes
<1>14. CASE Leaves(c) \/ ListensLast(c)
  BY <1>4, <1>14 DEF Leaves, ListensLast, Running
<1>15. CASE Listens(c)
  <2>1. PICK k \in 0 .. Unread(c) :
          /\ RunsOn(c) /\ Handles(c, k, k)
          /\ client'[c].state = IF k > 0 THEN "ACTIVE" ELSE client[c].state
          /\ client'[c].quitting = client[c].quitting
    BY <1>15 DEF Listens
  <2>2. k \in 0 .. k  OBVIOUS
  <2>3. Own(c)' = Own(c)  BY <2>1, <2>2, HearsMore
  <2>4. client[c].state # "CONNECTING" /\ client'[c].state # "CONNECTING"
    BY <2>1 DEF Handles
  <2>5. Told(c)' = Told(c)  BY <2>1, <2>3, <2>4, ToldSame
  <2> QED  BY <1>4, <1>6, <2>1, <2>5, AccountsIs DEF Handles
<1>16. ASSUME NEW m \in Msg, Running(c), UpSame(c),
              client'[c].out_buffer = Append(client[c].out_buffer, m),
              client'[c].bytes_written = client[c].bytes_written,
              Told(c)' = Append(Told(c), m.says)
       PROVE  Balanced(sent'[c], client'[c].bytes_written, client'[c].out_buffer,
                       arrived'[c], Told(c)')
  <2>1. Balanced(s, b, out, arr, told)  BY <1>3, <1>16
  <2>2. Balanced(s, b, Append(out, m), arr, Append(told, m.says))
    BY <1>1, <1>2, <2>1, BalancedGrows
  <2> QED  BY <1>0, <1>16, <2>2 DEF UpSame
<1>17. CASE Speaks(c)
  <2>1. PICK size \in Nat :
          /\ client'[c].out_buffer = Append(client[c].out_buffer, Chat(c, size))
          /\ client'[c].shown = Append(client[c].shown, Chat(c, size).says)
    BY <1>17 DEF Speaks
  <2>2. Told(c)' = Append(Told(c), Chat(c, size).says)  BY <1>17, <2>1, ToldGrows
  <2>3. PICK m \in Msg : m = Chat(c, size)  BY ClientFrames
  <2> QED  BY <1>16, <1>17, <2>1, <2>2, <2>3 DEF Speaks, RunsOn
<1>18. CASE Resigns(c)
  <2>2. Told(c)' = Append(Told(c), Goodbye(c).says)  BY <1>18, ToldGrows
  <2>3. PICK m \in Msg : m = Goodbye(c)  BY ClientFrames
  <2> QED  BY <1>16, <1>18, <2>2, <2>3 DEF Resigns, RunsOn
<1>19. ASSUME client'[c] = client[c]
       PROVE  Running(c) /\ Told(c)' = Told(c)
  BY <1>4, <1>5, <1>19, ToldSame DEF Running
<1>20. CASE IsTold(c)
  BY <1>4, <1>6, <1>19, <1>20, AccountsIs DEF IsTold, OutSame
<1>21. CASE IsHeard(c)
  <2>1. PICK k \in 0 .. Len(arr) : arrived'[c] = SubSeq(arr, k + 1, Len(arr))
    BY <1>0, <1>21 DEF IsHeard
  <2>2. Balanced(s, b, out, SubSeq(arr, k + 1, Len(arr)), told)
    BY <1>1, <1>3, <1>19, <1>21, BalancedHears DEF IsHeard
  <2> QED  BY <1>0, <1>19, <1>21, <2>1, <2>2 DEF IsHeard
<1>22. CASE IsDropped(c)
  <2>1. Balanced(s, b, out, <<>>, told)
    BY <1>1, <1>3, <1>19, <1>22, BalancedHears DEF IsDropped
  <2> QED  BY <1>0, <1>19, <1>22, <2>1 DEF IsDropped
<1> QED
  BY <1>7, <1>9, <1>10, <1>12, <1>13, <1>14, <1>15, <1>17, <1>18, <1>20, <1>21, <1>22
     DEF ClientKind, ProgramKind
-----------------------------------------------------------------------------
(* The invariant holds, and says what is promised.                          *)
LEMMA ClientInvInit == Init => ClientInv
<1> SUFFICES ASSUME Init PROVE ClientInv  OBVIOUS
<1>1. ClientTypeOK  BY ClientTypeInit
<1>2. SUFFICES ASSUME NEW c \in Conn
               PROVE  Bounds(c) /\ Foreign(c) /\ Stage(c) /\ Accounts(c) /\ Watches(c)
                      /\ Heard(c)
  BY <1>1 DEF ClientInv
<1>3. /\ arrived[c] = <<>> /\ wire[c] = <<>> /\ taken[c] = 0 /\ sent[c] = 0
  BY DEF Init, SocketsInit
<1>4. PICK names \in [Conn -> NameSizes] :
        client = [d \in Conn |->
           [pc |-> "start", state |-> "NONE", quitting |-> FALSE, name |-> names[d],
            out_buffer |-> <<>>, bytes_written |-> 0, interest |-> {},
            batch |-> {}, shown |-> <<>>, typed |-> 0]]
  BY DEF Init, ClientInit
<1>5. /\ client[c].pc = "start" /\ client[c].state = "NONE" /\ ~client[c].quitting
      /\ client[c].out_buffer = <<>> /\ client[c].bytes_written = 0
      /\ client[c].shown = <<>>
  BY <1>4
<1>6. ~Running(c)  BY <1>5 DEF Running
<1>7. Len(<<>>) = 0 /\ <<>> \in Seq(Msg)  BY EmptySeq
<1>8. Bounds(c)  BY <1>3, <1>5, <1>7 DEF Bounds
<1>9. Foreign(c)  BY <1>3, <1>7 DEF Foreign
<1>10. Stage(c)  BY <1>3, <1>5, <1>6 DEF Stage
<1>11. Accounts(c) /\ Watches(c)  BY <1>6 DEF Accounts, Watches
<1>12. Heard(c)
  <2>1. Others(c) = <<>>  BY <1>5, OnlyEmpty DEF Others
  <2>2. ReadBroadcasts(c) = <<>>
    <3>1. SubSeq(wire[c], 1, taken[c]) = <<>>  BY <1>3, SubSeqEmpty
    <3>2. Only(<<>>, Broadcasts) = <<>>  BY OnlyEmpty
    <3>3. Says(<<>>) \in Seq(Utterance(Speaker)) /\ Len(Says(<<>>)) = Len(<<>>)
      BY <1>7, MsgSays, SaysType
    <3> QED  BY <1>7, <3>1, <3>2, <3>3, EmptySeq DEF ReadBroadcasts
  <2> QED  BY <1>5, <2>1, <2>2 DEF Heard
<1> QED  BY <1>8, <1>9, <1>10, <1>11, <1>12

(* It is kept by whatever happens to each connection, one step or many.     *)
Keeps(c) == (ClientKind(c) /\ (Linked(c) => Linked(c)')) \/ IsDropped(c)

LEMMA ClientInvKept ==
    ASSUME ClientInv, ClientTypeOK', \A c \in Conn : Keeps(c)
    PROVE  ClientInv'
<1>1. SUFFICES ASSUME NEW c \in Conn
               PROVE  /\ Bounds(c)' /\ Foreign(c)' /\ Stage(c)' /\ Accounts(c)'
                      /\ Watches(c)' /\ Heard(c)'
  BY DEF ClientInv
<1>2. /\ ClientTypeOK /\ Bounds(c) /\ Foreign(c) /\ Stage(c) /\ Accounts(c)
      /\ Watches(c) /\ Heard(c)
  BY DEF ClientInv
<1>3. Keeps(c) /\ (ClientKind(c) \/ IsDropped(c))  BY DEF Keeps
<1>4. Bounds(c)'
  <2>1. CASE ClientKind(c) /\ (Linked(c) => Linked(c)')
    BY <1>2, <2>1, BoundsStep
  <2>2. CASE IsDropped(c)
    <3>1. sent[c] \in Nat  BY <1>2, ClientTypes
    <3> QED  BY <1>2, <2>2, <3>1, EmptySeq DEF IsDropped, Bounds, DownSame
  <2> QED  BY <1>3, <2>1, <2>2 DEF Keeps
<1>5. Foreign(c)'  BY <1>2, <1>3, ForeignStep
<1>6. Stage(c)'  BY <1>2, <1>3, StageStep
<1>7. Accounts(c)'  BY <1>2, <1>3, AccountsStep
<1>8. Watches(c)'  BY <1>2, <1>3, WatchesStep
<1>9. Heard(c)'  BY <1>2, <1>3, HeardStep
<1> QED  BY <1>4, <1>5, <1>6, <1>7, <1>8, <1>9

LEMMA IdlesWhenSame ==
    ASSUME NEW d, client'[d] = client[d], UpSame(d), DownSame(d), tcp'[d] = tcp[d]
    PROVE  Keeps(d)
  BY DEF Keeps, ClientKind, ProgramKind, Idles, OutSame, Linked

LEMMA ClientInvStep == ClientInv /\ [Next]_vars => ClientInv'
<1> SUFFICES ASSUME ClientInv, [Next]_vars PROVE ClientInv'  OBVIOUS
<1>1. ClientTypeOK /\ \A d \in Conn : Bounds(d)  BY DEF ClientInv
<1>2. ClientTypeOK'  BY <1>1, ClientTypeStep
<1>3. CASE UNCHANGED vars
  <2>1. ASSUME NEW d \in Conn
        PROVE  client'[d] = client[d] /\ UpSame(d) /\ DownSame(d) /\ tcp'[d] = tcp[d]
    BY <1>3 DEF vars, sockVars, clientVars, UpSame, DownSame
  <2>2. \A d \in Conn : Keeps(d)  BY <2>1, IdlesWhenSame
  <2> QED  BY <1>2, <2>2, ClientInvKept
<1>4. ASSUME NEW c \in Conn, ClientNext(c) \/ NetworkNext(c) \/ ServerNext(c)
      PROVE  ClientInv'
  <2>1. ClientStep(c)  BY <1>1, <1>4, ClientKinds
  <2>2. \A d \in Conn \ {c} : Keeps(d)  BY <2>1, IdlesWhenSame DEF ClientStep, Alone
  <2>3. Keeps(c)  BY <2>1 DEF ClientStep, Keeps
  <2>4. \A d \in Conn : Keeps(d)  BY <2>2, <2>3
  <2> QED  BY <1>2, <2>4, ClientInvKept
<1> QED  BY <1>3, <1>4 DEF Next

LEMMA NothingIsLost == ClientInv => NothingLostOrRepeated
<1> SUFFICES ASSUME ClientInv, NEW c \in Conn, Running(c)
             PROVE  Says(arrived[c] \o Unsent(c))
                      = SubSeq(Told(c), sent[c] - Len(arrived[c]) + 1, Len(Told(c)))
  BY DEF NothingLostOrRepeated
<1> DEFINE U == Utterance(Speaker)
<1>1. PICK s, b, out, arr, told :
        /\ s = sent[c] /\ b = client[c].bytes_written /\ out = client[c].out_buffer
        /\ arr = arrived[c] /\ told = Told(c)
  OBVIOUS
<1>2. ClientTypeOK /\ Bounds(c) /\ Balanced(s, b, out, arr, told)
  BY <1>1, AccountsIs DEF ClientInv
<1>3. /\ s \in Nat /\ b \in Nat /\ out \in Seq(Msg) /\ arr \in Seq(Msg)
      /\ Len(out) \in Nat /\ Len(arr) \in Nat
      /\ told \in Seq(U) /\ Len(told) \in Nat
  BY <1>1, <1>2, ClientTypes, ProgramFields, ToldType
<1>4. b <= Len(out) /\ Len(arr) <= s /\ s + Len(out) = b + Len(told) /\ b <= s
  BY <1>1, <1>2 DEF Bounds, Balanced
<1> DEFINE rest == SubSeq(out, b + 1, Len(out))
           all  == arr \o rest
           said == Says(all)
           last == SubSeq(told, s - Len(arr) + 1, Len(told))
<1>5. rest \in Seq(Msg) /\ Len(rest) = Len(out) - b
      /\ \A i \in 1 .. Len(out) - b : rest[i] = out[b + i]
  <2>1. PICK k \in Nat : k = Len(out) - b /\ b + k = Len(out) /\ b + k <= Len(out)
    <3>1. Len(out) - b \in Nat  BY <1>3, <1>4
    <3> QED  BY <1>3, <3>1
  <2>2. /\ SubSeq(out, b + 1, b + k) \in Seq(Msg) /\ Len(SubSeq(out, b + 1, b + k)) = k
        /\ \A i \in 1 .. k : SubSeq(out, b + 1, b + k)[i] = out[b + i]
    BY <1>3, <2>1, PieceShape
  <2> QED  BY <2>1, <2>2
<1>6. last \in Seq(U) /\ Len(last) = Len(told) - (s - Len(arr))
      /\ \A i \in 1 .. Len(told) - (s - Len(arr)) : last[i] = told[s - Len(arr) + i]
  <2>1. PICK m \in Nat, k \in Nat :
          m = s - Len(arr) /\ k = Len(told) - m /\ m + k = Len(told) /\ m + k <= Len(told)
    <3>1. PICK m \in Nat : m = s - Len(arr) /\ m <= s
      <4>1. s - Len(arr) \in Nat /\ s - Len(arr) <= s  BY <1>3, <1>4
      <4> QED  BY <4>1
    <3>2. s <= Len(told)  BY <1>3, <1>4
    <3>3. PICK k \in Nat : k = Len(told) - m /\ m + k = Len(told)
      <4>1. Len(told) - m \in Nat  BY <1>3, <3>1, <3>2
      <4>2. m + (Len(told) - m) = Len(told)  BY <1>3
      <4> QED  BY <4>1, <4>2
    <3>4. m + k <= Len(told)  BY <1>3, <3>3
    <3> QED  BY <3>1, <3>3, <3>4
  <2>2. /\ SubSeq(told, m + 1, m + k) \in Seq(U) /\ Len(SubSeq(told, m + 1, m + k)) = k
        /\ \A i \in 1 .. k : SubSeq(told, m + 1, m + k)[i] = told[m + i]
    <3> HIDE DEF U
    <3> QED  BY <1>3, <2>1, PieceShape
  <2> QED  BY <2>1, <2>2
<1> HIDE DEF rest, last, U
<1>7. all \in Seq(Msg) /\ Len(all) = Len(arr) + Len(rest)
      /\ \A i \in 1 .. Len(arr) + Len(rest) :
            all[i] = IF i <= Len(arr) THEN arr[i] ELSE rest[i - Len(arr)]
  BY <1>3, <1>5, ConcatProperties
<1> HIDE DEF all
<1>8. said \in Seq(U) /\ Len(said) = Len(all) /\ \A i \in 1 .. Len(all) : said[i] = all[i].says
  BY <1>7, MsgSays, SaysType DEF U
<1> HIDE DEF said
<1>9. Len(said) = Len(last)
  <2>1. Len(said) = Len(arr) + (Len(out) - b)  BY <1>5, <1>7, <1>8
  <2>2. Len(last) = Len(told) - (s - Len(arr))  BY <1>6
  <2>3. \A v, x, y, z, u \in Nat : x + y = z + u => v + (y - z) = u - (x - v)  OBVIOUS
  <2>4. Len(arr) + (Len(out) - b) = Len(told) - (s - Len(arr))  BY <1>3, <1>4, <2>3, SMTT(30)
  <2> QED  BY <2>1, <2>2, <2>4
<1>10. ASSUME NEW i \in 1 .. Len(said) PROVE said[i] = last[i]
  <2>1. i \in 1 .. Len(all) /\ said[i] = all[i].says  BY <1>8
  <2>2. last[i] = told[s - Len(arr) + i]  BY <1>3, <1>6, <1>9
  <2>3. CASE i <= Len(arr)
    <3>1. i \in 1 .. Len(arr) /\ i \in 1 .. Len(arr) + Len(rest)
      BY <1>3, <1>5, <1>7, <2>1, <2>3
    <3>2. all[i] = arr[i]  BY <1>7, <2>3, <3>1
    <3>3. arr[i].says = told[s - Len(arr) + i]  BY <1>2, <3>1 DEF Balanced
    <3> QED  BY <2>1, <2>2, <3>2, <3>3
  <2>4. CASE ~(i <= Len(arr))
    <3>1. PICK j \in 1 .. Len(out) - b : i = Len(arr) + j /\ i - Len(arr) = j
      <4>1. i - Len(arr) \in 1 .. Len(out) - b /\ i = Len(arr) + (i - Len(arr))
        BY <1>3, <1>4, <1>5, <1>7, <2>1, <2>4
      <4> QED  BY <4>1
    <3>2. i \in 1 .. Len(arr) + Len(rest)  BY <1>7, <2>1
    <3>3. all[i] = rest[j]  BY <1>7, <2>4, <3>1, <3>2
    <3>4. rest[j] = out[b + j]  BY <1>5
    <3>5. b + j \in 1 .. Len(out)  BY <1>3, <1>4
    <3>6. out[b + j].says = told[s - b + (b + j)]  BY <1>2, <3>5 DEF Balanced
    <3>7. s - b + (b + j) = s - Len(arr) + i  BY <1>3, <3>1
    <3> QED  BY <2>1, <2>2, <3>3, <3>4, <3>6, <3>7
  <2> QED  BY <2>3, <2>4
<1>11. said = last  BY <1>6, <1>8, <1>9, <1>10, SeqEqual
<1> QED  BY <1>1, <1>11 DEF said, last, all, rest, Unsent

LEMMA ClientPromises ==
    ClientInv => ShowsWhatItReads /\ WriteInterest /\ HelloBeforeChat
<1> SUFFICES ASSUME ClientInv PROVE ShowsWhatItReads /\ WriteInterest /\ HelloBeforeChat
  OBVIOUS
<1>1. ASSUME NEW c \in Conn
      PROVE  IF Running(c) THEN Others(c) = ReadBroadcasts(c)
             ELSE IsPrefix(Others(c), ReadBroadcasts(c))
  <2>1. ClientTypeOK /\ Heard(c)  BY DEF ClientInv
  <2>2. Others(c) \in Seq(Utterance(Speaker))
    BY <2>1, ClientTypes, ProgramFields, OnlyType DEF Others
  <2>3. Len(Others(c)) <= Len(Others(c))  BY <2>2, LenProperties
  <2>4. IsPrefix(Others(c), Others(c))  BY <2>3 DEF IsPrefix
  <2> QED  BY <2>1, <2>4 DEF Heard, Running
<1>2. ShowsWhatItReads  BY <1>1 DEF ShowsWhatItReads
<1>3. WriteInterest  BY DEF ClientInv, Watches, WriteInterest
<1>4. HelloBeforeChat  BY DEF ClientInv, Stage, Greets, HelloBeforeChat
<1> QED  BY <1>2, <1>3, <1>4

LEMMA ClientInvariant == Spec => []ClientInv
<1> QED  BY ClientInvInit, ClientInvStep, PTL DEF Spec

-----------------------------------------------------------------------------
(* The client's own steps, as the program at the other end sees them.       *)

(* What becomes of the ends of a connection and of the program's name.      *)
Ends(c) ==
    /\ client'[c].name = client[c].name
    /\ tcp'[c] # tcp[c] =>
         /\ tcp[c] = "none" /\ tcp'[c] = "queued" /\ UpSame(c)
         /\ client[c].pc = "start" \/ (Running(c) /\ client[c].state = "CONNECTING")
    /\ (fin'[c] = fin[c] /\ rst'[c] = rst[c]) \/ client'[c].pc = "exited"
    /\ hangup'[c] \in {hangup[c], "rst"}
    /\ \A d \in Conn \ {c} : fin'[d] = fin[d] /\ rst'[d] = rst[d] /\ hangup'[d] = hangup[d]

LEMMA LeaveEnds ==
    ASSUME ClientTypeOK, NEW c \in Conn, NEW st, Leave(c, st)
    PROVE  client'[c].pc = "exited" /\ client'[c].name = client[c].name
  BY DEF Leave, ClientTypeOK, Program

LEMMA CloseEndEnds ==
    ASSUME ClientTypeOK, NEW c \in Conn, NEW n, CloseEnd(c, n)
    PROVE  \A d \in Conn \ {c} : fin'[d] = fin[d] /\ rst'[d] = rst[d]
  BY DEF CloseEnd, ClientTypeOK, SocketsTypeOK

LEMMA QueueHelloEnds ==
    ASSUME ClientTypeOK, NEW c \in Conn, NEW b, QueueHello(c, b)
    PROVE  client'[c].name = client[c].name
<1>1. client'[c] = [client[c] EXCEPT !.pc = IF b = {} THEN "wait" ELSE "dispatch",
                                     !.batch = b, !.state = "SENDING_CLIENT_HELLO",
                                     !.out_buffer = Append(@, Hello(c)),
                                     !.interest = WriteOnly]
  BY DEF QueueHello, ClientTypeOK
<1> QED  BY <1>1, ClientTypes DEF Program

LEMMA ConnectEnds ==
    ASSUME ClientTypeOK, NEW c \in Conn, ConnectNext(c)
    PROVE  client[c].pc # "exited" /\ Ends(c)
<1>1. CASE ConnectLater(c)
  <2>1. client'[c].name = client[c].name
    BY <1>1, ClientTypes DEF ConnectLater, ClientTypeOK, Program
  <2> QED  BY <1>1, <2>1 DEF ConnectLater, Starting, Ends, sockVars
<1>2. CASE ConnectNow(c)
  <2>1. /\ client[c].pc = "start" /\ tcp[c] = "none"
        /\ tcp' = [tcp EXCEPT ![c] = "queued"]
        /\ UNCHANGED <<rst, hangup>> /\ UpSame(c)
    BY <1>2 DEF ConnectNow, Starting, UpSame
  <2>2. tcp'[c] = "queued"  BY <2>1 DEF ClientTypeOK, SocketsTypeOK
  <2>3. CASE protocol_payload_length_is_legal(client[c].name)
    <3>1. QueueHello(c, {}) /\ fin' = fin  BY <1>2, <2>3 DEF ConnectNow
    <3> QED  BY <2>1, <2>2, <3>1, QueueHelloEnds DEF Ends
  <2>4. CASE ~protocol_payload_length_is_legal(client[c].name)
    <3>1. Leave(c, "CONNECTION_ERROR") /\ fin' = [fin EXCEPT ![c] = TRUE]
      BY <1>2, <2>4 DEF ConnectNow
    <3>2. \A d \in Conn \ {c} : fin'[d] = fin[d]  BY <3>1 DEF ClientTypeOK, SocketsTypeOK
    <3> QED  BY <2>1, <2>2, <3>1, <3>2, LeaveEnds DEF Ends
  <2> QED  BY <2>3, <2>4
<1>3. CASE ConnectFails(c)
  BY <1>3, LeaveEnds DEF ConnectFails, Starting, Ends, sockVars
<1> QED  BY <1>1, <1>2, <1>3 DEF ConnectNext

LEMMA WaitEnds ==
    ASSUME ClientTypeOK, NEW c \in Conn, NEW e, WaitForEvents(c) \/ SkipEvent(c, e)
    PROVE  client[c].pc # "exited" /\ Ends(c)
<1>1. client[c].pc # "exited" /\ UNCHANGED <<sockVars, hangup>>
  BY DEF WaitForEvents, SkipEvent, Dispatched
<1>2. client'[c].name = client[c].name
  <2>1. CASE WaitForEvents(c)
    <3>1. PICK ready : client' = [client EXCEPT ![c].pc = "dispatch", ![c].batch = ready]
      BY <2>1 DEF WaitForEvents
    <3> QED  BY <3>1, ClientTypes DEF ClientTypeOK, Program
  <2>2. CASE SkipEvent(c, e)
    BY <2>2, ClientTypes DEF SkipEvent, ClientTypeOK, Program
  <2> QED  BY <2>1, <2>2
<1> QED  BY <1>1, <1>2 DEF Ends, sockVars

LEMMA CheckEnds ==
    ASSUME ClientTypeOK, NEW c \in Conn, NEW e,
           ConnectionRefused(c, e) \/ ConnectionMade(c, e)
    PROVE  client[c].pc # "exited" /\ Ends(c)
<1>1. client[c].pc # "exited" /\ UNCHANGED <<tcp, hangup>>
  BY DEF ConnectionRefused, ConnectionMade, CheckConnection, Dispatched
<1>2. CASE ConnectionRefused(c, e)
  BY <1>1, <1>2, LeaveEnds, CloseEndEnds DEF ConnectionRefused, Ends
<1>3. CASE ConnectionMade(c, e)
  BY <1>1, <1>3, QueueHelloEnds DEF ConnectionMade, Ends
<1> QED  BY <1>2, <1>3

LEMMA SendsEnds ==
    ASSUME ClientTypeOK, NEW c \in Conn, NEW k, Sends(c, k)
    PROVE  /\ hangup'[c] \in {hangup[c], "rst"}
           /\ \A d \in Conn \ {c} : hangup'[d] = hangup[d]
  BY DEF Sends, ClientTypeOK

LEMMA SendEnds ==
    ASSUME ClientTypeOK, NEW c \in Conn, NEW e, SendNext(c, e)
    PROVE  client[c].pc # "exited" /\ Ends(c)
<1>0. client[c] \in Program  BY ClientTypes
<1>1. client[c].pc # "exited" /\ UNCHANGED tcp
  BY DEF SendNext, SendFails, SendPartial, SendDone, SendGoodbye, SendAll, SendEvent, Dispatched
<1>2. CASE SendFails(c, e)
  BY <1>1, <1>2, LeaveEnds, CloseEndEnds DEF SendFails, Ends
<1>3. CASE SendPartial(c, e)
  <2>1. PICK k :
          /\ Sends(c, k)
          /\ client' = [client EXCEPT
               ![c] = [Written(@, k) EXCEPT !.pc = After(c, e), !.batch = Rest(c, e)]]
    BY <1>3 DEF SendPartial
  <2>2. client'[c].name = client[c].name
    BY <1>0, <2>1 DEF Written, ClientTypeOK, Program
  <2> QED  BY <1>1, <1>3, <2>1, <2>2, SendsEnds DEF SendPartial, Ends
<1>4. CASE SendDone(c, e)
  <2>1. client'[c] = [Flushed(client[c]) EXCEPT !.pc = After(c, e), !.batch = Rest(c, e),
                                   !.interest = ReadOnly, !.state = Greeted(client[c].state)]
    BY <1>4 DEF SendDone, ClientTypeOK
  <2>2. client'[c].name = client[c].name  BY <1>0, <2>1 DEF Flushed, Program
  <2> QED  BY <1>1, <1>4, <2>2, SendsEnds DEF SendDone, SendAll, Ends
<1>5. CASE SendGoodbye(c, e)
  <2>1. client'[c] = [Flushed(client[c]) EXCEPT !.pc = "exited", !.batch = {}]
    BY <1>5 DEF SendGoodbye, ClientTypeOK
  <2>2. client'[c].name = client[c].name /\ client'[c].pc = "exited"
    BY <1>0, <2>1 DEF Flushed, Program
  <2>3. \A d \in Conn \ {c} : fin'[d] = fin[d] /\ rst'[d] = rst[d]
    BY <1>5 DEF SendGoodbye, ClientTypeOK, SocketsTypeOK
  <2> QED  BY <1>1, <1>5, <2>2, <2>3, SendsEnds DEF SendGoodbye, SendAll, Ends
<1> QED  BY <1>2, <1>3, <1>4, <1>5 DEF SendNext

LEMMA RecvEnds ==
    ASSUME ClientTypeOK, NEW c \in Conn, NEW e, ReadNext(c, e)
    PROVE  client[c].pc # "exited" /\ Ends(c)
<1>0. client[c] \in Program  BY ClientTypes
<1>1. client[c].pc # "exited" /\ UNCHANGED <<tcp, hangup>>
  BY DEF ReadNext, ReadFails, ReadFrames, ReadEnds, ReadEvent, Dispatched
<1>2. CASE ReadFails(c, e)
  BY <1>1, <1>2, LeaveEnds, CloseEndEnds DEF ReadFails, Ends
<1>3. CASE ReadFrames(c, e)
  <2>1. PICK k :
          client' = [client EXCEPT
              ![c].pc = After(c, e), ![c].batch = Rest(c, e),
              ![c].state = IF k > 0 THEN "ACTIVE" ELSE @,
              ![c].shown = Prints(c, Input(c, k))]
    BY <1>3 DEF ReadFrames
  <2>2. client'[c].name = client[c].name  BY <1>0, <2>1 DEF ClientTypeOK, Program
  <2> QED  BY <1>1, <1>3, <2>2 DEF ReadFrames, Ends
<1>4. CASE ReadEnds(c, e)
  <2>1. PICK k : /\ CloseEnd(c, Unread(c) - k)
                 /\ \/ Leave(c, "CLOSED")
                    \/ \E i, st : client' = [client EXCEPT
                          ![c].pc = "exited", ![c].batch = {}, ![c].state = st,
                          ![c].shown = Prints(c, Input(c, i - 1))]
    BY <1>4 DEF ReadEnds
  <2>2. client'[c].name = client[c].name /\ client'[c].pc = "exited"
    <3>1. CASE Leave(c, "CLOSED")  BY <3>1, LeaveEnds
    <3>2. ASSUME NEW i, NEW st,
                 client' = [client EXCEPT
                          ![c].pc = "exited", ![c].batch = {}, ![c].state = st,
                          ![c].shown = Prints(c, Input(c, i - 1))]
          PROVE  client'[c].name = client[c].name /\ client'[c].pc = "exited"
      BY <1>0, <3>2 DEF ClientTypeOK, Program
    <3> QED  BY <2>1, <3>1, <3>2
  <2> QED  BY <1>1, <2>1, <2>2, CloseEndEnds DEF Ends
<1> QED  BY <1>2, <1>3, <1>4 DEF ReadNext

LEMMA TypedName ==
    ASSUME ClientTypeOK, NEW c \in Conn, NEW e, NEW events
    PROVE  Typed(c, e, events)[c].name = client[c].name
<1>1. Typed(c, e, events)[c] =
        [client[c] EXCEPT !.pc = After(c, e), !.batch = Rest(c, e),
                          !.typed = @ + 1, !.interest = events]
  BY DEF Typed, ClientTypeOK
<1> QED  BY <1>1, ClientTypes DEF Program

LEMMA StdinEnds ==
    ASSUME ClientTypeOK, NEW c \in Conn, NEW e, StdinNext(c, e)
    PROVE  client[c].pc # "exited" /\ Ends(c)
<1>1. client[c].pc # "exited" /\ UNCHANGED <<tcp, hangup>>
  BY DEF StdinNext, StdinLeaves, StdinIgnored, StdinChat, StdinQuit, StdinEvent, Dispatched
<1>2. CASE StdinLeaves(c, e)
  BY <1>1, <1>2, LeaveEnds, CloseEndEnds DEF StdinLeaves, Ends
<1>3. ASSUME client'[c].name = client[c].name, UNCHANGED <<fin, rst>> PROVE Ends(c)
  BY <1>1, <1>3 DEF Ends
<1>4. CASE StdinIgnored(c, e)
  BY <1>1, <1>3, <1>4, TypedName DEF StdinIgnored
<1>5. CASE StdinChat(c, e)
  <2>1. PICK size \in TypedSizes :
          client' = [Typed(c, e, ReadWrite) EXCEPT
                       ![c].out_buffer = Append(@, Chat(c, size)),
                       ![c].shown = Append(@, Chat(c, size).says)]
    BY <1>5 DEF StdinChat
  <2>2. PICK ty : ty = Typed(c, e, ReadWrite)  OBVIOUS
  <2>3. ty \in [Conn -> Program] /\ ty[c].name = client[c].name
    BY <2>2, TypedType, TypedName, Watching
  <2>4. client'[c] = [ty[c] EXCEPT !.out_buffer = Append(@, Chat(c, size)),
                                   !.shown = Append(@, Chat(c, size).says)]
    BY <2>1, <2>2, <2>3
  <2>5. client'[c].name = client[c].name  BY <2>3, <2>4 DEF Program
  <2> QED  BY <1>1, <1>3, <1>5, <2>5 DEF StdinChat
<1>6. CASE StdinQuit(c, e)
  <2>1. PICK ty : ty = Typed(c, e, WriteOnly)  OBVIOUS
  <2>2. ty \in [Conn -> Program] /\ ty[c].name = client[c].name
    BY <2>1, TypedType, TypedName, Watching
  <2>3. client'[c] = [ty[c] EXCEPT !.out_buffer = Append(@, Goodbye(c)), !.quitting = TRUE]
    BY <1>6, <2>1, <2>2 DEF StdinQuit
  <2>4. client'[c].name = client[c].name  BY <2>2, <2>3 DEF Program
  <2> QED  BY <1>1, <1>3, <1>6, <2>4 DEF StdinQuit
<1> QED  BY <1>2, <1>4, <1>5, <1>6 DEF StdinNext

(* What a step of the program, and one of the network, does to its ends.    *)
LEMMA ClientEnds ==
    ASSUME ClientTypeOK, NEW c \in Conn, ClientNext(c)
    PROVE  ~Exited(c) /\ Ends(c)
  BY ConnectEnds, WaitEnds, CheckEnds, SendEnds, RecvEnds, StdinEnds
     DEF ClientNext, LoopNext, Exited

LEMMA NetworkEnds ==
    ASSUME ClientTypeOK, NEW c \in Conn, NetworkNext(c)
    PROVE  UNCHANGED <<client, arrived, wire, taken, sent>> /\ Ends(c)
<1>1. CASE Established(c)
  BY <1>1 DEF Established, RemoteConnect, Connecting, clientVars, Ends, UpSame, Running,
              ClientTypeOK, SocketsTypeOK
<1>2. CASE Refused(c)
  BY <1>2 DEF Refused, sockVars, Ends, ClientTypeOK
<1>3. CASE AnsweredByReset(c)
  BY <1>3 DEF AnsweredByReset, clientVars, Ends, Exited, ClientTypeOK, SocketsTypeOK
<1> QED  BY <1>1, <1>2, <1>3 DEF NetworkNext

(* Only the server writes to the wire.                                      *)
LEMMA ProgramListens ==
    ASSUME NEW c \in Conn, ProgramStep(c)
    PROVE  \A d \in Conn : wire'[d] = wire[d]
<1>1. wire'[c] = wire[c]
  BY DEF ProgramStep, ProgramKind, Idles, Connects, Introduces, Writes, Flushes, Leaves,
         Listens, ListensLast, Handles, Speaks, Resigns, DownSame
<1>2. \A d \in Conn \ {c} : wire'[d] = wire[d]  BY DEF ProgramStep, Alone, DownSame
<1> QED  BY <1>1, <1>2

(* A frame as the client c writes them.                                     *)
Proper(c, m) ==
    /\ m.says.who = c /\ protocol_payload_length_is_legal(m.size)
    /\ \/ m.type = "CLIENT_HELLO" /\ m.says.what = "name" /\ m.size \in NameSizes
       \/ m.type = "CHAT" /\ m.says.what = "chat"
       \/ m.type = "CLOSE_CON" /\ m.says.what = "nothing" /\ m.size = 0

(* What waits in the buffer: the hello is the very first frame of all, and  *)
(* the farewell the last one.                                               *)
Outgoing(c) ==
    /\ client[c].name \in NameSizes
    /\ ~Exited(c) => \A i \in 1 .. Len(client[c].out_buffer) :
         LET m == client[c].out_buffer[i]
         IN  /\ Proper(c, m)
             /\ m.type = "CLIENT_HELLO" <=> sent[c] + i = client[c].bytes_written + 1
             /\ m.type = "CLOSE_CON" =>
                  client[c].quitting /\ i = Len(client[c].out_buffer)

(* The frames s go to the server, or are lost because it has gone; rest     *)
(* stays behind.                                                            *)
Delivers(c, s) ==
    /\ sent'[c] = sent[c] + Len(s)
    /\ arrived'[c] = IF Linked(c) THEN arrived[c] \o s ELSE arrived[c]
    /\ \A j \in 1 .. Len(s) :
         /\ Proper(c, s[j])
         /\ s[j].type = "CLIENT_HELLO" <=> sent[c] + j = 1
         /\ s[j].type = "CLOSE_CON" => client'[c].pc = "exited"
    /\ Own(c)' = Own(c)
    /\ \E rest \in Seq(Msg) : /\ Unsent(c) = s \o rest
                              /\ client'[c].pc # "exited" => Unsent(c)' = rest

(* The frame m is queued, and shown if it is a line, which has a number of  *)
(* its own.                                                                 *)
Queues(c, m) ==
    /\ UpSame(c)
    /\ m.says \in ChatLines(c) => m.says.n = client[c].typed + 1
    /\ Unsent(c)' = Append(Unsent(c), m)
    /\ Own(c)' = IF m.says \in ChatLines(c) THEN Append(Own(c), m.says) ELSE Own(c)

LEMMA UnsentShape ==
    ASSUME ClientTypeOK, NEW c \in Conn, Bounds(c)
    PROVE  /\ Unsent(c) \in Seq(Msg) /\ Len(Unsent(c)) = Pending(c) /\ Pending(c) \in Nat
           /\ \A i \in 1 .. Pending(c) :
                Unsent(c)[i] = client[c].out_buffer[client[c].bytes_written + i]
<1>1. PICK o, b : o = client[c].out_buffer /\ b = client[c].bytes_written  OBVIOUS
<1>5. o \in Seq(Msg) /\ b \in Nat /\ Len(o) \in Nat /\ b <= Len(o)
  BY <1>1, ClientTypes, ProgramFields DEF Bounds
<1>2. o \in Seq(Msg) /\ b \in Nat /\ Len(o) \in Nat /\ b \in 0 .. Len(o)
  BY <1>5
<1>3. /\ Left(o, b) \in Seq(Msg) /\ Len(Left(o, b)) = Len(o) - b
      /\ \A i \in 1 .. Len(o) - b : Left(o, b)[i] = o[b + i]
  BY <1>2, LeftShape
<1>4. Len(o) - b \in Nat  BY <1>2
<1> QED  BY <1>1, <1>3, <1>4 DEF Unsent, Pending, Left

LEMMA OutgoingQueues ==
    ASSUME ClientTypeOK, NEW c \in Conn, Bounds(c), ~Exited(c), Outgoing(c), UpSame(c),
           NEW m \in Msg, Proper(c, m),
           client'[c].name = client[c].name,
           client'[c].out_buffer = Append(client[c].out_buffer, m),
           client'[c].bytes_written = client[c].bytes_written,
           m.type = "CLIENT_HELLO" <=>
             sent[c] + Len(client[c].out_buffer) = client[c].bytes_written,
           ~client[c].quitting,
           m.type = "CLOSE_CON" => client'[c].quitting,
           m.says \in ChatLines(c) => m.says.n = client[c].typed + 1,
           Own(c)' = IF m.says \in ChatLines(c) THEN Append(Own(c), m.says) ELSE Own(c)
    PROVE  Outgoing(c)' /\ Queues(c, m)
<1>1. PICK o, b, s : o = client[c].out_buffer /\ b = client[c].bytes_written /\ s = sent[c]
  OBVIOUS
<1>8. /\ o \in Seq(Msg) /\ b \in Nat /\ s \in Nat /\ Len(o) \in Nat /\ b <= Len(o)
  BY <1>1, ClientTypes, ProgramFields DEF Bounds
<1>2. /\ o \in Seq(Msg) /\ b \in Nat /\ s \in Nat /\ Len(o) \in Nat /\ b \in 0 .. Len(o)
  BY <1>8
<1>3. PICK p : p = Append(o, m)  OBVIOUS
<1>4. /\ Len(p) = Len(o) + 1 /\ \A i \in 1 .. Len(o) : p[i] = o[i]
      /\ p[Len(o) + 1] = m
  BY <1>2, <1>3, AppendProperties
<1>5. ASSUME NEW i \in 1 .. Len(p)
      PROVE  /\ Proper(c, p[i])
             /\ p[i].type = "CLIENT_HELLO" <=> s + i = b + 1
             /\ p[i].type = "CLOSE_CON" => client'[c].quitting /\ i = Len(p)
  <2>1. CASE i \in 1 .. Len(o)
    <3>1. p[i] = o[i]  BY <1>4, <2>1
    <3> QED  BY <1>1, <2>1, <3>1 DEF Outgoing
  <2>2. CASE i = Len(o) + 1
    <3>1. p[i] = m /\ i = Len(p)  BY <1>4, <2>2
    <3>2. PICK k : k = Len(o)  OBVIOUS
    <3>3. s + i = b + 1 <=> s + k = b
      <4>1. k \in Nat /\ i = k + 1  BY <1>2, <2>2, <3>2
      <4> QED  BY <1>2, <4>1
    <3> QED  BY <1>1, <3>1, <3>2, <3>3
  <2>3. i \in 1 .. Len(o) \/ i = Len(o) + 1  BY <1>2, <1>4
  <2> QED  BY <2>1, <2>2, <2>3
<1>6. Outgoing(c)'
  <2>1. client'[c].out_buffer = p /\ client'[c].bytes_written = b /\ sent'[c] = s
    BY <1>1, <1>3 DEF UpSame
  <2> QED  BY <1>5, <2>1 DEF Outgoing
<1>7. Unsent(c)' = Append(Unsent(c), m)
  <2>1. Left(p, b) = Append(Left(o, b), m)  BY <1>2, <1>3, LeftGrows
  <2> QED  BY <1>1, <1>3, <2>1 DEF Unsent, Left
<1> QED  BY <1>6, <1>7 DEF Queues

(* k frames leave the buffer; what is left is there, if the client is.      *)
LEMMA OutgoingPasses ==
    ASSUME ClientTypeOK, NEW c \in Conn, Bounds(c), ~Exited(c), Outgoing(c),
           NEW k \in 0 .. Pending(c), Passes(c, k),
           client'[c].name = client[c].name, Own(c)' = Own(c),
           k = Pending(c) => client'[c].pc = "exited" \/ ~client[c].quitting,
           client'[c].pc # "exited" =>
             \/ /\ client'[c].out_buffer = client[c].out_buffer
                /\ client'[c].bytes_written = client[c].bytes_written + k
                /\ client'[c].quitting = client[c].quitting
             \/ client'[c].out_buffer = <<>> /\ client'[c].bytes_written = 0 /\ k = Pending(c)
    PROVE  Outgoing(c)' /\ \E s \in Seq(Msg) : Delivers(c, s)
<1>1. PICK o, b, t : o = client[c].out_buffer /\ b = client[c].bytes_written /\ t = sent[c]
  OBVIOUS
<1>2. /\ o \in Seq(Msg) /\ b \in Nat /\ t \in Nat /\ Len(o) \in Nat /\ b <= Len(o)
      /\ k \in Nat /\ b + k <= Len(o) /\ Pending(c) = Len(o) - b
      /\ arrived[c] \in Seq(Msg)
  BY <1>1, ClientTypes, ProgramFields, PassesBounds DEF Bounds, Pending
<1>3. PICK s : s = SubSeq(o, b + 1, b + k)  OBVIOUS
<1>4. /\ s \in Seq(Msg) /\ Len(s) = k
      /\ \A j \in 1 .. k : s[j] = o[b + j]
  BY <1>2, <1>3, PieceShape
<1>5. PICK rest : rest = SubSeq(o, b + k + 1, Len(o))  OBVIOUS
<1>6. rest \in Seq(Msg)
  <2>1. b + k \in 0 .. Len(o)  BY <1>2
  <2> QED  BY <1>2, <1>5, <2>1, LeftShape DEF Left
<1>7. Unsent(c) = s \o rest
  <2>1. PICK n \in Nat : n = Len(o) - b /\ b + n = Len(o) /\ k \in 0 .. n
    <3>1. Len(o) - b \in Nat /\ b + (Len(o) - b) = Len(o) /\ k \in 0 .. Len(o) - b
      BY <1>2
    <3> QED  BY <3>1
  <2>2. b + n <= Len(o)  BY <1>2, <2>1
  <2>3. SubSeq(o, b + 1, b + n) = SubSeq(o, b + 1, b + k) \o SubSeq(o, b + k + 1, b + n)
    <3>1. o \in Seq(Msg) /\ b \in Nat /\ n \in Nat /\ k \in 0 .. n  BY <1>2, <2>1
    <3> QED  BY <2>2, <3>1, PieceSplits
  <2> QED  BY <1>1, <1>3, <1>5, <2>1, <2>3 DEF Unsent
<1>8. ASSUME client'[c].pc # "exited" PROVE Unsent(c)' = rest
  <2>1. CASE client'[c].out_buffer = o /\ client'[c].bytes_written = b + k
    BY <1>5, <2>1 DEF Unsent
  <2>2. CASE /\ client'[c].out_buffer = <<>> /\ client'[c].bytes_written = 0
             /\ k = Pending(c)
    <3>1. b + k = Len(o) /\ b + k \in 0 .. Len(o)  BY <1>2, <2>2
    <3>2. Len(rest) = Len(o) - (b + k)  BY <1>2, <1>5, <3>1, LeftShape DEF Left
    <3>3. Len(rest) = 0  BY <1>2, <3>1, <3>2
    <3>4. rest = <<>>  BY <1>6, <3>3, EmptySeq
    <3>5. Unsent(c)' = SubSeq(<<>>, 1, 0)  BY <2>2, EmptySeq DEF Unsent
    <3>6. SubSeq(<<>>, 1, 0) = <<>>  BY SubSeqEmpty
    <3> QED  BY <3>4, <3>5, <3>6
  <2> QED  BY <1>1, <1>8, <2>1, <2>2
<1>9. ASSUME NEW j \in 1 .. Len(s)
      PROVE  /\ Proper(c, s[j])
             /\ s[j].type = "CLIENT_HELLO" <=> t + j = 1
             /\ s[j].type = "CLOSE_CON" => client'[c].pc = "exited"
  <2>1. s[j] = o[b + j] /\ b + j \in 1 .. Len(o)  BY <1>2, <1>4
  <2>2. /\ Proper(c, o[b + j])
        /\ o[b + j].type = "CLIENT_HELLO" <=> t + (b + j) = b + 1
        /\ o[b + j].type = "CLOSE_CON" => client[c].quitting /\ b + j = Len(o)
    BY <1>1, <2>1 DEF Outgoing
  <2>3. t + (b + j) = b + 1 <=> t + j = 1  BY <1>2
  <2>4. b + j = Len(o) => k = Pending(c)  BY <1>2, <1>4
  <2> QED  BY <2>1, <2>2, <2>3, <2>4
<1>10. Delivers(c, s)
  <2>1. arrived'[c] = IF Linked(c) THEN arrived[c] \o s ELSE arrived[c]
    BY <1>1, <1>3 DEF Passes
  <2>2. sent'[c] = sent[c] + Len(s)  BY <1>4 DEF Passes
  <2> QED  BY <1>1, <1>6, <1>7, <1>8, <1>9, <2>1, <2>2 DEF Delivers
<1>11. Outgoing(c)'
  <2>1. SUFFICES ASSUME client'[c].pc # "exited",
                        NEW i \in 1 .. Len(client'[c].out_buffer)
                 PROVE  LET m == client'[c].out_buffer[i]
                        IN  /\ Proper(c, m)
                            /\ m.type = "CLIENT_HELLO" <=>
                                 sent'[c] + i = client'[c].bytes_written + 1
                            /\ m.type = "CLOSE_CON" =>
                                 client'[c].quitting /\ i = Len(client'[c].out_buffer)
    BY DEF Outgoing, Exited
  <2>2. client'[c].out_buffer # <<>>  BY <2>1, EmptySeq
  <2>3. /\ client'[c].out_buffer = o /\ client'[c].bytes_written = b + k
        /\ client'[c].quitting = client[c].quitting
    BY <1>1, <2>1, <2>2
  <2>4. sent'[c] = t + k  BY <1>1 DEF Passes
  <2>5. i \in 1 .. Len(o)  BY <2>1, <2>3
  <2>6. t + k + i = b + k + 1 <=> t + i = b + 1  BY <1>2, <2>5
  <2> QED  BY <1>1, <2>3, <2>4, <2>5, <2>6 DEF Outgoing
<1> QED  BY <1>4, <1>10, <1>11

(* A step of the program either sends or queues.                            *)
LEMMA Speech ==
    ASSUME ClientInv, NEW c \in Conn, Outgoing(c), ClientNext(c)
    PROVE  /\ Outgoing(c)'
           /\ \/ \E s \in Seq(Msg) : Delivers(c, s)
              \/ \E m \in Msg : Queues(c, m)
<1>1. /\ ClientTypeOK /\ Bounds(c) /\ Foreign(c) /\ Stage(c) /\ Accounts(c) /\ Heard(c)
  BY DEF ClientInv
<1>2. ~Exited(c) /\ client'[c].name = client[c].name  BY <1>1, ClientEnds DEF Ends
<1>3. PICK o, b, t : o = client[c].out_buffer /\ b = client[c].bytes_written /\ t = sent[c]
  OBVIOUS
<1>4. /\ o \in Seq(Msg) /\ b \in Nat /\ t \in Nat /\ Len(o) \in Nat /\ b <= Len(o)
      /\ client[c].quitting \in BOOLEAN /\ client[c].shown \in Seq(Utterance(Speaker))
      /\ client[c].name \in Nat
  BY <1>1, <1>3, ClientTypes, ProgramFields DEF Bounds
<1>5. Pending(c) \in Nat /\ Pending(c) \in 0 .. Pending(c) /\ 0 \in 0 .. Pending(c)
  <2>1. Pending(c) \in Nat  BY <1>1, UnsentShape
  <2> QED  BY <2>1
<1>6. ASSUME client'[c].shown = client[c].shown PROVE Own(c)' = Own(c)
  BY <1>6 DEF Own
(* Nothing is sent.                                                         *)
<1>7. ASSUME UpSame(c), OutSame(c), Own(c)' = Own(c)
      PROVE  \E s \in Seq(Msg) : Delivers(c, s)
  <2>1. <<>> \in Seq(Msg) /\ Len(<<>>) = 0  BY EmptySeq
  <2>2. arrived[c] \in Seq(Msg)  BY <1>1, ClientTypes
  <2>3. arrived[c] \o <<>> = arrived[c]  BY <2>2, ConcatEmptySeq
  <2>4. Unsent(c) \in Seq(Msg) /\ Unsent(c)' = Unsent(c)
    BY <1>1, <1>7, UnsentShape DEF Unsent, OutSame
  <2>5. <<>> \o Unsent(c) = Unsent(c)  BY <2>4, ConcatEmptySeq
  <2>6. sent'[c] = sent[c] + Len(<<>>)  BY <1>3, <1>4, <1>7, <2>1 DEF UpSame
  <2>7. Delivers(c, <<>>)
    BY <1>7, <2>1, <2>3, <2>4, <2>5, <2>6 DEF Delivers, UpSame
  <2> QED  BY <2>1, <2>7
<1>8. ASSUME UpSame(c), OutSame(c),
             client'[c].pc = "exited" \/ client'[c].quitting = client[c].quitting
      PROVE  Outgoing(c)'
  BY <1>2, <1>8 DEF Outgoing, UpSame, OutSame, Exited
<1>9. CASE Idles(c) \/ Connects(c)
  BY <1>6, <1>7, <1>8, <1>9 DEF Idles, Connects
<1>10. ASSUME NEW m \in Msg, Proper(c, m), UpSame(c),
              client'[c].out_buffer = Append(o, m), client'[c].bytes_written = b,
              m.type = "CLIENT_HELLO" <=> t + Len(o) = b,
              ~client[c].quitting, m.type = "CLOSE_CON" => client'[c].quitting,
              m.says \in ChatLines(c) => m.says.n = client[c].typed + 1,
              Own(c)' = IF m.says \in ChatLines(c) THEN Append(Own(c), m.says) ELSE Own(c)
       PROVE  Outgoing(c)' /\ Queues(c, m)
  BY <1>1, <1>2, <1>3, <1>10, OutgoingQueues
<1>11. CASE Introduces(c)
  <2>1. /\ ~client[c].quitting /\ o = <<>> /\ b = 0 /\ t = 0
    BY <1>1, <1>3, <1>11 DEF Introduces, Stage
  <2>2. PICK m \in Msg : m = Hello(c)  BY <1>1, ClientFrames
  <2>3. Proper(c, m)
    BY <1>11, <2>2 DEF Proper, Hello, Introduces, Outgoing
  <2>4. m.type = "CLIENT_HELLO" /\ m.says \notin ChatLines(c)
    BY <2>2 DEF Hello, ChatLines
  <2>5. t + Len(o) = b  BY <2>1, EmptySeq
  <2>6. Own(c)' = Own(c)  BY <1>6, <1>11 DEF Introduces
  <2> QED  BY <1>3, <1>10, <1>11, <2>1, <2>2, <2>3, <2>4, <2>5, <2>6 DEF Introduces
<1>12. ASSUME Running(c), client[c].state # "CONNECTING" PROVE t + Len(o) # b
  <2>1. t + Len(o) = b + Len(Told(c))  BY <1>1, <1>3, <1>12 DEF Accounts
  <2>2. Len(Told(c)) \in Nat /\ Len(Told(c)) > 0  BY <1>1, <1>12, ToldType
  <2> QED  BY <1>4, <2>1, <2>2
<1>13. CASE Speaks(c)
  <2>1. PICK size \in Nat :
          /\ protocol_payload_length_is_legal(size)
          /\ client'[c].out_buffer = Append(client[c].out_buffer, Chat(c, size))
          /\ client'[c].shown = Append(client[c].shown, Chat(c, size).says)
    BY <1>13 DEF Speaks
  <2>2. PICK m \in Msg : m = Chat(c, size)  BY <1>1, ClientFrames
  <2>3. /\ m.type = "CHAT" /\ m.size = size
        /\ m.says = [who |-> c, what |-> "chat", n |-> client[c].typed + 1]
    BY <2>2 DEF Chat
  <2>4. Proper(c, m)  BY <2>1, <2>3 DEF Proper
  <2>5. m.says \in ChatLines(c) /\ m.says \in Utterance(Speaker)
    <3>1. client[c].typed \in Nat  BY <1>1, ClientTypes, ProgramFields
    <3>2. client[c].typed + 1 \in Nat  BY <3>1
    <3> QED  BY <2>3, <3>2, MsgSays DEF ChatLines
  <2>6. Own(c)' = Append(Own(c), m.says)
    <3>1. PICK o1, o2, x : o1 = client[c].shown /\ o2 = client'[c].shown /\ x = m.says
      OBVIOUS
    <3>2. o1 \in Seq(Utterance(Speaker)) /\ x \in Utterance(Speaker) /\ o2 = Append(o1, x)
      BY <1>4, <2>1, <2>2, <2>5, <3>1
    <3>3. Only(o2, ChatLines(c)) = Append(Only(o1, ChatLines(c)), x)
      BY <2>5, <3>1, <3>2, OnlyAppend
    <3>4. Own(c) = Only(o1, ChatLines(c)) /\ Own(c)' = Only(o2, ChatLines(c))
      BY <3>1 DEF Own, ChatLines
    <3> QED  BY <2>5, <3>1, <3>3, <3>4
  <2>7. t + Len(o) # b  BY <1>12, <1>13 DEF Speaks, RunsOn
  <2> QED  BY <1>3, <1>10, <1>13, <2>1, <2>2, <2>3, <2>4, <2>5, <2>6, <2>7 DEF Speaks
<1>14. CASE Resigns(c)
  <2>1. PICK m \in Msg : m = Goodbye(c)  BY <1>1, ClientFrames
  <2>2. /\ m.type = "CLOSE_CON" /\ m.size = 0
        /\ m.says = [who |-> c, what |-> "nothing", n |-> 0]
    BY <2>1 DEF Goodbye
  <2>3. Proper(c, m) /\ m.says \notin ChatLines(c)
    BY <2>2 DEF Proper, ChatLines, protocol_payload_length_is_legal, MAX_PAYLOAD_SIZE
  <2>4. Own(c)' = Own(c)  BY <1>6, <1>14 DEF Resigns
  <2>5. t + Len(o) # b  BY <1>12, <1>14 DEF Resigns, RunsOn
  <2> QED  BY <1>3, <1>10, <1>14, <2>1, <2>2, <2>3, <2>4, <2>5 DEF Resigns
<1>15. ASSUME NEW k \in 0 .. Pending(c), Passes(c, k), client'[c].shown = client[c].shown,
              k = Pending(c) => client'[c].pc = "exited" \/ ~client[c].quitting,
              client'[c].pc # "exited" =>
                \/ /\ client'[c].out_buffer = client[c].out_buffer
                   /\ client'[c].bytes_written = client[c].bytes_written + k
                   /\ client'[c].quitting = client[c].quitting
                \/ client'[c].out_buffer = <<>> /\ client'[c].bytes_written = 0
                   /\ k = Pending(c)
       PROVE  Outgoing(c)' /\ \E s \in Seq(Msg) : Delivers(c, s)
  BY <1>1, <1>2, <1>6, <1>15, OutgoingPasses
<1>16. CASE Writes(c)
  <2>1. PICK k \in 0 .. Pending(c) - 1 :
          Passes(c, k) /\ client'[c].bytes_written = client[c].bytes_written + k
    BY <1>16 DEF Writes
  <2>2. k \in 0 .. Pending(c) /\ k # Pending(c)  BY <1>5
  <2> QED  BY <1>15, <1>16, <2>1, <2>2 DEF Writes
<1>17. CASE Flushes(c)
  BY <1>5, <1>15, <1>17 DEF Flushes
<1>18. CASE Leaves(c)
  <2>1. CASE UpSame(c) /\ OutSame(c)
    BY <1>6, <1>7, <1>8, <1>18, <2>1 DEF Leaves
  <2>2. CASE Passes(c, Pending(c))
    BY <1>5, <1>15, <1>18, <2>2 DEF Leaves
  <2> QED  BY <1>18, <2>1, <2>2 DEF Leaves
<1>19. ASSUME NEW k \in 0 .. Unread(c), NEW j \in 0 .. k, Handles(c, k, j)
       PROVE  UpSame(c) /\ OutSame(c) /\ Own(c)' = Own(c)
  BY <1>1, <1>19, HearsMore DEF Handles
<1>20. CASE Listens(c)
  <2>1. PICK k \in 0 .. Unread(c) :
          Handles(c, k, k) /\ client'[c].quitting = client[c].quitting
    BY <1>20 DEF Listens
  <2>2. k \in 0 .. k  OBVIOUS
  <2> QED  BY <1>7, <1>8, <1>19, <2>1, <2>2
<1>21. CASE ListensLast(c)
  <2>1. UpSame(c) /\ OutSame(c) /\ Own(c)' = Own(c) /\ client'[c].pc = "exited"
    BY <1>19, <1>21 DEF ListensLast
  <2> QED  BY <1>7, <1>8, <2>1
<1>23. ProgramKind(c)  BY <1>1, ProgramSteps DEF ProgramStep
<1> QED
  BY <1>9, <1>11, <1>13, <1>14, <1>16, <1>17, <1>18, <1>20, <1>21, <1>23 DEF ProgramKind

(* The numbers of the lines: the user's n-th input carries the number n, so *)
(* that the lines a client has said are numbered upwards.                   *)
StdinInput == [fd |-> "stdin", flags |-> {"EPOLLIN"}]

Keyboard(c) ==
    /\ client[c].typed <= MaxTyped
    /\ \A e \in client[c].batch : e.fd = "stdin" => e = StdinInput /\ client[c].typed < MaxTyped

Rising(s, n) ==
    /\ \A i \in 1 .. Len(s) : s[i].n \in 1 .. n
    /\ \A i, j \in 1 .. Len(s) : i < j => s[i].n < s[j].n

Numbered(c) == Keyboard(c) /\ Rising(Own(c), client[c].typed)

LEMMA InputTaken ==
    ASSUME ClientTypeOK, NEW c \in Conn, NEW e,
           StdinIgnored(c, e) \/ StdinChat(c, e) \/ StdinQuit(c, e)
    PROVE  client'[c].typed = client[c].typed + 1 /\ client'[c].batch = Rest(c, e)
<1>1. client \in [Conn -> Program] /\ client[c] \in Program
      /\ client[c].interest \in SUBSET EpollFlag
  BY ClientTypes, ProgramFields DEF ClientTypeOK
<1>2. ASSUME NEW events \in SUBSET EpollFlag, NEW ty, ty = Typed(c, e, events)
      PROVE  /\ ty \in [Conn -> Program]
             /\ ty[c].typed = client[c].typed + 1 /\ ty[c].batch = Rest(c, e)
  <2>1. ty \in [Conn -> Program]  BY <1>2, TypedType
  <2>2. ty[c] = [client[c] EXCEPT !.pc = After(c, e), !.batch = Rest(c, e),
                                  !.typed = @ + 1, !.interest = events]
    BY <1>1, <1>2 DEF Typed
  <2> QED  BY <1>1, <2>1, <2>2 DEF Program
<1>3. CASE StdinIgnored(c, e)
  <2>1. client' = Typed(c, e, client[c].interest)  BY <1>3 DEF StdinIgnored
  <2> QED  BY <1>1, <1>2, <2>1
<1>4. CASE StdinChat(c, e)
  <2>1. PICK ty : ty = Typed(c, e, ReadWrite)  OBVIOUS
  <2>2. PICK size \in TypedSizes :
          client' = [ty EXCEPT ![c].out_buffer = Append(@, Chat(c, size)),
                               ![c].shown = Append(@, Chat(c, size).says)]
    BY <1>4, <2>1 DEF StdinChat
  <2>3. /\ ty \in [Conn -> Program]
        /\ ty[c].typed = client[c].typed + 1 /\ ty[c].batch = Rest(c, e)
    BY <1>2, <2>1, Watching
  <2>4. client'[c].typed = ty[c].typed /\ client'[c].batch = ty[c].batch
    BY <2>2, <2>3 DEF Program
  <2> QED  BY <2>3, <2>4
<1>5. CASE StdinQuit(c, e)
  <2>1. PICK ty : ty = Typed(c, e, WriteOnly)  OBVIOUS
  <2>2. client' = [ty EXCEPT ![c].out_buffer = Append(@, Goodbye(c)), ![c].quitting = TRUE]
    BY <1>5, <2>1 DEF StdinQuit
  <2>3. /\ ty \in [Conn -> Program]
        /\ ty[c].typed = client[c].typed + 1 /\ ty[c].batch = Rest(c, e)
    BY <1>2, <2>1, Watching
  <2>4. client'[c].typed = ty[c].typed /\ client'[c].batch = ty[c].batch
    BY <2>2, <2>3 DEF Program
  <2> QED  BY <2>3, <2>4
<1> QED  BY <1>3, <1>4, <1>5

LEMMA KeyboardStep ==
    ASSUME ClientTypeOK, NEW c \in Conn, Keyboard(c), ClientNext(c)
    PROVE  /\ Keyboard(c)'
           /\ \/ /\ client'[c].typed = client[c].typed
                 /\ client'[c].shown = client[c].shown \/ OutSame(c)
              \/ client'[c].typed = client[c].typed + 1
<1> DEFINE Done == /\ Keyboard(c)'
                   /\ \/ /\ client'[c].typed = client[c].typed
                         /\ client'[c].shown = client[c].shown \/ OutSame(c)
                      \/ client'[c].typed = client[c].typed + 1
<1>1. /\ client \in [Conn -> Program] /\ client[c] \in Program
      /\ client[c].typed \in Nat /\ MaxTyped \in Nat
  BY ClientTypes, ProgramFields, ClientAssumption DEF ClientTypeOK
<1>2. ASSUME client'[c].typed = client[c].typed, client'[c].batch \subseteq client[c].batch,
             client'[c].shown = client[c].shown \/ OutSame(c)
      PROVE  Done
  BY <1>2 DEF Keyboard
<1>3. ASSUME NEW st, Leave(c, st) PROVE Done
  <2>1. client'[c].typed = client[c].typed /\ client'[c].batch = {}
        /\ client'[c].shown = client[c].shown
    BY <1>1, <1>3 DEF Leave, Program
  <2> QED  BY <1>2, <2>1
<1>4. ASSUME NEW batch, batch \subseteq client[c].batch, QueueHello(c, batch) PROVE Done
  <2>1. client'[c].typed = client[c].typed /\ client'[c].batch = batch
        /\ client'[c].shown = client[c].shown
    BY <1>1, <1>4 DEF QueueHello, Program
  <2> QED  BY <1>2, <1>4, <2>1
<1>5. CASE ConnectNext(c)
  <2>1. CASE ConnectLater(c)
    <3>1. client'[c].typed = client[c].typed /\ client'[c].batch = client[c].batch
          /\ client'[c].shown = client[c].shown
      BY <1>1, <2>1 DEF ConnectLater, Program
    <3> QED  BY <1>2, <3>1
  <2> QED  BY <1>3, <1>4, <1>5, <2>1 DEF ConnectNext, ConnectNow, ConnectFails
<1>6. CASE WaitForEvents(c)
  <2>1. PICK ready \in SUBSET StdinReady(c) :
          client' = [client EXCEPT ![c].pc = "dispatch",
                       ![c].batch = {e \in {SocketEvent(c)} : e.flags # {}} \cup ready]
    BY <1>6 DEF WaitForEvents
  <2>2. /\ client'[c].typed = client[c].typed /\ client'[c].shown = client[c].shown
        /\ client'[c].batch = {e \in {SocketEvent(c)} : e.flags # {}} \cup ready
    BY <1>1, <2>1 DEF Program
  <2>3. SocketEvent(c).fd # "stdin"  BY DEF SocketEvent
  <2>4. \A e \in StdinReady(c) : e = StdinInput /\ client[c].typed < MaxTyped
    BY DEF StdinReady, StdinInput
  <2> QED  BY <2>2, <2>3, <2>4 DEF Keyboard
<1>7. ASSUME NEW e \in client[c].batch,
             SkipEvent(c, e) \/ ConnectionRefused(c, e) \/ ConnectionMade(c, e)
      PROVE  Done
  <2>1. CASE SkipEvent(c, e)
    <3>1. client'[c].typed = client[c].typed /\ client'[c].batch = Rest(c, e)
          /\ client'[c].shown = client[c].shown
      BY <1>1, <2>1 DEF SkipEvent, Program
    <3> QED  BY <1>2, <3>1 DEF Rest
  <2>2. Rest(c, e) \subseteq client[c].batch  BY DEF Rest
  <2> QED  BY <1>3, <1>4, <1>7, <2>1, <2>2 DEF ConnectionRefused, ConnectionMade
<1>8. ASSUME NEW e \in client[c].batch, SendNext(c, e) PROVE Done
  <2>1. CASE SendFails(c, e)  BY <1>3, <2>1 DEF SendFails
  <2>2. ASSUME client'[c].typed = client[c].typed, client'[c].batch \subseteq Rest(c, e),
               client'[c].shown = client[c].shown
        PROVE  Done
    BY <1>2, <2>2 DEF Rest
  <2>3. CASE SendPartial(c, e)
    <3>1. PICK k :
            client' = [client EXCEPT
              ![c] = [Written(@, k) EXCEPT !.pc = After(c, e), !.batch = Rest(c, e)]]
      BY <2>3 DEF SendPartial
    <3>2. client'[c].typed = client[c].typed /\ client'[c].batch = Rest(c, e)
          /\ client'[c].shown = client[c].shown
      BY <1>1, <3>1 DEF Written, Program
    <3> QED  BY <2>2, <3>2
  <2>4. CASE SendDone(c, e)
    <3>1. client'[c] = [Flushed(client[c]) EXCEPT
                          !.pc = After(c, e), !.batch = Rest(c, e),
                          !.interest = ReadOnly, !.state = Greeted(client[c].state)]
      BY <1>1, <2>4 DEF SendDone
    <3>2. client'[c].typed = client[c].typed /\ client'[c].batch = Rest(c, e)
          /\ client'[c].shown = client[c].shown
      BY <1>1, <3>1 DEF Flushed, Program
    <3> QED  BY <2>2, <3>2
  <2>5. CASE SendGoodbye(c, e)
    <3>1. client'[c] = [Flushed(client[c]) EXCEPT !.pc = "exited", !.batch = {}]
      BY <1>1, <2>5 DEF SendGoodbye
    <3>2. client'[c].typed = client[c].typed /\ client'[c].batch = {}
          /\ client'[c].shown = client[c].shown
      BY <1>1, <3>1 DEF Flushed, Program
    <3> QED  BY <2>2, <3>2
  <2> QED  BY <1>8, <2>1, <2>3, <2>4, <2>5 DEF SendNext
<1>9. ASSUME NEW e \in client[c].batch, ReadNext(c, e) PROVE Done
  <2>1. CASE ReadFails(c, e)  BY <1>3, <2>1 DEF ReadFails
  <2>2. CASE ReadFrames(c, e)
    <3>1. client'[c].typed = client[c].typed /\ client'[c].batch = Rest(c, e) /\ OutSame(c)
      BY <1>1, <2>2 DEF ReadFrames, Program, OutSame
    <3> QED  BY <1>2, <3>1 DEF Rest
  <2>3. CASE ReadEnds(c, e)
    <3>1. CASE Leave(c, "CLOSED")  BY <1>3, <3>1
    <3>2. CASE ~Leave(c, "CLOSED")
      <4>3. PICK k \in ReadSizes(c) : \E i \in Stops(c, k) :
              client' = [client EXCEPT
                ![c].pc = "exited", ![c].batch = {},
                ![c].state =
                  IF /\ ~Eof(c, k) /\ Expected(c, i) = "BROADCAST"
                     /\ Input(c, k)[i].type = "CLOSE_CON"
                     /\ Input(c, k)[i].size = 0
                  THEN "CLOSED" ELSE "CONNECTION_ERROR",
                ![c].shown = Prints(c, Input(c, i - 1))]
        BY <2>3, <3>2 DEF ReadEnds
      <4>1. PICK i \in Stops(c, k) :
              client' = [client EXCEPT
                ![c].pc = "exited", ![c].batch = {},
                ![c].state =
                  IF /\ ~Eof(c, k) /\ Expected(c, i) = "BROADCAST"
                     /\ Input(c, k)[i].type = "CLOSE_CON"
                     /\ Input(c, k)[i].size = 0
                  THEN "CLOSED" ELSE "CONNECTION_ERROR",
                ![c].shown = Prints(c, Input(c, i - 1))]
        BY <4>3
      <4>2. client'[c].typed = client[c].typed /\ client'[c].batch = {} /\ OutSame(c)
        BY <1>1, <4>1 DEF Program, OutSame
      <4> QED  BY <1>2, <4>2
    <3> QED  BY <3>1, <3>2
  <2> QED  BY <1>9, <2>1, <2>2, <2>3 DEF ReadNext
<1>10. ASSUME NEW e \in client[c].batch, StdinNext(c, e) PROVE Done
  <2>1. CASE StdinLeaves(c, e)  BY <1>3, <2>1 DEF StdinLeaves
  <2>2. CASE StdinIgnored(c, e) \/ StdinChat(c, e) \/ StdinQuit(c, e)
    <3>1. e.fd = "stdin"
      BY <2>2 DEF StdinIgnored, StdinChat, StdinQuit, StdinEvent, event_is_read_stdin
    <3>2. client'[c].typed = client[c].typed + 1 /\ client'[c].batch = Rest(c, e)
      BY <1>1, <2>2, InputTaken
    <3>3. \A d \in Rest(c, e) : d.fd # "stdin"  BY <3>1 DEF Keyboard, Rest
    <3>4. client[c].typed + 1 <= MaxTyped  BY <1>1, <3>1 DEF Keyboard
    <3> QED  BY <3>2, <3>3, <3>4 DEF Keyboard
  <2> QED  BY <1>10, <2>1, <2>2 DEF StdinNext
<1>11. CASE LoopNext(c)
  <2>1. \/ WaitForEvents(c)
        \/ \E e \in client[c].batch :
             \/ SkipEvent(c, e) \/ ConnectionRefused(c, e) \/ ConnectionMade(c, e)
             \/ SendNext(c, e) \/ ReadNext(c, e) \/ StdinNext(c, e)
    BY <1>11 DEF LoopNext
  <2> QED  BY <1>6, <1>7, <1>8, <1>9, <1>10, <2>1
<1> QED  BY <1>5, <1>11 DEF ClientNext

LEMMA RisingOn ==
    ASSUME NEW s \in Seq(Utterance(Speaker)), NEW n \in Nat, Rising(s, n),
           NEW u \in Utterance(Speaker), u.n = n + 1
    PROVE  Rising(Append(s, u), n + 1)
<1>1. PICK t : t = Append(s, u)  OBVIOUS
<1>2. /\ Len(s) \in Nat /\ Len(t) = Len(s) + 1 /\ t[Len(s) + 1] = u
      /\ \A i \in 1 .. Len(s) : t[i] = s[i]
  BY <1>1, AppendProperties, LenProperties
<1>3. ASSUME NEW i \in 1 .. Len(t) PROVE i \in 1 .. Len(s) \/ (i = Len(s) + 1 /\ t[i].n = n + 1)
  BY <1>2
<1>4. ASSUME NEW i \in 1 .. Len(s) PROVE t[i].n = s[i].n /\ s[i].n \in 1 .. n
  BY <1>2 DEF Rising
<1>5. \A i \in 1 .. Len(t) : t[i].n \in 1 .. n + 1
  BY <1>3, <1>4
<1>6. ASSUME NEW i \in 1 .. Len(t), NEW j \in 1 .. Len(t), i < j PROVE t[i].n < t[j].n
  <2>1. i \in 1 .. Len(s)  BY <1>2, <1>6
  <2>2. CASE j \in 1 .. Len(s)
    <3>1. s[i].n < s[j].n  BY <1>6, <2>1, <2>2 DEF Rising
    <3> QED  BY <1>4, <2>1, <2>2, <3>1
  <2>3. CASE t[j].n = n + 1
    <3>1. t[i].n \in 1 .. n  BY <1>4, <2>1
    <3> QED  BY <2>3, <3>1
  <2> QED  BY <1>3, <2>2, <2>3
<1> QED  BY <1>1, <1>5, <1>6 DEF Rising

LEMMA NumberedStep ==
    ASSUME ClientInv, NEW c \in Conn, Outgoing(c), Numbered(c), ClientNext(c)
    PROVE  Numbered(c)'
<1>1. ClientTypeOK /\ Bounds(c)  BY DEF ClientInv
<1>2. /\ Keyboard(c)'
      /\ \/ /\ client'[c].typed = client[c].typed
            /\ client'[c].shown = client[c].shown \/ OutSame(c)
         \/ client'[c].typed = client[c].typed + 1
  BY <1>1, KeyboardStep DEF Numbered
<1>3. PICK o, n : o = Own(c) /\ n = client[c].typed  OBVIOUS
<1>4. n \in Nat /\ o \in Seq(Utterance(Speaker)) /\ Rising(o, n)
  <2>1. client[c].shown \in Seq(Utterance(Speaker)) /\ client[c].typed \in Nat
    BY <1>1, ClientTypes, ProgramFields
  <2>2. Own(c) \in Seq(Utterance(Speaker))  BY <2>1, OnlyType DEF Own
  <2> QED  BY <1>3, <2>1, <2>2 DEF Numbered
<1>5. Rising(o, n + 1)
  <2>1. \A k \in 1 .. n : k \in 1 .. n + 1  BY <1>4
  <2> QED  BY <1>4, <2>1 DEF Rising
<1>6. CASE Own(c)' = Own(c)
  <2>1. Rising(Own(c)', client'[c].typed)  BY <1>2, <1>3, <1>4, <1>5, <1>6
  <2> QED  BY <1>2, <2>1 DEF Numbered, Rising
<1>7. CASE Own(c)' # Own(c)
  <2>1. PICK m \in Msg : Queues(c, m)
    BY <1>7, Speech DEF Delivers
  <2>2. PICK u : u = m.says  OBVIOUS
  <2>3. u \in Utterance(Speaker) /\ u.n = n + 1 /\ Own(c)' = Append(o, u)
    BY <1>3, <1>7, <2>1, <2>2, MsgSays DEF Queues
  <2>4. ~OutSame(c)
    <3>1. SUFFICES ASSUME OutSame(c) PROVE FALSE  OBVIOUS
    <3>2. Unsent(c)' = Unsent(c)  BY <3>1 DEF OutSame, Unsent
    <3>3. PICK v \in Seq(Msg) : v = Unsent(c)  BY <1>1, UnsentShape
    <3>4. v = Append(v, m)  BY <2>1, <3>2, <3>3 DEF Queues
    <3>5. Len(Append(v, m)) = Len(v) + 1 /\ Len(v) \in Nat
      BY <3>3, AppendProperties, LenProperties
    <3> QED  BY <3>4, <3>5
  <2>5. client'[c].shown # client[c].shown  BY <1>7 DEF Own, ChatLines
  <2>6. client'[c].typed = n + 1  BY <1>2, <1>3, <2>4, <2>5
  <2>7. Rising(Append(o, u), n + 1)  BY <1>4, <2>3, RisingOn
  <2>8. Rising(Own(c)', client'[c].typed)  BY <2>3, <2>6, <2>7
  <2> QED  BY <1>2, <2>8 DEF Numbered, Rising
<1> QED  BY <1>6, <1>7

(* The first frame that reaches the client is the SERVER_HELLO, every later *)
(* one a broadcast or the server's farewell, and none is too long.          *)
Expectable(c) ==
    \A n \in 1 .. Len(wire[c]) :
        LET m == wire[c][n]
        IN  /\ protocol_payload_length_is_legal(m.size)
            /\ n = 1 => m.type = "SERVER_HELLO"
            /\ n > 1 => m.type = "BROADCAST" \/ (m.type = "CLOSE_CON" /\ m.size = 0)

(* The client finds no fault with such a server.                            *)
LEMMA ReadErrorCause ==
    ASSUME ClientTypeOK, NEW c \in Conn, Bounds(c), Stage(c), NEW e, ReadEnds(c, e),
           client'[c].state = "CONNECTION_ERROR", Expectable(c)
    PROVE  hangup[c] # "none"
<1>1. SUFFICES ASSUME hangup[c] = "none" PROVE FALSE  OBVIOUS
<1>2. client \in [Conn -> Program] /\ client[c] \in Program  BY DEF ClientTypeOK
<1>3. ~Eof(c, 0) /\ \A k : ~Eof(c, k)  BY <1>1 DEF Eof
<1>4. /\ Running(c) /\ client[c].state \in {"WAITING_FOR_SERVER_HELLO", "ACTIVE"}
  BY DEF ReadEnds, ReadEvent, Dispatched, event_is_read_network_message, Running
<1>16. PICK k \in ReadSizes(c) : \E i \in Stops(c, k) :
        client' = [client EXCEPT
                ![c].pc = "exited", ![c].batch = {},
                ![c].state =
                  IF /\ ~Eof(c, k) /\ Expected(c, i) = "BROADCAST"
                     /\ Input(c, k)[i].type = "CLOSE_CON"
                     /\ Input(c, k)[i].size = 0
                  THEN "CLOSED" ELSE "CONNECTION_ERROR",
                ![c].shown = Prints(c, Input(c, i - 1))]
  BY <1>3 DEF ReadEnds
<1>5. PICK i \in Stops(c, k) :
        client' = [client EXCEPT
                ![c].pc = "exited", ![c].batch = {},
                ![c].state =
                  IF /\ ~Eof(c, k) /\ Expected(c, i) = "BROADCAST"
                     /\ Input(c, k)[i].type = "CLOSE_CON"
                     /\ Input(c, k)[i].size = 0
                  THEN "CLOSED" ELSE "CONNECTION_ERROR",
                ![c].shown = Prints(c, Input(c, i - 1))]
  BY <1>16
<1>6. ~ (/\ Expected(c, i) = "BROADCAST" /\ Input(c, k)[i].type = "CLOSE_CON"
         /\ Input(c, k)[i].size = 0)
  BY <1>2, <1>3, <1>5 DEF Program
<1>7. /\ i \in 1 .. k
      /\ \/ ~protocol_payload_length_is_legal(Input(c, k)[i].size)
         \/ Input(c, k)[i].type # Expected(c, i)
  BY <1>3 DEF Stops
<1>8. k \in 0 .. Unread(c) /\ taken[c] \in Nat /\ Len(wire[c]) \in Nat
      /\ Unread(c) = Len(wire[c]) - taken[c]
  BY Unreads, ClientTypes DEF ReadSizes, Unread
<1>9. PICK n : n = taken[c] + i  OBVIOUS
<1>10. n \in 1 .. Len(wire[c]) /\ Input(c, k)[i] = wire[c][n]
  <2>1. n \in 1 .. Len(wire[c])  BY <1>7, <1>8, <1>9
  <2>2. Input(c, k)[i] = wire[c][taken[c] + i]  BY <1>7, <1>8, InputShape
  <2> QED  BY <1>9, <2>1, <2>2
<1>11. PICK m : m = wire[c][n]  OBVIOUS
<1>12. /\ protocol_payload_length_is_legal(m.size)
       /\ n = 1 => m.type = "SERVER_HELLO"
       /\ n > 1 => m.type = "BROADCAST" \/ (m.type = "CLOSE_CON" /\ m.size = 0)
  BY <1>10, <1>11 DEF Expectable
<1>13. m.type # Expected(c, i)  BY <1>7, <1>10, <1>11, <1>12
<1>14. CASE i = 1 /\ client[c].state = "WAITING_FOR_SERVER_HELLO"
  <2>1. taken[c] = 0  BY <1>4, <1>14 DEF Stage
  <2>2. n = 1  BY <1>9, <1>14, <2>1
  <2>3. Expected(c, i) = "SERVER_HELLO"  BY <1>14 DEF Expected
  <2> QED  BY <1>12, <1>13, <2>2, <2>3
<1>15. CASE ~(i = 1 /\ client[c].state = "WAITING_FOR_SERVER_HELLO")
  <2>1. Expected(c, i) = "BROADCAST"  BY <1>15 DEF Expected
  <2>2. i > 1 \/ taken[c] > 0  BY <1>4, <1>7, <1>15 DEF Stage, Greets
  <2>3. n > 1  BY <1>7, <1>8, <1>9, <2>2
  <2> QED  BY <1>6, <1>10, <1>11, <1>12, <1>13, <2>1, <2>3
<1> QED  BY <1>14, <1>15

LEMMA ErrorCause ==
    ASSUME ClientTypeOK, NEW c \in Conn, Bounds(c), Stage(c), Expectable(c),
           ClientNext(c), client'[c].state = "CONNECTION_ERROR"
    PROVE  \/ client[c].state = "CONNECTION_ERROR"
           \/ hangup[c] # "none"
           \/ ~protocol_payload_length_is_legal(client[c].name)
<1>1. client \in [Conn -> Program] /\ client[c] \in Program  BY DEF ClientTypeOK
<1>2. ASSUME NEW st, Leave(c, st) PROVE client'[c].state = st
  BY <1>1, <1>2 DEF Leave, Program
<1>3. ASSUME NEW batch, QueueHello(c, batch)
      PROVE  client'[c].state = "SENDING_CLIENT_HELLO"
  BY <1>1, <1>3 DEF QueueHello, Program
<1>4. CASE ConnectNext(c)
  <2>1. CASE ConnectLater(c)
    <3>1. client'[c].state = "CONNECTING"  BY <1>1, <2>1 DEF ConnectLater, Program
    <3> QED  BY <3>1
  <2>2. CASE ConnectNow(c)
    BY <1>3, <2>2 DEF ConnectNow
  <2>3. CASE ConnectFails(c)
    <3>1. client'[c].state = "NONE"  BY <1>2, <2>3 DEF ConnectFails
    <3> QED  BY <3>1
  <2> QED  BY <1>4, <2>1, <2>2, <2>3 DEF ConnectNext
<1>5. CASE WaitForEvents(c)
  <2>1. client'[c].state = client[c].state  BY <1>1, <1>5 DEF WaitForEvents, Program
  <2> QED  BY <2>1
<1>6. ASSUME NEW e \in client[c].batch,
             SkipEvent(c, e) \/ ConnectionRefused(c, e) \/ ConnectionMade(c, e)
      PROVE  \/ client[c].state = "CONNECTION_ERROR" \/ hangup[c] # "none"
             \/ ~protocol_payload_length_is_legal(client[c].name)
  <2>1. CASE SkipEvent(c, e)
    <3>1. client'[c].state = client[c].state  BY <1>1, <2>1 DEF SkipEvent, Program
    <3> QED  BY <3>1
  <2>2. CASE ConnectionRefused(c, e)  BY <2>2 DEF ConnectionRefused
  <2>3. CASE ConnectionMade(c, e)  BY <1>3, <2>3 DEF ConnectionMade
  <2> QED  BY <1>6, <2>1, <2>2, <2>3
<1>7. ASSUME NEW e \in client[c].batch, SendNext(c, e)
      PROVE  client[c].state = "CONNECTION_ERROR" \/ hangup[c] # "none"
  <2>1. CASE SendFails(c, e)  BY <2>1 DEF SendFails
  <2>2. CASE SendPartial(c, e)
    <3>1. client'[c].state = client[c].state
      BY <1>1, <2>2 DEF SendPartial, Written, Program
    <3> QED  BY <3>1
  <2>3. CASE SendDone(c, e)
    <3>1. client'[c].state = Greeted(client[c].state)
      BY <1>1, <2>3 DEF SendDone, Flushed, Program
    <3> QED  BY <3>1 DEF Greeted
  <2>4. CASE SendGoodbye(c, e)
    <3>1. client'[c].state = client[c].state
      BY <1>1, <2>4 DEF SendGoodbye, Flushed, Program
    <3> QED  BY <3>1
  <2> QED  BY <1>7, <2>1, <2>2, <2>3, <2>4 DEF SendNext
<1>8. ASSUME NEW e \in client[c].batch, ReadNext(c, e)
      PROVE  client[c].state = "CONNECTION_ERROR" \/ hangup[c] # "none"
  <2>1. CASE ReadFails(c, e)  BY <2>1 DEF ReadFails
  <2>2. CASE ReadFrames(c, e)
    <3>1. client'[c].state \in {"ACTIVE", client[c].state}
      BY <1>1, <2>2 DEF ReadFrames, Program
    <3> QED  BY <3>1
  <2>3. CASE ReadEnds(c, e)  BY <2>3, ReadErrorCause
  <2> QED  BY <1>8, <2>1, <2>2, <2>3 DEF ReadNext
<1>9. ASSUME NEW e \in client[c].batch, StdinNext(c, e)
      PROVE  client'[c].state = client[c].state
  <2>1. ASSUME NEW events PROVE Typed(c, e, events)[c].state = client[c].state
    BY <1>1 DEF Typed, Program
  <2>2. CASE StdinLeaves(c, e)  BY <1>2, <2>2 DEF StdinLeaves
  <2>3. CASE StdinIgnored(c, e)  BY <2>1, <2>3 DEF StdinIgnored
  <2>4. CASE StdinChat(c, e)
    BY <1>1, <2>4 DEF StdinChat, Typed, Program
  <2>5. CASE StdinQuit(c, e)
    BY <1>1, <2>5 DEF StdinQuit, Typed, Program
  <2> QED  BY <1>9, <2>2, <2>3, <2>4, <2>5 DEF StdinNext
<1> QED  BY <1>4, <1>5, <1>6, <1>7, <1>8, <1>9 DEF ClientNext, LoopNext

-----------------------------------------------------------------------------
(* The theorems.                                                            *)

(* The client's variables keep their types: the states are those of         *)
(* ConnectionState, and only messages are queued, printed and sent.         *)
THEOREM ClientTypeCorrect == Spec => []ClientTypeOK
<1>1. ClientInv => ClientTypeOK  BY DEF ClientInv
<1> QED  BY <1>1, ClientInvariant, PTL

(* What the user was shown as said, his hello and his farewell reach the    *)
(* server once each and in order, as far as they have been sent, and the    *)
(* rest of them is in the output buffer, whatever the writes took           *)
(* (handle_send_network_message_event, handle_read_stdin_event).            *)
THEOREM ClientLosesNothing == Spec => []NothingLostOrRepeated
<1> QED  BY NothingIsLost, ClientInvariant, PTL

(* The screen shows every broadcast that was read, in the order in which    *)
(* the server sent them, between the user's own lines                       *)
(* (handle_read_network_message_event).                                     *)
THEOREM ScreenIsRight == Spec => []ShowsWhatItReads
<1> QED  BY ClientPromises, ClientInvariant, PTL

(* The client asks for EPOLLOUT exactly while it has something to send,     *)
(* through all the handlers that fill or empty its buffer.                  *)
THEOREM ClientWatchesItsOutput == Spec => []WriteInterest
<1> QED  BY ClientPromises, ClientInvariant, PTL

(* Nothing is shown or said before both sides have said hello, whatever the *)
(* server sends first (handle_network_message).                             *)
THEOREM HelloComesFirst == Spec => []HelloBeforeChat
<1> QED  BY ClientPromises, ClientInvariant, PTL
=============================================================================
