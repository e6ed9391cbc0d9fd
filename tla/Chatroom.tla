------------------------------ MODULE Chatroom ------------------------------
(***************************************************************************)
(* The whole system: the server of the module Server, and at the other end *)
(* of every connection the client of the module Client in place of an      *)
(* arbitrary program.  They share the sockets: what the server's send()    *)
(* appends to wire[c] the client's recv() takes, and what the client's     *)
(* send() appends to arrived[c] the server's recv() takes.                 *)
(***************************************************************************)
EXTENDS ServerRoom

CONSTANTS
    NameSizes, TypedSizes, MaxTyped     \* as in Client

ASSUME ChatroomAssumption ==
    /\ NameSizes \subseteq Nat \ {0} /\ NameSizes # {}
    /\ TypedSizes \subseteq Nat
    /\ MaxTyped \in Nat
    /\ 1 .. MaxTyped \subseteq Number

VARIABLES
    client,     \* the client programs
    hangup      \* how the server's closing reached each of them

Client == INSTANCE ClientProperties WITH Replies <- {}, MaxReplies <- 0

clientVars == <<client, hangup>>
allVars    == <<vars, clientVars>>

(* How the close() of the server may reach c.  A connection that was still  *)
(* in the accept queue is reset, and so is one with input the server did    *)
(* not read; whether it read what had arrived before this step is left open.*)
HangupAfter(c) ==
    IF ~(Linked(c) /\ tcp'[c] = "closed") THEN {hangup[c]}
    ELSE IF tcp[c] = "queued"             THEN {"rst"}
    ELSE IF arrived[c] # <<>>             THEN {"fin", "rst"}
    ELSE {"fin"}

ServerStep ==
    /\ ServerNext
    /\ hangup' \in {h \in [Conn -> {"none", "fin", "rst"}] :
                       \A c \in Conn : h[c] \in HangupAfter(c)}
    /\ UNCHANGED client

(* Nobody listens any more once the server has exited.                      *)
Listening == pc # "exited"

ClientStep(c) ==
    /\ Client!ClientNext(c)
    /\ ~Listening => UNCHANGED tcp
    /\ UNCHANGED serverVars

NetworkStep(c) ==
    /\ Client!NetworkNext(c)
    /\ ~Listening => UNCHANGED tcp
    /\ UNCHANGED serverVars

RoomInit == Init /\ Client!ClientInit

ChatroomNext ==
    \/ ServerStep
    \/ \E c \in Conn : ClientStep(c) \/ NetworkStep(c)

ChatroomSpec == RoomInit /\ [][ChatroomNext]_allVars

(* No thread is preempted for ever, and what reaches a closed socket is     *)
(* answered.  The users need not type anything.                             *)
FairChatroom ==
    /\ ChatroomSpec
    /\ WF_allVars(ServerStep)
    /\ \A c \in Conn : WF_allVars(ClientStep(c)) /\ WF_allVars(NetworkStep(c))

-----------------------------------------------------------------------------
(* Everybody's screen shows the same conversation: what a client has shown  *)
(* of the others' words is, in order and without a gap, what the server's   *)
(* screen shows from the arrival of that client on, as far as it has got.   *)
(* So it holds from one program's screen to the other's, across both        *)
(* programs' buffers, the network, and every way of leaving.                *)
SameConversation ==
    \A c \in Conn :
        LET heard == Client!Others(c)
        IN  heard # <<>> =>
              \E i \in At(c, "connected") :
                Client!IsPrefix(heard, Only(SubSeq(screen, i, Len(screen)),
                                            Utterance(Speaker) \ ChatLines(c)))

(* The lines of a client appear on the server's screen as on its own, none  *)
(* twice, none left out before another; only a tail may be missing.         *)
LinesArrive ==
    \A c \in Conn : Client!IsPrefix(ChatsOf(c), Client!Own(c))

(* The two programs never find fault with each other: while it runs, the    *)
(* server closes only the connections of clients that have left, and a      *)
(* client ends in CONNECTION_ERROR only when its server has gone, has reset *)
(* the connection, or could not be reached, or when its own name is too     *)
(* long to be sent at all.                                                  *)
NoMisunderstanding ==
    \A c \in Conn :
        /\ Running /\ tcp[c] = "closed" => Client!Exited(c)
        /\ client[c].state = "CONNECTION_ERROR" =>
             hangup[c] # "none" \/ ~protocol_payload_length_is_legal(client[c].name)

-----------------------------------------------------------------------------
(* Liveness, under FairChatroom.                                            *)

(* A client that has ended, however it did, leaves the room, unless the     *)
(* server is closing the room or has ended.                                 *)
DepartureNoticed ==
    \A c \in Conn : (Client!Exited(c) /\ c \in connections)
                    ~> (c \notin connections \/ server_closing)

(* When the server's user has closed the room every program ends, provided  *)
(* that no client's user types "/quit" as well.                             *)
RoomCloses ==
    server_closing ~>
       \/ \E c \in Conn : client[c].quitting
       \/ pc = "exited" /\ \A c \in Conn : ~Client!Running(c)

-----------------------------------------------------------------------------
(* Claims of the documentation that the code does not keep.                 *)

(* INSR.md:520: Charlie disconnects, and Bob cleans up Charlie's socket     *)
(* without affecting Alice.  One client's leaving must not stop the server  *)
(* while another client is in the room.                                     *)
LeavingSparesRoom ==
    ~ \E c, d \in connections :
        /\ pc = "cleanup" /\ ~server_closing
        /\ client[c].quitting /\ conn[c].state = "CONNECTION_ERROR"
        /\ conn[d].state = "ACTIVE" /\ client[d].pc # "exited"

(* INSR.md:673: disconnects do not freeze the application.  "/quit" must    *)
(* end the client, whatever the server's user does.                         *)
QuitAlwaysEnds ==
    \A c \in Conn : client[c].quitting ~> Client!Exited(c)

(* client.cpp:216: "handle all complete messages".  When the server has     *)
(* sent CLOSE_CON and closed in good order, a client that has read all of   *)
(* that has shown all of it.                                                *)
AllMessagesAreHandled ==
    \A c \in Conn :
        (/\ Client!Exited(c) /\ hangup[c] = "fin" /\ taken[c] = Len(wire[c])
         /\ \E i \in 1 .. Len(wire[c]) : wire[c][i].type = "CLOSE_CON")
        => Client!Others(c) = Client!ReadBroadcasts(c)
=============================================================================
