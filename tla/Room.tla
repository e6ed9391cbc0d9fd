-------------------------------- MODULE Room --------------------------------
(***************************************************************************)
(* What a chat room is to the people in it, with no sockets, buffers or    *)
(* descriptors: things are said one after the other, and whoever is in the *)
(* room hears all of them, in that order, from the moment of entering, but *)
(* for the lines of his own.                                               *)
(*                                                                         *)
(* This is the promise of src/INSR.md and src/README.md that server.cpp    *)
(* has to keep; ServerRoom states that it does.                            *)
(***************************************************************************)
EXTENDS Naturals, Sequences

CONSTANTS
    Guest,      \* those who may enter
    Owner,      \* the server's user
    Number      \* numbers of the lines somebody says

VARIABLES
    phase,      \* "open", "closing" once the owner has typed /quit, "over"
    present,    \* the guests in the room
    said,       \* everything that was said, in the order it was said
    heard       \* what each guest in the room has been told

roomVars == <<phase, present, said, heard>>

Remark == [who : Guest \cup {Owner}, what : {"chat", "connected", "disconnected", "closing"},
           n : Number \cup {0}]

RoomInit ==
    /\ phase = "open"
    /\ present = {}
    /\ said = <<>>
    /\ heard = [c \in Guest |-> <<>>]

(* u is said and the audience hears it.                                     *)
Tell(audience, u) ==
    /\ said' = Append(said, u)
    /\ heard' = [c \in Guest |->
                   IF c \in audience THEN Append(heard[c], u)
                   ELSE IF c \in present' THEN heard[c] ELSE <<>>]

Notice(who, what) == [who |-> who, what |-> what, n |-> 0]

(* A guest enters once, and hears that he did.  Entering is still possible  *)
(* while the room closes: the guest was being greeted when it began.        *)
Enter(c) ==
    /\ phase # "over" /\ c \notin present
    /\ \A i \in 1 .. Len(said) : said[i].who # c
    /\ present' = present \cup {c}
    /\ Tell(present', Notice(c, "connected"))
    /\ UNCHANGED phase

(* The lines of one speaker are said in the order in which he typed them.   *)
Say(who, n) ==
    /\ phase = "open" /\ who \in present \cup {Owner}
    /\ \A i \in 1 .. Len(said) :
         said[i].who = who /\ said[i].what = "chat" => said[i].n < n
    /\ present' = present
    /\ Tell(present \ {who}, [who |-> who, what |-> "chat", n |-> n])
    /\ UNCHANGED phase

Leave(c) ==
    /\ phase = "open" /\ c \in present
    /\ present' = present \ {c}
    /\ Tell(present', Notice(c, "disconnected"))
    /\ UNCHANGED phase

(* A guest whose connection fails or breaks the protocol goes unannounced.  *)
Vanish(c) ==
    /\ phase = "open" /\ c \in present
    /\ present' = present \ {c}
    /\ heard' = [heard EXCEPT ![c] = <<>>]
    /\ UNCHANGED <<phase, said>>

StartClosing ==
    /\ phase = "open" /\ phase' = "closing"
    /\ present' = present
    /\ Tell(present, Notice(Owner, "closing"))

(* The room may end at any moment.  The last remark may go unheard: the     *)
(* owner's screen shows it before it is found that it cannot be sent.       *)
End ==
    /\ phase # "over" /\ phase' = "over"
    /\ present' = {}
    /\ said' = said \/ \E u \in Remark : said' = Append(said, u)
    /\ heard' = [c \in Guest |-> <<>>]

RoomNext ==
    \/ \E c \in Guest : Enter(c) \/ Leave(c) \/ Vanish(c)
    \/ \E who \in Guest \cup {Owner}, n \in Number : Say(who, n)
    \/ StartClosing
    \/ End

RoomSpec == RoomInit /\ [][RoomNext]_roomVars
=============================================================================
