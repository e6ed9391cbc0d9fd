----------------------------- MODULE ServerRoom -----------------------------
(***************************************************************************)
(* The server implements the chat room.  A guest is present while his      *)
(* connection is active, counting one whose end was read but whose last    *)
(* frames are still being parsed; he has been told what the kernel has     *)
(* taken for him and what is queued behind it; the server's screen is the  *)
(* record of what was said.                                                *)
(***************************************************************************)
EXTENDS ServerProperties

CONSTANT Number     \* numbers of the lines, enough for every bound

ASSUME NumberAssumption == 1 .. MaxFrames \subseteq Number /\ 1 .. MaxLines \subseteq Number

Present == {c \in Conn : Running /\ conn[c].state \in {"ACTIVE", "CLOSED"}}

Phase == IF ~Running THEN "over" ELSE IF server_closing THEN "closing" ELSE "open"

Room == INSTANCE Room WITH
          Guest   <- Conn,
          Owner   <- Host,
          phase   <- Phase,
          present <- Present,
          said    <- screen,
          heard   <- [c \in Conn |-> IF c \in Present THEN Heard(c) ELSE <<>>]

(* Every step of the server or of a remote program is a step of the room or *)
(* leaves the room as it is: in particular all guests hear one conversation *)
(* in one order (the broadcasts of server.cpp against its own screen).      *)
ImplementsRoom == Room!RoomSpec
=============================================================================
