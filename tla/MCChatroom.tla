----------------------------- MODULE MCChatroom -----------------------------
(***************************************************************************)
(* Instances of the whole system for TLC.                                  *)
(***************************************************************************)
EXTENDS Chatroom, TLC

MCNumber == 1 .. MaxTyped + MaxLines

Symmetry == Permutations(Conn) \cup Permutations(Fd)
=============================================================================
