----------------------------- MODULE MCBackend ------------------------------
(***************************************************************************)
(* Instances of the server over its event library for TLC.                 *)
(***************************************************************************)
EXTENDS Backend, TLC

MCHello == {[type |-> "CLIENT_HELLO", size |-> 5]}

MCNumber == 1 .. MaxFrames + MaxLines

Symmetry == Permutations(Conn) \cup Permutations(Fd) \cup Permutations(Address)
=============================================================================
