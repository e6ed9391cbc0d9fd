------------------------------ MODULE MCFraming -----------------------------
(***************************************************************************)
(* Instances of the framing for TLC.                                       *)
(***************************************************************************)
EXTENDS Framing

(* A frame without payload, one with a byte, one whose payload looks like   *)
(* the header of an empty frame, and a type no program knows.               *)
MCMessages ==
    {[type |-> 6, payload |-> <<>>], [type |-> 3, payload |-> <<0>>],
     [type |-> 0, payload |-> <<3, 0, 0, 0, 0>>]}

(* Payloads of 65537 bytes and of 16 MiB are announced, and one of just     *)
(* 65536 bytes that never comes.                                            *)
MCHeaders == {<<3, 0, 1, 0, 1>>, <<3, 1, 0, 0, 0>>, <<3, 0, 1, 0, 0>>}
=============================================================================
