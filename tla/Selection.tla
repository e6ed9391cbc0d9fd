----------------------------- MODULE Selection ------------------------------
(***************************************************************************)
(* The elements of a sequence that lie in a set, in their order, and the   *)
(* utterances a sequence of frames carries.                                *)
(*                                                                         *)
(* Only is the SelectSeq of the module Sequences with a set in place of    *)
(* the predicate; written as a recursive function it can be reasoned about.*)
(***************************************************************************)
EXTENDS Naturals, Sequences

Only(s, S) ==
    LET upTo[i \in 0 .. Len(s)] ==
          IF i = 0 THEN <<>>
          ELSE IF s[i] \in S THEN Append(upTo[i - 1], s[i]) ELSE upTo[i - 1]
    IN  upTo[Len(s)]

Says(frames) == [i \in 1 .. Len(frames) |-> frames[i].says]
=============================================================================
