------------------------------ MODULE MCClient ------------------------------
(***************************************************************************)
(* Instances of the client for TLC.                                        *)
(***************************************************************************)
EXTENDS ClientProperties, TLC

Frame(type, size) == [type |-> type, size |-> size]

(* What the repository's own server sends.                                  *)
MCReplies == {Frame("SERVER_HELLO", 5), Frame("BROADCAST", 9), Frame("CLOSE_CON", 0)}

(* And what it never sends: a frame that is too long, one of another type,  *)
(* a CLOSE_CON with a payload.                                              *)
MCAnyReplies ==
    MCReplies \cup {Frame("BROADCAST", MAX_PAYLOAD_SIZE + 1), Frame("CHAT", 5),
                    Frame("CLOSE_CON", 1)}

(* A line, an empty one, and both sides of the limit.                       *)
MCTypedSizes == {0, MAX_PAYLOAD_SIZE, MAX_PAYLOAD_SIZE + 1}
MCNameSizes  == {5, MAX_PAYLOAD_SIZE + 1}
=============================================================================
