------------------------------ MODULE MCServer ------------------------------
(***************************************************************************)
(* Instances of the server for TLC.                                        *)
(***************************************************************************)
EXTENDS ServerRoom, TLC

Frame(type, size) == [type |-> type, size |-> size]

(* The frames the repository's own client sends.                            *)
MCFrames == {Frame("CLIENT_HELLO", 5), Frame("CHAT", 5), Frame("CLOSE_CON", 0)}

(* Without the one that leaves.                                             *)
MCChatFrames == {Frame("CLIENT_HELLO", 5), Frame("CHAT", 5)}

(* A handshake and a frame no client may send.                              *)
MCGarbage == {Frame("CLIENT_HELLO", 5), Frame("BROADCAST", 5)}

(* Payloads around the 64 KiB limit: a name whose arrival can be announced  *)
(* and whose departure cannot, one that cannot be announced at all, lines   *)
(* that can just be forwarded and just not, an over-long frame, a CLOSE_CON *)
(* that is not empty.                                                       *)
MCLimitFrames ==
    {Frame("CLIENT_HELLO", n) : n \in {1, MAX_PAYLOAD_SIZE - 22, MAX_PAYLOAD_SIZE}} \cup
    {Frame("CHAT", n) : n \in {MAX_PAYLOAD_SIZE - 4, MAX_PAYLOAD_SIZE - 3, MAX_PAYLOAD_SIZE + 1}} \cup
    {Frame("CLOSE_CON", n) : n \in {0, 1}}

(* Handshakes with a name of ordinary length and with the two of those.     *)
MCHellos ==
    {Frame("CLIENT_HELLO", n) : n \in {5, MAX_PAYLOAD_SIZE - 22, MAX_PAYLOAD_SIZE}}

(* A line of the greatest legal length.                                     *)
MCLongChat == {Frame("CLIENT_HELLO", 5), Frame("CHAT", MAX_PAYLOAD_SIZE)}

(* What the server's user types: nothing, a line that can just be sent and  *)
(* one that cannot (his name has 5 characters), one that is over-long.      *)
MCLineSizes == {0, MAX_PAYLOAD_SIZE - 8, MAX_PAYLOAD_SIZE - 7, MAX_PAYLOAD_SIZE + 1}

MCHostNameSizes == {5, MAX_PAYLOAD_SIZE + 1}

MCNumber == 1 .. MaxFrames + MaxLines

Symmetry == Permutations(Conn) \cup Permutations(Fd)
=============================================================================
