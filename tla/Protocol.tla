------------------------------ MODULE Protocol ------------------------------
(***************************************************************************)
(* The application protocol (src/src/network/protocol.cpp) and the wording  *)
(* of the room's announcements (src/src/frontend/formatPrint.cpp), at the  *)
(* granularity of whole frames.                                            *)
(*                                                                         *)
(* A frame keeps its type, the length of its payload and the utterance the *)
(* payload stands for.  Lengths are kept because the 64 KiB limit is       *)
(* applied to them at several places; characters are not.                  *)
(***************************************************************************)
EXTENDS Naturals, Sequences

MessageType == {"CLIENT_HELLO", "SERVER_HELLO", "CHAT", "BROADCAST",
                "ERROR_MESSAGE", "CLOSE_CON"}

MAX_PAYLOAD_SIZE == 64 * 1024

protocol_payload_length_is_legal(n) == n <= MAX_PAYLOAD_SIZE

(* What a payload says: a user name, a chat line, an announcement of the    *)
(* server, or nothing at all (CLOSE_CON).  n numbers the utterances of one  *)
(* speaker, so that two lines with the same text stay different.            *)
Topic == {"name", "chat", "connected", "disconnected", "closing", "nothing"}

Utterance(Speaker) == [who : Speaker, what : Topic, n : Nat]

Message(Speaker) ==
    [type : MessageType, size : Nat, says : Utterance(Speaker)]

(* Length of "[" + name + "] " + payload.                                   *)
FormattedSize(nameSize, payloadSize) == nameSize + payloadSize + 3

format_broadcast_message(nameSize, m) ==
    [type |-> "BROADCAST",
     size |-> FormattedSize(nameSize, m.size),
     says |-> m.says]

(* Length of the notices "`name` connected.", "`name` disconnected." and    *)
(* "room is closing.", which are broadcast in the name of "server".         *)
ServerNameSize == 6
NoticeSize(what, nameSize) ==
    CASE what = "connected"    -> nameSize + 13
      [] what = "disconnected" -> nameSize + 16
      [] what = "closing"      -> 16
=============================================================================
