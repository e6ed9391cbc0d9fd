------------------------------ MODULE Framing -------------------------------
(***************************************************************************)
(* The frames of the protocol as bytes (src/src/network/protocol.cpp) on   *)
(* their way through one direction of a connection: the out_buffer of the  *)
(* sender, the kernels, the in_buffer of the receiver.  A write may stop   *)
(* after any byte and a read may begin and end inside a header or a        *)
(* payload; the sender may also be a foreign program that announces a      *)
(* payload longer than the protocol allows, or may end inside a frame.     *)
(***************************************************************************)
EXTENDS Integers, Sequences

CONSTANTS
    Messages,       \* [type, payload] that may be sent
    Headers,        \* byte sequences a foreign program may send at the end
    MaxMessages,    \* bound: messages queued
    LinkSize        \* bound: bytes the kernels hold

Byte == 0 .. 255

FRAME_HEADER_SIZE == 5
MAX_PAYLOAD_SIZE  == 64 * 1024

protocol_payload_length_is_legal_Below(n) == n < MAX_PAYLOAD_SIZE
protocol_payload_length_is_legal(n) == n <= MAX_PAYLOAD_SIZE

VARIABLES
    out_buffer, bytes_written,  \* of the sender's Connection
    link,       \* bytes the kernels hold
    ended,      \* the sender has closed its end
    foreign,    \* what the sender has sent of Headers, <<>> if nothing
    in_buffer, state,           \* of the receiver's Connection
    pc,         \* the receiver: waiting for input, parsing it, or gone
    queued,     \* every message given to protocol_queue_message
    parsed      \* every message protocol_parse_message has returned

senderVars   == <<out_buffer, bytes_written, ended, foreign, queued>>
receiverVars == <<in_buffer, state, pc, parsed>>
vars         == <<senderVars, link, receiverVars>>

FramingTypeOK ==
    /\ out_buffer \in Seq(Byte) /\ bytes_written \in 0 .. Len(out_buffer)
    /\ link \in Seq(Byte)
    /\ ended \in BOOLEAN /\ foreign \in Headers \cup {<<>>}
    /\ in_buffer \in Seq(Byte)
    /\ state \in {"ACTIVE", "CLOSED", "CONNECTION_ERROR"}
    /\ pc \in {"wait", "parse", "gone"}
    /\ queued \in Seq(Messages)
    /\ parsed \in Seq([type : Byte, payload : Seq(Byte)])

Init ==
    /\ out_buffer = <<>> /\ bytes_written = 0 /\ link = <<>>
    /\ ended = FALSE /\ foreign = <<>>
    /\ in_buffer = <<>> /\ state = "ACTIVE" /\ pc = "wait"
    /\ queued = <<>> /\ parsed = <<>>

-----------------------------------------------------------------------------
(* The bytes of a frame: the type, the length in network byte order (htonl  *)
(* and memcpy), the payload.                                                *)

LengthBytes(n) ==
    <<n \div 16777216, (n \div 65536) % 256, (n \div 256) % 256, n % 256>>

Encode(m) == <<m.type>> \o LengthBytes(Len(m.payload)) \o m.payload

PayloadLength(b) == 16777216 * b[2] + 65536 * b[3] + 256 * b[4] + b[5]

HasHeader(b) == Len(b) >= FRAME_HEADER_SIZE
Oversized(b) == HasHeader(b) /\ ~protocol_payload_length_is_legal(PayloadLength(b))
FrameSize(b) == FRAME_HEADER_SIZE + PayloadLength(b)

HasFrame_Longer(b) == HasHeader(b) /\ ~Oversized(b) /\ Len(b) > FrameSize(b)
HasFrame(b) == HasHeader(b) /\ ~Oversized(b) /\ Len(b) >= FrameSize(b)

FirstMessage(b) ==
    [type |-> b[1], payload |-> SubSeq(b, FRAME_HEADER_SIZE + 1, FrameSize(b))]

WithoutFirst_KeepsOne(b) == SubSeq(b, FrameSize(b), Len(b))
WithoutFirst(b) == SubSeq(b, FrameSize(b) + 1, Len(b))

(* What a foreign program sends at the end does not hold a whole frame: it  *)
(* would be one of Messages otherwise.                                      *)
ASSUME FramingAssumption ==
    /\ Messages \subseteq [type : Byte, payload : Seq(Byte)]
    /\ \A m \in Messages : protocol_payload_length_is_legal(Len(m.payload))
    /\ Headers \subseteq Seq(Byte)
    /\ \A h \in Headers : ~HasFrame(h)
    /\ MaxMessages \in Nat /\ LinkSize \in Nat \ {0}

-----------------------------------------------------------------------------
(* The sender.                                                              *)

protocol_queue_message(m) ==
    /\ ~ended /\ foreign = <<>> /\ Len(queued) < MaxMessages
    /\ out_buffer' = out_buffer \o Encode(m)
    /\ queued' = Append(queued, m)
    /\ UNCHANGED <<bytes_written, ended, foreign, link, receiverVars>>

(* A foreign program goes on with a header: one the protocol does not       *)
(* allow, or one whose payload never comes.                                 *)
ForeignHeader ==
    /\ ~ended /\ foreign = <<>>
    /\ \E h \in Headers : out_buffer' = out_buffer \o h /\ foreign' = h
    /\ UNCHANGED <<bytes_written, ended, queued, link, receiverVars>>

Unsent == SubSeq(out_buffer, bytes_written + 1, Len(out_buffer))

Flushed_NotRewound == out_buffer' = <<>> /\ bytes_written' = bytes_written
Flushed == out_buffer' = <<>> /\ bytes_written' = 0

(* send() takes k bytes, then the kernel has no room left or a signal       *)
(* comes.                                                                   *)
connection_flush_out_buffer ==
    /\ ~ended
    /\ \E k \in 1 .. Len(Unsent) :
         /\ Len(link) + k <= LinkSize
         /\ link' = link \o SubSeq(Unsent, 1, k)
         /\ IF k = Len(Unsent)
            THEN Flushed
            ELSE bytes_written' = bytes_written + k /\ UNCHANGED out_buffer
    /\ UNCHANGED <<ended, foreign, queued, receiverVars>>

(* The sender goes away, perhaps with a frame half sent.                    *)
connection_cleanup ==
    /\ ~ended
    /\ ended' = TRUE
    /\ UNCHANGED <<out_buffer, bytes_written, foreign, queued, link, receiverVars>>

-----------------------------------------------------------------------------
(* The receiver: what an event loop calls when the socket is readable.      *)

(* recv() returns k bytes; behind the last one of an ended stream it        *)
(* returns 0.                                                               *)
connection_read_into_in_buffer ==
    /\ pc = "wait" /\ (link # <<>> \/ ended)
    /\ \E k \in 0 .. Len(link) :
         /\ k > 0 \/ link = <<>>
         /\ in_buffer' = in_buffer \o SubSeq(link, 1, k)
         /\ link' = SubSeq(link, k + 1, Len(link))
         /\ state' = IF ended /\ k = Len(link) THEN "CLOSED" ELSE state
    /\ pc' = "parse"
    /\ UNCHANGED <<senderVars, parsed>>

Parsing == pc = "parse" /\ UNCHANGED <<senderVars, link>>

(* One round of protocol_parse_message that returns a message, and the two  *)
(* that return none.                                                        *)
ParseMessage ==
    /\ Parsing /\ HasFrame(in_buffer)
    /\ parsed' = Append(parsed, FirstMessage(in_buffer))
    /\ in_buffer' = WithoutFirst(in_buffer)
    /\ UNCHANGED <<state, pc>>

ParseOversized ==
    /\ Parsing /\ Oversized(in_buffer)
    /\ state' = "CONNECTION_ERROR" /\ pc' = "gone"
    /\ UNCHANGED <<in_buffer, parsed>>

ParseIncomplete ==
    /\ Parsing /\ ~Oversized(in_buffer) /\ ~HasFrame(in_buffer)
    /\ pc' = IF state = "CLOSED" THEN "gone" ELSE "wait"
    /\ UNCHANGED <<in_buffer, state, parsed>>

protocol_parse_message == ParseMessage \/ ParseOversized \/ ParseIncomplete

-----------------------------------------------------------------------------
ReceiverNext == connection_read_into_in_buffer \/ protocol_parse_message

Next ==
    \/ \E m \in Messages : protocol_queue_message(m)
    \/ ForeignHeader
    \/ connection_flush_out_buffer
    \/ connection_cleanup
    \/ ReceiverNext

Spec == Init /\ [][Next]_vars

(* Both programs go on when they can.                                       *)
FairSpec == Spec /\ WF_vars(connection_flush_out_buffer) /\ WF_vars(ReceiverNext)

-----------------------------------------------------------------------------
(* INSR.md:665: frames are reconstructed correctly across arbitrary read    *)
(* boundaries.  The bytes implement a queue of messages.                    *)
Queue == INSTANCE FrameQueue WITH
           waiting   <- SubSeq(queued, Len(parsed) + 1, Len(queued)),
           delivered <- parsed,
           broken    <- state = "CONNECTION_ERROR"

ImplementsFrameQueue == Queue!QueueSpec

(* While the receiver waits for input, no frame it could parse and no       *)
(* header it would refuse lies in its buffer, and what does lie there is    *)
(* a part of the first message not yet parsed that lacks its last byte, or, *)
(* when all are parsed, the beginning of what a foreign program sent.       *)
NoFrameWaits ==
    pc = "wait" =>
      /\ ~HasFrame(in_buffer) /\ ~Oversized(in_buffer)
      /\ Len(parsed) < Len(queued) =>
           LET next == Encode(queued[Len(parsed) + 1])
           IN  \E n \in 0 .. Len(next) - 1 : in_buffer = SubSeq(next, 1, n)
      /\ Len(parsed) = Len(queued) => in_buffer = <<>> \/ foreign # <<>>

(* INSR.md:674: oversized frames are rejected safely.  A receiver gives up  *)
(* only on a header that announces more than 64 KiB, which is never one of  *)
(* a queued message, and not before it has parsed every message in front of *)
(* it; and once protocol_parse_message has looked at such a header, it has  *)
(* given up.                                                                *)
TooLong(b) == HasHeader(b) /\ PayloadLength(b) > 64 * 1024

RefusesExactlyTooLong ==
    /\ state = "CONNECTION_ERROR" => TooLong(foreign) /\ parsed = queued
    /\ TooLong(in_buffer) /\ pc # "parse" => state = "CONNECTION_ERROR"

(* Whatever is queued is parsed in the end, unless the sender goes away     *)
(* before it is sent.                                                       *)
EverythingArrives ==
    \A n \in 1 .. MaxMessages : Len(queued) = n ~> (Len(parsed) >= n \/ ended)
=============================================================================
