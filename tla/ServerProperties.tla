-------------------------- MODULE ServerProperties --------------------------
(***************************************************************************)
(* What the server promises to the programs connected to it and to the     *)
(* people in the room.                                                     *)
(***************************************************************************)
EXTENDS Server, Selection

Running == pc \notin {"cleanup", "exited"}

(* Everything the server has committed to tell the remote end of c: what    *)
(* the kernel has taken, and what is still queued behind it.                *)
Stream(c) ==
    wire[c] \o SubSeq(conn[c].out_buffer, conn[c].bytes_written + 1,
                      Len(conn[c].out_buffer))

(* The broadcasts among it.                                                 *)
Heard(c) == Says(Only(Stream(c), Broadcasts))

-----------------------------------------------------------------------------
(* The interest in EPOLLOUT follows the output buffer, whatever handler     *)
(* filled or emptied it: a queued byte always wakes the loop up, and an     *)
(* empty buffer never makes it spin (server.cpp broadcasts, handshake,      *)
(* flush and shutdown all call epoll_fd_mod on their own).                  *)
WriteInterest ==
    Running => \A c \in connections :
        conn[c].out_buffer # <<>> <=> "EPOLLOUT" \in interest[c]

(* No event that still waits in the batch refers to a deleted connection or *)
(* to a descriptor that was closed and given to another client after        *)
(* epoll_wait returned (the handlers find the connection by descriptor).    *)
FreshEvents ==
    Running => \A e \in batch : e.owner # None =>
        /\ e.owner \in connections
        /\ get_connection_of(e.fd) = {e.owner}

(* Why that is so.  Live connections hold different descriptors, and none   *)
(* exists before it was accepted; the events of a batch belong to different *)
(* connections, each under the descriptor that connection still holds, and  *)
(* the event of the connection that is being parsed is no longer among      *)
(* them.                                                                    *)
LiveDescriptors ==
    /\ \A c \in connections : conn[c].fd \in Fd
    /\ \A c, d \in connections : conn[c].fd = conn[d].fd => c = d
    /\ \A c \in Conn : tcp[c] \in {"none", "queued"} => c \notin connections

EventOwners ==
    Running =>
    /\ \A e \in batch : IF e.owner = None
                         THEN e.fd \in {ListenFd, StdinFd}
                         ELSE e.owner \in connections /\ e.fd = conn[e.owner].fd
    /\ \A e1, e2 \in batch : e1.owner # None /\ e1.owner = e2.owner => e1 = e2
    /\ pc = "parse" => reader \in connections /\ \A e \in batch : e.owner # reader

EventDiscipline == LiveDescriptors /\ EventOwners

(* The first frame of every connection is its SERVER_HELLO and no other     *)
(* frame of the connection is one: no broadcast overtakes the handshake of  *)
(* a client that is being greeted.                                          *)
HelloFirst ==
    \A c \in Conn : \A i \in 1 .. Len(Stream(c)) :
        Stream(c)[i].type = "SERVER_HELLO" <=> i = 1

(* The chat lines of one client appear in the room in the order it sent     *)
(* them, none twice and none left out: the handshake took frame 1, the      *)
(* i-th line is frame i + 1.                                                *)
ChatsOf(c) == Only(screen, ChatLines(c))
ChatOrder ==
    \A c \in Conn : \A i \in 1 .. Len(ChatsOf(c)) : ChatsOf(c)[i].n = i + 1

At(c, what) == {i \in 1 .. Len(screen) : screen[i].who = c /\ screen[i].what = what}

(* A member of the room has been told everything the screen shows since his *)
(* own arrival was announced, in the order of the screen, except his own    *)
(* lines: all members hear one and the same conversation.                   *)
OneConversation ==
    Running => \A c \in Conn : conn[c].state \in {"ACTIVE", "CLOSED"} =>
        \E i \in At(c, "connected") :
            Heard(c) = Only(SubSeq(screen, i, Len(screen)),
                            Utterance(Speaker) \ ChatLines(c))

(* No frame the server commits itself to send is longer than the receiver   *)
(* accepts, although names and lines are only checked before they are put   *)
(* together to one payload.                                                 *)
StreamIsLegal ==
    \A c \in Conn : \A i \in 1 .. Len(Stream(c)) :
        protocol_payload_length_is_legal(Stream(c)[i].size)

(* When "/quit" ends the loop in good order (no connection failed), every   *)
(* byte was handed to the kernel, and every client that was active when     *)
(* the room was closed has been sent the notice and, next to it, CLOSE_CON. *)
(* A client that was still being greeted enters after the notice and gets   *)
(* neither.                                                                 *)
Announces(m, what) == m.type = "BROADCAST" /\ m.says.what = what
OrderlyClose ==
    (/\ server_closing /\ pc = "cleanup"
     /\ \A c \in connections : conn[c].state # "CONNECTION_ERROR")
    => \A c \in connections :
         /\ Stream(c) = wire[c]
         /\ conn[c].state = "ACTIVE" =>
              \/ \E i \in 1 .. Len(wire[c]) - 1 :
                   /\ Announces(wire[c][i], "closing")
                   /\ wire[c][i+1].type = "CLOSE_CON"
              \/ \E i \in At(Host, "closing"), j \in At(c, "connected") : i < j

-----------------------------------------------------------------------------
(* Liveness, under FairSpec.                                                *)

(* Once the server's user has typed /quit the program ends, unless it is    *)
(* held up by output for a client that does not read.                       *)
ClosingEnds ==
    server_closing ~>
       (pc = "exited" \/ \E c \in connections \ Readers : conn[c].out_buffer # <<>>)

(* What is queued for a client that reads is written, or its connection     *)
(* ends, also when other clients have stopped reading.                      *)
OutputDrains ==
    \A c \in Readers : (c \in connections /\ conn[c].out_buffer # <<>>)
                       ~> (c \notin connections \/ conn[c].out_buffer = <<>>)

(* A client that has hung up is removed from the room.                      *)
HangupsNoticed ==
    \A c \in Conn : (c \in connections /\ (fin[c] \/ rst[c]))
                    ~> (c \notin connections \/ server_closing)

-----------------------------------------------------------------------------
(* Claims of the documentation that the code does not keep.                 *)

(* INSR.md:520 and :673: a disconnect is cleaned up without affecting the   *)
(* others.  The server must not stop because one client's socket failed     *)
(* while another client is in the room.                                     *)
ResetSparesRoom ==
    ~ \E c, d \in connections :
        /\ pc = "cleanup"
        /\ rst[c] /\ conn[c].state = "CONNECTION_ERROR"
        /\ ~rst[d] /\ conn[d].state = "ACTIVE"

(* README.md:90: payloads are limited to 64 KiB.  A line within that limit  *)
(* must not put the connection it is forwarded to into CONNECTION_ERROR.    *)
LegalLinesAreForwarded ==
    \A c \in connections : conn[c].state = "CONNECTION_ERROR" => rst[c]

(* INSR.md:305: the receiver parses as many complete frames as possible.    *)
(* A frame in the buffer of an active client must not wait for ever.        *)
BufferedFramesAreParsed ==
    \A c \in Conn : (conn[c].state = "ACTIVE" /\ conn[c].in_buffer # <<>>)
                    ~> (conn[c].state # "ACTIVE" \/ conn[c].in_buffer = <<>>)
=============================================================================
