-------------------------- MODULE ClientProperties --------------------------
(***************************************************************************)
(* What the client promises to its user and to the server.                 *)
(***************************************************************************)
EXTENDS Client, SequencesExt

Running(c) == client[c].pc \notin {"start", "exited"}

(* What is queued and not yet taken by the kernel.                          *)
Unsent(c) == SubSeq(client[c].out_buffer, client[c].bytes_written + 1,
                    Len(client[c].out_buffer))

Own(c)       == Only(client[c].shown, ChatLines(c))
Others(c)    == Only(client[c].shown, Utterance(Speaker) \ ChatLines(c))

(* What the user of c has told the room: his name, the lines on his screen  *)
(* and, once he has typed "/quit", that he goes.                            *)
Told(c) ==
    IF client[c].state = "CONNECTING" THEN <<>>
    ELSE <<Hello(c).says>> \o Own(c) \o
         (IF client[c].quitting THEN <<Goodbye(c).says>> ELSE <<>>)

-----------------------------------------------------------------------------
(* Nothing the user was shown as said is lost or repeated on the way to the *)
(* server, and the hello is first and the farewell last: what the server    *)
(* has still to read and what is still to be sent are the rest of what was  *)
(* told, however the writes were cut (client.cpp queues, flushes and shows  *)
(* in different handlers).                                                  *)
NothingLostOrRepeated ==
    \A c \in Conn : Running(c) =>
        Says(arrived[c] \o Unsent(c))
          = SubSeq(Told(c), sent[c] - Len(arrived[c]) + 1, Len(Told(c)))

(* A running client has shown every broadcast of what it has read, in that  *)
(* order, and one that has ended shows no others (one read may bring the    *)
(* SERVER_HELLO, broadcasts and the end of the stream together).            *)
ReadBroadcasts(c) == Says(Only(SubSeq(wire[c], 1, taken[c]), Broadcasts))
ShowsWhatItReads ==
    \A c \in Conn :
        IF Running(c) THEN Others(c) = ReadBroadcasts(c)
        ELSE IsPrefix(Others(c), ReadBroadcasts(c))

(* From the hello on, the interest in EPOLLOUT follows the output buffer,   *)
(* whatever handler filled or emptied it: a line never waits for ever, and  *)
(* the loop does not spin on a socket that can be written.                  *)
WriteInterest ==
    \A c \in Conn : Running(c) /\ client[c].state # "CONNECTING" =>
        (client[c].out_buffer # <<>> <=> "EPOLLOUT" \in client[c].interest)

(* Nothing is on the user's screen, and none of his lines is queued, before *)
(* the client has introduced itself and the first frame of the server was a *)
(* SERVER_HELLO.                                                            *)
HelloBeforeChat ==
    \A c \in Conn : client[c].shown # <<>> =>
        sent[c] > 0 /\ taken[c] > 0 /\ wire[c][1].type = "SERVER_HELLO"

-----------------------------------------------------------------------------
(* Liveness, under FairSpec.                                                *)

(* "/quit" ends the program, with everything queued handed to the kernel,   *)
(* or because the connection failed.                                        *)
QuitEnds ==
    \A c \in Conn : client[c].quitting
        ~> (Exited(c) /\ (client[c].out_buffer = <<>> \/ hangup[c] = "rst"))

(* A client notices that its server has gone, in whatever state it is.      *)
EndIsNoticed ==
    \A c \in Conn : (Running(c) /\ hangup[c] # "none") ~> Exited(c)
=============================================================================
