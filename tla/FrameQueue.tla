----------------------------- MODULE FrameQueue -----------------------------
(***************************************************************************)
(* What the frame protocol promises over a byte stream: the messages one   *)
(* side queues come out on the other side whole, once and in order, until  *)
(* the stream is found to be broken; after that nothing comes out.         *)
(***************************************************************************)
EXTENDS Sequences

CONSTANT Messages

VARIABLES
    waiting,    \* queued, not yet delivered
    delivered,
    broken

queueVars == <<waiting, delivered, broken>>

QueueInit == waiting = <<>> /\ delivered = <<>> /\ broken = FALSE

Put == /\ \E m \in Messages : waiting' = Append(waiting, m)
       /\ UNCHANGED <<delivered, broken>>

Get == /\ ~broken /\ waiting # <<>>
       /\ delivered' = Append(delivered, Head(waiting))
       /\ waiting' = Tail(waiting)
       /\ UNCHANGED broken

Break == ~broken /\ broken' = TRUE /\ UNCHANGED <<waiting, delivered>>

QueueSpec == QueueInit /\ [][Put \/ Get \/ Break]_queueVars
=============================================================================
