------------------------------ MODULE FrameQueue ------------------------------
(***************************************************************************)
(* What net_poll expects of the network card and its driver: the frames    *)
(* that the card does not drop come out once each, whole and in the order  *)
(* of their arrival.                                                       *)
(***************************************************************************)
EXTENDS Sequences

CONSTANTS Frames, NoFrame

VARIABLES
    queue,  \* accepted by the card, not yet read
    frame   \* the frame being handled, or NoFrame

Init == queue = <<>> /\ frame = NoFrame

Arrive(f) == queue' = Append(queue, f) /\ UNCHANGED frame

Read ==
    /\ frame = NoFrame
    /\ queue # <<>>
    /\ frame' = Head(queue)
    /\ queue' = Tail(queue)

Handled ==
    /\ frame # NoFrame
    /\ frame' = NoFrame
    /\ UNCHANGED queue

Next == (\E f \in Frames : Arrive(f)) \/ Read \/ Handled

Spec == Init /\ [][Next]_<<queue, frame>>
==============================================================================
