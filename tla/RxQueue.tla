------------------------------ MODULE RxQueue ------------------------------
(***************************************************************************)
(* What the receive path promises its callers: a queue of whole frames,     *)
(* taken one at a time in the order of arrival.  RxRing implements it on    *)
(* the card's ring; Net and Tcp take their frames from it.                  *)
(***************************************************************************)
EXTENDS Sequences

CONSTANTS Frame, None       \* the frames, and the absence of one

VARIABLES queue, current    \* frames not yet taken; the frame the caller works on

Init == queue = <<>> /\ current = None

Arrive(f) == queue' = Append(queue, f) /\ UNCHANGED current

Take ==
    /\ queue # <<>>
    /\ current' = Head(queue)
    /\ queue' = Tail(queue)

Finish == current # None /\ current' = None /\ UNCHANGED queue

Next == (\E f \in Frame : Arrive(f)) \/ Take \/ Finish

Spec == Init /\ [][Next]_<<queue, current>>
=============================================================================
