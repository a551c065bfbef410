----------------------------- MODULE FrameFifo -----------------------------
(***************************************************************************)
(* What a frame queue of network_handler_task.c promises: a bounded queue  *)
(* that drops the frames that do not fit and gives the others out once,    *)
(* unchanged, in the order they came in.                                   *)
(***************************************************************************)
EXTENDS Naturals, Sequences

CONSTANTS Frame,    \* the frames
          Capacity  \* how many frames wait at most

VARIABLES waiting,  \* the frames accepted and not finished with yet
          handled   \* the frame its handler works on, if there is one

Init == waiting = <<>> /\ handled = <<>>

Offer(f) == /\ waiting' = IF Len(waiting) < Capacity THEN Append(waiting, f)
                          ELSE waiting
            /\ UNCHANGED handled

(* The handler works on a frame before it makes room for another.          *)
Handle == /\ waiting # <<>> /\ handled = <<>>
          /\ handled' = <<Head(waiting)>>
          /\ UNCHANGED waiting

Finish == /\ handled # <<>>
          /\ waiting' = Tail(waiting)
          /\ handled' = <<>>

Next == (\E f \in Frame : Offer(f)) \/ Handle \/ Finish

Spec == Init /\ [][Next]_<<waiting, handled>>
=============================================================================
