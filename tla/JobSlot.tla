-------------------------------- MODULE JobSlot --------------------------------
(***************************************************************************)
(* What the interface and its worker promise about jobs, and no more:      *)
(* "the queue holds one".  A job is handed over, taken, answered, and its  *)
(* answer read, in that order, before the next can be handed over; unless  *)
(* the session ends, every job gets that far.                              *)
(***************************************************************************)
VARIABLES slot, over

slotVars == <<slot, over>>

Init == slot = "free" /\ over = FALSE

Turn(from, to) == ~over /\ slot = from /\ slot' = to /\ UNCHANGED over

HandOver == Turn("free", "queued")
Take     == Turn("queued", "running")
Answer   == Turn("running", "answered")
Collect  == Turn("answered", "free")
End      == ~over /\ over' = TRUE /\ UNCHANGED slot

Next == HandOver \/ Take \/ Answer \/ Collect \/ End

Spec == Init /\ [][Next]_slotVars

Fairness ==
    /\ WF_slotVars(Take)
    /\ WF_slotVars(Answer)
    /\ WF_slotVars(Collect)

FairSpec == Spec /\ Fairness
================================================================================
