---------------------------------- MODULE Plans ----------------------------------
(***************************************************************************)
(* plan.rs as a whole: the plan of a GIF, or that of a picture.            *)
(***************************************************************************)
EXTENDS Planner, Picture

PlansTypeOK == TypeOK /\ PictureTypeOK

PlansInit ==
    \/ Init /\ PictureInit(FALSE)
    \/ /\ step = "idle"
       /\ file = CHOOSE f \in Files : TRUE
       /\ asked = CHOOSE a \in Asked : TRUE
       /\ swapped = FALSE /\ counted = <<>> /\ keep = <<>> /\ frames = <<>> /\ plan = NoPlan
       /\ PictureInit(TRUE)

PlanGif == Next /\ UNCHANGED pictureVars

PlanAPicture == PictureNext /\ UNCHANGED vars

PlansNext == PlanGif \/ PlanAPicture

PlansSpec == PlansInit /\ [][PlansNext]_<<vars, pictureVars>>
================================================================================
