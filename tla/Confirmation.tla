------------------------------- MODULE Confirmation -------------------------------
(***************************************************************************)
(* The values of the confirm screen: Pending and its rows in tui/app.rs,   *)
(* how the worker builds and re-encodes it, and what tui/ui.rs draws of    *)
(* it.  A frame of the panel is the file's content, the frame's number and *)
(* the placement; encoding adds the adjustments and tells any two apart.   *)
(***************************************************************************)
EXTENDS Integers, Sequences

CONSTANTS
    Steps,                       \* slider steps from 0 to either end
    FpsMin, FpsMax, FpsDefault,
    MaxStored,                   \* GIF_MAX_FRAMES
    Contents                     \* what a file may hold: [frames, rate]

NoRate == 0     \* neither a rate nor an override of one

ASSUME ConfirmationAssumption ==
    /\ Steps \in Nat \ {0} /\ MaxStored \in Nat
    /\ FpsMin \in Nat \ {0} /\ FpsMax \in Nat /\ FpsDefault \in FpsMin..FpsMax
    /\ Contents \subseteq [frames : Nat, rate : {NoRate} \cup FpsMin..FpsMax, torn : BOOLEAN]

Sliders == {"Brightness", "Chroma", "Saturation"}
Switches == {"Grayscale", "Sharpen", "Blur"}

PictureRows ==
    <<"Placement", "Brightness", "Chroma", "Saturation", "Grayscale", "Sharpen", "Blur">>
GifRows == <<"Rate">> \o PictureRows

Adjustments == [slider : [Sliders -> -Steps..Steps], on : SUBSET Switches]
Unadjusted == [slider |-> [s \in Sliders |-> 0], on |-> {}]

Other(placement) == IF placement = "contain" THEN "fill" ELSE "contain"

--------------------------------------------------------------------------------
(***************************************************************************)
(* Plans.  A GIF is read twice: source is what the first pass finds, with  *)
(* its number of frames and its rate, and content is what the second pass  *)
(* takes the pictures from, as many as were counted at most.               *)
(***************************************************************************)
Least(a, b) == IF a < b THEN a ELSE b
Most(a, b) == IF a > b THEN a ELSE b

\* The first pass refuses a GIF without frames, or with more than the keyboard stores.
Countable(content) == ~content.torn /\ content.frames \in 1..MaxStored

\* The second pass takes what it finds, none at all included.
Decodes(content, gif) == ~content.torn /\ (~gif => content.frames > 0)

Panel(source, content, placement) ==
    [i \in 1..Least(source.frames, content.frames) |->
        [of |-> content, number |-> i, placement |-> placement]]

AdjustAndEncode(panel, adj) == [panel |-> panel, adj |-> adj]

EncodeAll(panels, adj) == [i \in DOMAIN panels |-> AdjustAndEncode(panels[i], adj)]

MakePlan(source, content, gif, placement, adj) ==
    LET panels == Panel(source, content, placement) IN
    [source |-> source, panels |-> panels, frames |-> EncodeAll(panels, adj),
     placement |-> placement, adj |-> adj,
     rate |-> IF source.rate = NoRate THEN FpsDefault ELSE source.rate,
     fallback |-> gif /\ source.rate = NoRate]

\* Every frame, on the worker.
Reencode(plan) == [plan EXCEPT !.frames = EncodeAll(plan.panels, plan.adj)]

BuildPending(file, source, content, gif, placement, adj, rate_override, row) ==
    [kind |-> "Confirm", file |-> file, gif |-> gif,
     plan |-> MakePlan(source, content, gif, placement, adj),
     rate_override |-> rate_override, adj |-> adj, row |-> row]

--------------------------------------------------------------------------------
(***************************************************************************)
(* Keys.                                                                   *)
(***************************************************************************)
Rows(p) == IF p.gif THEN GifRows ELSE PictureRows
RowAt(p) == Rows(p)[p.row + 1]

MoveRow(p, up) ==
    [p EXCEPT !.row = IF up THEN Most(@ - 1, 0) ELSE Least(@ + 1, Len(Rows(p)) - 1)]

\* The frame the preview shows, if there is one; of a picture that is all there is.
ReencodePreview(p) ==
    CASE ~p.gif -> [p EXCEPT !.plan = Reencode([p.plan EXCEPT !.adj = p.adj])]
      [] p.gif /\ p.plan.frames = <<>> -> p
      [] p.gif /\ p.plan.frames # <<>> ->
            [p EXCEPT !.plan.frames[1] = AdjustAndEncode(p.plan.panels[1], p.adj)]

RateShown(p) == IF p.rate_override = NoRate THEN p.plan.rate ELSE p.rate_override

\* Back at the plan's own rate is not a choice to override it.
Nudged(p, up) ==
    LET next == IF up THEN Least(RateShown(p) + 1, FpsMax) ELSE Most(RateShown(p) - 1, FpsMin) IN
    [p EXCEPT !.rate_override = IF next = p.plan.rate THEN NoRate ELSE next]

\* Mutant: the step is taken and the end of the slider is not looked at.
SlidFreely(p, up) ==
    ReencodePreview([p EXCEPT !.adj.slider[RowAt(p)] = IF up THEN @ + 1 ELSE @ - 1])

\* A slider at its end stays there, and nothing is encoded anew.
Slid(p, up) ==
    LET old == p.adj.slider[RowAt(p)]
        next == IF up THEN Least(old + 1, Steps) ELSE Most(old - 1, -Steps) IN
    IF next = old THEN p ELSE ReencodePreview([p EXCEPT !.adj.slider[RowAt(p)] = next])

AdjustRow(p, up) ==
    CASE RowAt(p) = "Rate" -> Nudged(p, up)
      [] RowAt(p) \in Sliders -> Slid(p, up)
      [] OTHER -> p

ToggleRow(p) ==
    IF RowAt(p) \in Switches
    THEN ReencodePreview([p EXCEPT !.adj.on = (@ \cup {RowAt(p)}) \ (@ \cap {RowAt(p)})])
    ELSE p

\* Mutant: the sliders go back and the picture does not.
ResetUnseen(p) == [p EXCEPT !.adj = Unadjusted]

Reset(p) == ReencodePreview([p EXCEPT !.adj = Unadjusted])

\* What Enter hands to the worker.
Publish(p) ==
    [p.plan EXCEPT !.adj = p.adj,
                   !.rate = IF p.gif THEN RateShown(p) ELSE @]

--------------------------------------------------------------------------------
(***************************************************************************)
(* What is drawn.  A note speaks of the rate it was planned with.  A rate  *)
(* chosen by hand takes away the warning, but not the notes of kind Info:  *)
(* the summary, and what is left out of an animation that was cut short.   *)
(***************************************************************************)
Note(kind, rate) == [kind |-> kind, rate |-> rate]

PlanNotes(p) ==
    (IF p.gif THEN {Note("Info", p.plan.rate)} ELSE {})
        \cup (IF p.plan.fallback THEN {Note("RateFallback", p.plan.rate)} ELSE {})

\* An empty pane for a plan without frames.
Blank == [panel |-> "none"]
Preview(p) == IF p.plan.frames = <<>> THEN Blank ELSE p.plan.frames[1]

Drawn(p) ==
    [preview |-> Preview(p), frames |-> Len(p.plan.frames),
     source_count |-> p.plan.source.frames,
     rate |-> RateShown(p), chosen |-> p.rate_override # NoRate,
     placement |-> p.plan.placement, adj |-> p.adj,
     notes |-> {n \in PlanNotes(p) : p.rate_override = NoRate \/ n.kind # "RateFallback"}]
================================================================================
