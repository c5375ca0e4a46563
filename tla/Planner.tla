-------------------------------- MODULE Planner --------------------------------
(***************************************************************************)
(* What plan_gif_upload decides: which frames of a GIF are sent, at which  *)
(* rate, and what the user is told.  The file is opened and read twice,    *)
(* once to count and once to encode, and may be replaced in between.  A    *)
(* frame is its index, a file its delays in ms; pixels are left out.       *)
(***************************************************************************)
EXTENDS Choreography, FiniteSets

CONSTANTS
    Files,        \* what may be at the path: [delays, fault]
    Asked,        \* what the user may ask for: [fps, max], each None or a number
    MaxStored,    \* GIF_MAX_FRAMES
    FpsMin, FpsMax, FpsDefault

None == 0

ASSUME PlannerAssumption ==
    /\ MaxStored \in Nat \ {0}
    /\ FpsMin \in Nat \ {0} /\ FpsMax \in Nat /\ FpsDefault \in FpsMin..FpsMax
    /\ Files # {} /\ Asked # {}
    /\ Files \subseteq [delays : Seq(Nat), fault : {"none", "unreadable", "torn"}]
    /\ \A a \in Asked : a.fps \in {None} \cup FpsMin..FpsMax /\ a.max \in {None} \cup 1..MaxStored

VARIABLES
    step,      \* how far the planner is
    file,      \* what is at the path
    swapped,   \* whether the file was replaced since the first pass
    asked,     \* fps and max_frames of this call
    counted,   \* the delays the first pass read, of which it keeps a tally
    keep,      \* the indices to encode
    frames,    \* the frames the second pass encoded
    plan       \* what was decided

vars == <<step, file, swapped, asked, counted, keep, frames, plan>>

NoPlan == [rate |-> 0, total |-> 0, secs |-> 0, why |-> "nothing", suggested |-> None]

\* Why the file's own rate was not used, if it was not.
Reasons == {"nothing", "OutOfRange", "Variable", "Unspecified"}

TypeOK ==
    /\ step \in {"idle", "count", "walk", "decide", "planned", "failed"}
    /\ file \in Files /\ asked \in Asked /\ swapped \in BOOLEAN
    /\ counted \in Seq(Nat) /\ keep \in Seq(Nat) /\ frames \in Seq(Nat)
    /\ plan \in [rate : Nat, total : Nat, secs : Nat, why : Reasons, suggested : Nat]

\* round() of a quotient, halves away from zero.
RoundDiv(a, b) == (2 * a + b) \div (2 * b)

Clamp(x, lo, hi) == IF x < lo THEN lo ELSE IF x > hi THEN hi ELSE x

--------------------------------------------------------------------------------
(***************************************************************************)
(* Which frames.                                                           *)
(***************************************************************************)
Refused(n, max) == IF max = None THEN n > MaxStored ELSE max > MaxStored

\* Mutant: every (n / limit)-th frame, so that the animation loses its end.
SampleByStride(n, limit) == [i \in 1..limit |-> RoundDiv((i - 1) * n, limit)]

\* Mutant: shifted to count from zero a second time.
SampleShiftedTwice(n, limit) == [i \in 1..limit |-> RoundDiv((i - 1) * (n - 1), limit - 1) - 1]

Sample(n, limit) == [i \in 1..limit |-> RoundDiv((i - 1) * (n - 1), limit - 1)]

SelectFrames(n, max) ==
    CASE max = None \/ n <= max -> [i \in 1..n |-> i - 1]
      [] n > max /\ max = 1     -> <<0>>
      [] n > max /\ max > 1     -> Sample(n, max)

--------------------------------------------------------------------------------
(***************************************************************************)
(* At which rate.  Of the delays only four numbers are kept: how many, the *)
(* first, whether the others equal it, and their sum.  A uniform delay is  *)
(* a rate if the keyboard can store it; the range is checked of the exact  *)
(* quotient, which is rounded afterwards.                                  *)
(***************************************************************************)
NoTally == [count |-> 0, first |-> 0, all_equal |-> TRUE, total |-> 0]

Tallied(t, ms) ==
    [count |-> t.count + 1, first |-> IF t.count = 0 THEN ms ELSE t.first,
     all_equal |-> t.all_equal /\ (t.count > 0 => ms = t.first), total |-> t.total + ms]

Tally(delays) == FoldLeft(Tallied, NoTally, delays)

\* Mutant: rounded first, and the range checked of what came out.
OutOfRangeOnceRounded(first) == RoundDiv(1000, first) \notin FpsMin..FpsMax

OutOfRange(first) == 1000 < FpsMin * first \/ FpsMax * first < 1000

FallbackReason(t) ==
    CASE t.all_equal /\ t.first = 0 -> "Unspecified"
      [] t.all_equal /\ t.first > 0 -> IF OutOfRange(t.first) THEN "OutOfRange" ELSE "nothing"
      [] ~t.all_equal               -> "Variable"

OrDefault(t) == IF FallbackReason(t) = "nothing" THEN RoundDiv(1000, t.first) ELSE FpsDefault

\* gif_frames_iter, and every frame it yields.
Readable(f) == f.fault = "none"

\* Every frame is walked, counted from zero; the chosen ones are pushed.
Encoded(delays, chosen) ==
    LET push(sent, i) == IF i - 1 \in ToSet(chosen) THEN Append(sent, i - 1) ELSE sent IN
    FoldLeftDomain(push, <<>>, delays)

--------------------------------------------------------------------------------
Init ==
    /\ step = "count"
    /\ file \in Files /\ asked \in Asked
    /\ swapped = FALSE
    /\ counted = <<>> /\ keep = <<>> /\ frames = <<>>
    /\ plan = NoPlan

CountFrames ==
    LET n == Len(file.delays) IN
    /\ step = "count"
    /\ Readable(file) /\ n > 0 /\ ~Refused(n, asked.max)
    /\ step' = "walk"
    /\ counted' = file.delays
    /\ keep' = SelectFrames(n, asked.max)
    /\ UNCHANGED <<file, swapped, asked, frames, plan>>

Reject ==
    LET n == Len(file.delays) IN
    /\ \/ step = "count" /\ (~Readable(file) \/ n = 0 \/ Refused(n, asked.max))
       \/ step = "walk" /\ ~Readable(file)
    /\ step' = "failed"
    /\ UNCHANGED <<file, swapped, asked, counted, keep, frames, plan>>

\* Mutant: the indices are taken to start at one.
WalkFramesShifted ==
    /\ step = "walk" /\ Readable(file)
    /\ step' = "decide"
    /\ frames' = SelectSeq([i \in DOMAIN file.delays |-> i], LAMBDA i : i \in ToSet(keep))
    /\ UNCHANGED <<file, swapped, asked, counted, keep, plan>>

\* Every frame the file now holds is walked; the chosen ones are encoded.
WalkFrames ==
    /\ step = "walk" /\ Readable(file)
    /\ step' = "decide"
    /\ frames' = Encoded(file.delays, keep)
    /\ UNCHANGED <<file, swapped, asked, counted, keep, plan>>

Decide ==
    LET k == Len(frames)
        n == Len(counted)
        rate == IF asked.fps # None THEN asked.fps ELSE OrDefault(Tally(counted)) IN
    /\ step = "decide"
    /\ step' = "planned"
    /\ plan' = [rate |-> rate,
                total |-> GifReportCount(k),
                secs |-> 3 * DivCeil(k, SlowEvery) + k,
                why |-> IF asked.fps # None THEN "nothing" ELSE FallbackReason(Tally(counted)),
                suggested |-> IF k < n THEN Clamp(RoundDiv(rate * k, n), FpsMin, FpsMax)
                              ELSE None]
    /\ UNCHANGED <<file, swapped, asked, counted, keep, frames>>

\* Somebody else writes the file.
Replace ==
    /\ step = "walk" /\ ~swapped
    /\ swapped' = TRUE
    /\ file' \in Files
    /\ UNCHANGED <<step, asked, counted, keep, frames, plan>>

Over == step \in {"planned", "failed"} /\ UNCHANGED vars

Next == CountFrames \/ Reject \/ WalkFrames \/ Decide \/ Replace \/ Over

Spec == Init /\ [][Next]_vars

--------------------------------------------------------------------------------
Planned == step = "planned"

(***************************************************************************)
(* The sample still reads as the same motion: it starts and ends with the  *)
(* animation, never repeats a frame, and no gap is more than one frame     *)
(* longer than another.                                                    *)
(***************************************************************************)
SampleIsEven ==
    keep # <<>> =>
        LET gap(i) == keep[i + 1] - keep[i]
            Gaps == {gap(i) : i \in 1..(Len(keep) - 1)} IN
        /\ keep[1] = 0
        /\ Len(keep) > 1 => keep[Len(keep)] = Len(counted) - 1
        /\ \A g \in Gaps : g >= 1
        /\ Gaps # {} => Max(Gaps) - Min(Gaps) <= 1

(***************************************************************************)
(* Whatever happened to the file between the passes, nothing is planned    *)
(* that the keyboard cannot store, and the size byte of the session never  *)
(* wraps; what is encoded was chosen, no more frames are claimed than were *)
(* counted, and of a file left alone nothing chosen is missing.            *)
(***************************************************************************)
PlanIsSound ==
    Planned =>
        /\ Len(frames) <= MaxStored /\ plan.rate \in FpsMin..FpsMax
        /\ Len(frames) <= Len(counted)
        /\ ToSet(frames) \subseteq ToSet(keep)
        /\ ~swapped => frames = keep /\ counted = file.delays

(***************************************************************************)
(* The rate is not silently another one: without a word of warning the     *)
(* frames are shown for as long as the file says, each to within half a    *)
(* frame per second, and the file's rate is one the keyboard can store.    *)
(* And the warning is true: delays said to differ do, delays said to be    *)
(* missing are, and a rate said to be out of range is none that could be   *)
(* stored.                                                                 *)
(***************************************************************************)
RateIsTheFiles ==
    Planned /\ asked.fps = None =>
        LET Waits == {counted[i] : i \in DOMAIN counted}
            Stored(d) == FpsMin * d <= 1000 /\ 1000 <= FpsMax * d
            Shown(d) == 2 * (plan.rate * d - 1000) \in -d..d IN
        CASE plan.why = "nothing"     -> \A d \in Waits : Stored(d) /\ Shown(d)
          [] plan.why = "Variable"    -> Cardinality(Waits) > 1
          [] plan.why = "Unspecified" -> Waits = {0}
          [] plan.why = "OutOfRange"  -> \A d \in Waits : d > 0 /\ ~Stored(d)

--------------------------------------------------------------------------------
(***************************************************************************)
(* What the messages say of a sampled animation.                           *)
(***************************************************************************)
Duration == FoldSeq(LAMBDA d, sum : d + sum, 0, counted)

(***************************************************************************)
(* A sampled animation plays frames/counted as long as the original, give  *)
(* or take a factor of two for the rounding of the rate.                   *)
(***************************************************************************)
ShareIsTrue ==
    Planned /\ plan.suggested # None /\ Duration > 0 =>
        /\ 1000 * Len(counted) <= 2 * Duration * plan.rate
        /\ Duration * plan.rate <= 2 * 1000 * Len(counted)
================================================================================
