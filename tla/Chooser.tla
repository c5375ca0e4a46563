--------------------------------- MODULE Chooser ---------------------------------
(***************************************************************************)
(* Choosing what to upload: from the menu through the browser and the      *)
(* confirm screen to the worker that sends it, while files are replaced    *)
(* and removed and the keyboard comes and goes.  The threads take turns as *)
(* in Tui; here is what passes between them.                               *)
(***************************************************************************)
EXTENDS Browser, Confirmation

CONSTANTS
    Editable,       \* bound: the sliders and switches that are moved
    FirstDisk,      \* what each file holds at first
    Unsteady,       \* bound: the files that change
    MaxGeneration   \* bound: previews, replans and departures

VARIABLES
    home,             \* what HOME names, or NoPlace
    disk,             \* what each file holds, or Gone
    device,           \* whether the interface believes in a keyboard
    screen,           \* Screen
    browse_dir,       \* where the browser opens
    job,              \* what the worker was given, or Nothing
    counted,          \* what it found in a first pass over a GIF, or Nothing
    reply,            \* what it has answered, or Nothing
    job_pending, replan_pending, preview_generation,
    seen,             \* what was drawn when Enter was pressed, or Nothing
    sent              \* what the keyboard then got, or Nothing

gateVars == <<job_pending, replan_pending, preview_generation>>
workVars == <<job, counted, reply, seen, sent>>
worldVars == <<home, disk>>
vars == <<worldVars, device, screen, browse_dir, gateVars, workVars>>

Nothing == [kind |-> "none"]
Menu == [kind |-> "Menu"]
Gone == [frames |-> 0, rate |-> NoRate, torn |-> TRUE]

On(kind) == screen.kind = kind
Missing == {e \in FileEntries : disk[e] = Gone}

ASSUME ChooserAssumption ==
    /\ FirstDisk \in [FileEntries -> Contents \cup {Gone}]
    /\ Editable \subseteq Sliders \cup Switches \cup {"Rate"} /\ Unsteady \subseteq FileEntries
    /\ MaxGeneration \in Nat

TypeOK ==
    /\ home \in Homes /\ disk \in [FileEntries -> Contents \cup {Gone}] /\ device \in BOOLEAN
    /\ On("Menu") \/ On("Browse") \/ On("Confirm")
    /\ On("Browse") => screen \in BrowseType
    /\ On("Confirm") =>
          /\ screen.file \in FileEntries /\ screen.row + 1 \in DOMAIN Rows(screen)
          /\ screen.adj \in Adjustments /\ screen.plan.adj \in Adjustments
          /\ RateShown(screen) \in FpsMin..FpsMax
    /\ browse_dir \in Places
    /\ job.kind \in {"none", "Preview", "Replan", "Upload"}
    /\ counted \in Contents \cup {Nothing}
    /\ reply.kind \in {"none", "Preview", "Replan", "Finished"}
    /\ job_pending \in BOOLEAN /\ replan_pending \in BOOLEAN
    /\ preview_generation \in 0..MaxGeneration

Init ==
    /\ home \in Homes /\ disk = FirstDisk /\ device \in BOOLEAN
    /\ screen = Menu
    /\ browse_dir \in Places
    /\ job = Nothing /\ counted = Nothing /\ reply = Nothing
    /\ job_pending = FALSE /\ replan_pending = FALSE /\ preview_generation = 0
    /\ seen = Nothing /\ sent = Nothing

Show(s) == screen' = s
Supersede == preview_generation < MaxGeneration /\ preview_generation' = preview_generation + 1
Hand(j) == job' = j /\ job_pending' = TRUE

--------------------------------------------------------------------------------
(***************************************************************************)
(* The menu and the browser.                                               *)
(***************************************************************************)
OpenBrowser ==
    /\ On("Menu") /\ device /\ ~job_pending
    /\ \E gif \in BOOLEAN : Show(OpenAt(Missing, browse_dir, gif))
    /\ UNCHANGED <<worldVars, device, browse_dir, gateVars, workVars>>

BrowseLeave ==
    /\ On("Browse")
    /\ Supersede
    /\ Show(Menu)
    /\ UNCHANGED <<worldVars, device, browse_dir, job_pending, replan_pending, workVars>>

BrowseMove ==
    /\ On("Browse")
    /\ Show(CursorUp(screen)) \/ Show(CursorDown(screen))
    /\ UNCHANGED <<worldVars, device, browse_dir, gateVars, workVars>>

BrowseElsewhere ==
    /\ On("Browse")
    /\ \/ Show(ToParent(Missing, screen))
       \/ Show(ToHome(Missing, screen, home))
       \/ ~job_pending /\ \E e \in UnderCursor(screen) :
             e.isDir /\ Show(OpenAt(Missing, e.to, screen.gif))
    /\ browse_dir' = screen'.dir
    /\ UNCHANGED <<worldVars, device, gateVars, workVars>>

BrowsePick ==
    /\ On("Browse") /\ ~job_pending
    /\ \E e \in UnderCursor(screen) :
          /\ ~e.isDir
          /\ Supersede
          /\ Hand([kind |-> "Preview", file |-> e, gif |-> screen.gif,
                   generation |-> preview_generation'])
    /\ UNCHANGED <<worldVars, device, screen, browse_dir, replan_pending, counted, reply, seen,
                   sent>>

--------------------------------------------------------------------------------
(***************************************************************************)
(* The confirm screen.  While a replan is in flight only Esc does anything.*)
(***************************************************************************)
ConfirmLeave ==
    /\ On("Confirm")
    /\ Supersede
    /\ Show(Menu)
    /\ UNCHANGED <<worldVars, device, browse_dir, job_pending, replan_pending, workVars>>

ConfirmEdit ==
    /\ On("Confirm") /\ ~replan_pending
    /\ \/ \E up \in BOOLEAN : Show(MoveRow(screen, up))
       \/ /\ RowAt(screen) \in Editable
          /\ \/ \E up \in BOOLEAN : Show(AdjustRow(screen, up))
             \/ Show(ToggleRow(screen))
       \/ Show(Reset(screen))
    /\ UNCHANGED <<worldVars, device, browse_dir, gateVars, workVars>>

ConfirmPlacement ==
    /\ On("Confirm") /\ ~replan_pending
    /\ RowAt(screen) = "Placement"
    /\ Supersede
    /\ replan_pending' = TRUE
    /\ Hand([kind |-> "Replan", file |-> screen.file, gif |-> screen.gif,
             placement |-> Other(screen.plan.placement), adj |-> screen.adj,
             rate_override |-> screen.rate_override, row |-> screen.row,
             generation |-> preview_generation'])
    /\ UNCHANGED <<worldVars, device, screen, browse_dir, counted, reply, seen, sent>>

ConfirmUpload ==
    /\ On("Confirm") /\ ~replan_pending /\ ~job_pending /\ device
    /\ Hand([kind |-> "Upload", plan |-> Publish(screen)])
    /\ seen' = [kind |-> "drawn", what |-> Drawn(screen)]
    /\ Show(Menu)
    /\ UNCHANGED <<worldVars, device, browse_dir, replan_pending, preview_generation,
                   counted, reply, sent>>

--------------------------------------------------------------------------------
(***************************************************************************)
(* The worker, and what the interface makes of its answers.                *)
(***************************************************************************)
Building == job.kind \in {"Preview", "Replan"}
FirstPass == job.gif /\ counted = Nothing

CountFrames ==
    /\ Building /\ FirstPass
    /\ Countable(disk[job.file])
    /\ counted' = disk[job.file]
    /\ UNCHANGED <<worldVars, device, screen, browse_dir, gateVars, job, reply, seen, sent>>

AnswerBuild(ok, pending) ==
    /\ reply' = [kind |-> job.kind, generation |-> job.generation, ok |-> ok, pending |-> pending]
    /\ job' = Nothing /\ counted' = Nothing
    /\ UNCHANGED <<worldVars, device, screen, browse_dir, gateVars, seen, sent>>

\* Either pass may find that the file will not do.
BuildFails ==
    /\ Building
    /\ IF FirstPass THEN ~Countable(disk[job.file]) ELSE ~Decodes(disk[job.file], job.gif)
    /\ AnswerBuild(FALSE, Nothing)

\* A picture is read once, and a GIF anew after it was counted.
Build ==
    /\ Building /\ ~FirstPass
    /\ LET content == disk[job.file]
           source == IF job.gif THEN counted ELSE content IN
       /\ Decodes(content, job.gif)
       /\ AnswerBuild(TRUE,
              IF job.kind = "Preview"
              THEN BuildPending(job.file, source, content, job.gif, "contain", Unadjusted,
                                NoRate, 0)
              ELSE BuildPending(job.file, source, content, job.gif, job.placement, job.adj,
                                job.rate_override, job.row))

\* Mutant: the worker takes the frames as they came from the screen.
SendAsTheyCame ==
    /\ job.kind = "Upload"
    /\ sent' = [kind |-> "sent", frames |-> job.plan.frames, rate |-> job.plan.rate]
    /\ reply' = [kind |-> "Finished"]
    /\ job' = Nothing
    /\ UNCHANGED <<worldVars, device, screen, browse_dir, gateVars, counted, seen>>

SendPlan ==
    /\ job.kind = "Upload"
    /\ LET plan == Reencode(job.plan) IN
          sent' = [kind |-> "sent", frames |-> plan.frames, rate |-> plan.rate]
    /\ reply' = [kind |-> "Finished"]
    /\ job' = Nothing
    /\ UNCHANGED <<worldVars, device, screen, browse_dir, gateVars, counted, seen>>

OnAnswer ==
    /\ reply # Nothing
    /\ reply' = Nothing /\ job_pending' = FALSE
    /\ UNCHANGED <<worldVars, device, browse_dir, preview_generation, job, counted>>

OnPreview ==
    /\ reply.kind = "Preview" /\ OnAnswer
    /\ screen' =
          IF reply.generation # preview_generation THEN screen
          ELSE IF reply.ok THEN reply.pending
          ELSE IF On("Browse") THEN ReadAgain(Missing, screen) ELSE screen
    /\ UNCHANGED <<replan_pending, seen, sent>>

OnReplan ==
    /\ reply.kind = "Replan" /\ OnAnswer
    /\ replan_pending' = FALSE
    /\ screen' = IF reply.generation = preview_generation /\ reply.ok THEN reply.pending
                 ELSE screen
    /\ UNCHANGED <<seen, sent>>

OnFinished ==
    /\ reply.kind = "Finished" /\ OnAnswer
    /\ Show(Menu)
    /\ seen' = Nothing /\ sent' = Nothing
    /\ UNCHANGED replan_pending

--------------------------------------------------------------------------------
Plug ==
    /\ device' = ~device
    /\ UNCHANGED <<worldVars, screen, browse_dir, gateVars, workVars>>

\* A file is replaced, or removed.
ChangeFile ==
    /\ \E f \in Unsteady, c \in Contents \cup {Gone} : disk' = [disk EXCEPT ![f] = c]
    /\ UNCHANGED <<home, device, screen, browse_dir, gateVars, workVars>>

Next ==
    \/ OpenBrowser \/ BrowseLeave \/ BrowseMove \/ BrowseElsewhere \/ BrowsePick
    \/ ConfirmLeave \/ ConfirmEdit \/ ConfirmPlacement \/ ConfirmUpload
    \/ CountFrames \/ BuildFails \/ Build \/ SendPlan \/ OnPreview \/ OnReplan \/ OnFinished
    \/ Plug \/ ChangeFile

Spec == Init /\ [][Next]_vars

--------------------------------------------------------------------------------
(***************************************************************************)
(* What you looked at is what you send: every frame that reaches the       *)
(* keyboard has the adjustments, the placement and the file that were on   *)
(* the screen when Enter was pressed, the first one is the preview itself, *)
(* there are as many as the screen said, and the rate is the one shown;    *)
(* whatever was edited, replanned, replaced on the disk or refused before, *)
(* and although only one frame was ever encoded anew on the way.  They are *)
(* all the frames of that file, unless it has more than the first pass had *)
(* counted in what it replaced.                                            *)
(***************************************************************************)
WhatYouSawIsSent ==
    sent # Nothing =>
        LET drawn == seen.what IN
        /\ sent.rate = drawn.rate
        /\ Len(sent.frames) = drawn.frames
        /\ sent.frames = <<>> <=> drawn.preview = Blank
        /\ sent.frames # <<>> =>
              /\ sent.frames[1] = drawn.preview
              /\ drawn.frames = Least(drawn.source_count, drawn.preview.panel.of.frames)
        /\ \A i \in DOMAIN sent.frames :
              sent.frames[i] =
                  AdjustAndEncode([of |-> drawn.preview.panel.of, number |-> i,
                                   placement |-> drawn.placement], drawn.adj)

(***************************************************************************)
(* The confirm screen does not contradict itself: the previewed frame, if  *)
(* there is one, has the sliders, switches and placement of the rows       *)
(* beside it, a warning about the rate speaks of the rate shown, and a     *)
(* rate that is neither warned about nor marked as chosen is the file's    *)
(* own, as the first pass found it; so it is the rate of the previewed     *)
(* file unless that replaced another between the passes.  (The summary, a  *)
(* note of kind Info, names the planner's rate and does not follow.)       *)
(***************************************************************************)
ScreenAgrees ==
    On("Confirm") =>
        LET drawn == Drawn(screen)
            Warned == {n.rate : n \in {n \in drawn.notes : n.kind = "RateFallback"}}
            source == screen.plan.source IN
        /\ drawn.preview # Blank =>
              /\ drawn.preview.adj = screen.adj
              /\ drawn.preview.panel.placement = drawn.placement
        /\ Warned \subseteq {drawn.rate}
        /\ screen.gif /\ drawn.rate # source.rate /\ Warned = {} => drawn.chosen

(***************************************************************************)
(* The browser's cursor is on something that is listed, or nothing is; the *)
(* list is of the directory named above it, which is also the one the next *)
(* visit starts from.                                                      *)
(***************************************************************************)
CursorOnListed ==
    On("Browse") =>
        /\ screen.entries # <<>> => screen.selected \in 0..(Len(screen.entries) - 1)
        /\ \A i \in DOMAIN screen.entries :
              Listed(screen.entries[i], screen.dir, screen.gif)
        /\ browse_dir = screen.dir
================================================================================
