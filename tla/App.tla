---------------------------------- MODULE App ----------------------------------
(***************************************************************************)
(* The interface thread: struct App with its two functions on_key and      *)
(* on_update, and the event loop that calls them.  A turn of the loop      *)
(* drains every update, decides whether to leave, then waits up to TICK    *)
(* for one key.                                                            *)
(***************************************************************************)
EXTENDS Channels

CONSTANT MaxGeneration   \* bound: how often a session may bump preview_generation

VARIABLES
    device,              \* the header's DeviceState
    screen,              \* which screen is up, with what it holds
    quit_confirm,        \* "quit during an upload?" is on the screen
    quitting,            \* the quit was confirmed, the worker was told to stop
    should_quit,         \* the loop leaves at its next check
    final_message,       \* what is printed after the terminal is restored
    preview_generation,  \* which decode request is still wanted
    job_pending,         \* a job was handed over and has not answered
    replan_pending,      \* and it is a Replan
    ui,                  \* where the event loop is
    quit_deadline        \* CANCEL_GRACE is running

quitVars == <<quit_confirm, quitting, should_quit, final_message>>
gateVars == <<preview_generation, job_pending, replan_pending>>
loopVars == <<ui, quit_deadline>>
appVars == <<device, screen, quitVars, gateVars, loopVars>>

Menu == [kind |-> "Menu"]
Browse == [kind |-> "Browse"]
Confirm(p) == [kind |-> "Confirm", pending |-> p]
Running(n) == [kind |-> "Running", done |-> n]

\* What the gauge says: full only once nothing is left.
Percent(running) == (100 * running.done) \div UploadReports

ScreenType ==
    {Menu, Browse}
        \cup [kind : {"Confirm"}, pending : PendingType]
        \cup [kind : {"Running"}, done : Nat]

On(kind) == screen.kind = kind

AppTypeOK ==
    /\ device \in DeviceStates
    /\ screen \in ScreenType
    /\ quit_confirm \in BOOLEAN
    /\ quitting \in BOOLEAN
    /\ should_quit \in BOOLEAN
    /\ final_message \in {"none", "answer", "gave up"}
    /\ preview_generation \in Nat
    /\ job_pending \in BOOLEAN
    /\ replan_pending \in BOOLEAN
    /\ ui \in {"drain", "key", "exited"}
    /\ quit_deadline \in BOOLEAN

AppInit ==
    /\ device = "NotFound"
    /\ screen = Menu
    /\ quit_confirm = FALSE
    /\ quitting = FALSE
    /\ should_quit = FALSE
    /\ final_message = "none"
    /\ preview_generation = 0
    /\ job_pending = FALSE
    /\ replan_pending = FALSE
    /\ ui = "drain"
    /\ quit_deadline = FALSE

--------------------------------------------------------------------------------
(***************************************************************************)
(* on_key.  The prompt swallows every key while it is up; with a job       *)
(* pending Enter is refused; otherwise the screen decides.  Keys that      *)
(* change nothing the model keeps -- the refused ones, moving a cursor,    *)
(* walking directories -- and a poll that times out are one step, NoKey.   *)
(***************************************************************************)
Submit(job) ==
    /\ jobs' = Append(jobs, job)
    /\ job_pending' = TRUE

Supersede ==
    /\ preview_generation < MaxGeneration
    /\ preview_generation' = preview_generation + 1

Show(s) == screen' = s

\* y or Enter while the worker is uploading: trip the flag and wait for it.
PromptYesRunning ==
    /\ quit_confirm /\ On("Running")
    /\ quit_confirm' = FALSE
    /\ cancel' = TRUE
    /\ quitting' = TRUE
    /\ UNCHANGED <<screen, should_quit, final_message, gateVars, jobs>>

\* y or Enter when the upload finished while the prompt was up.
PromptYesFinished ==
    /\ quit_confirm /\ ~On("Running")
    /\ quit_confirm' = FALSE
    /\ should_quit' = TRUE
    /\ UNCHANGED <<screen, quitting, final_message, gateVars, jobs, cancel>>

PromptNo ==
    /\ quit_confirm
    /\ quit_confirm' = FALSE
    /\ UNCHANGED <<screen, quitting, should_quit, final_message, gateVars, jobs, cancel>>

MenuQuit ==
    /\ On("Menu")
    /\ should_quit' = TRUE
    /\ UNCHANGED <<screen, quit_confirm, quitting, final_message, gateVars, jobs, cancel>>

MenuCommand ==
    /\ On("Menu") /\ ~job_pending /\ device = "Ready"
    /\ \E c \in Commands : Submit([kind |-> "Command", name |-> c])
    /\ UNCHANGED <<screen, quitVars, preview_generation, replan_pending, cancel>>

OpenBrowser ==
    /\ On("Menu") /\ ~job_pending /\ device = "Ready"
    /\ Show(Browse)
    /\ UNCHANGED <<quitVars, gateVars, jobs, cancel>>

\* Mutant: leaving the browser also frees the queue, with the decode still running.
BrowseLeaveFrees ==
    /\ On("Browse")
    /\ Supersede
    /\ Show(Menu)
    /\ job_pending' = FALSE
    /\ UNCHANGED <<quitVars, replan_pending, jobs, cancel>>

BrowseLeave ==
    /\ On("Browse")
    /\ Supersede
    /\ Show(Menu)
    /\ UNCHANGED <<quitVars, job_pending, replan_pending, jobs, cancel>>

BrowsePick ==
    /\ On("Browse") /\ ~job_pending
    /\ Supersede
    /\ \E f \in Files :
          Submit([kind |-> "Preview", wanted |-> FirstPending(f),
                  generation |-> preview_generation'])
    /\ UNCHANGED <<screen, quitVars, replan_pending, cancel>>

ConfirmLeave ==
    /\ On("Confirm")
    /\ Supersede
    /\ Show(Menu)
    /\ UNCHANGED <<quitVars, job_pending, replan_pending, jobs, cancel>>

\* Mutant: rows stay live while a replan is in flight.
ConfirmEditUngated ==
    /\ On("Confirm")
    /\ \E s \in Settings \ {screen.pending.settings} :
          Show(Confirm([screen.pending EXCEPT !.settings = s]))
    /\ UNCHANGED <<quitVars, gateVars, jobs, cancel>>

\* A slider, a switch, the rate, the selected row, or 0 to reset.
ConfirmEdit ==
    /\ On("Confirm") /\ ~replan_pending
    /\ \E s \in Settings \ {screen.pending.settings} :
          Show(Confirm([screen.pending EXCEPT !.settings = s]))
    /\ UNCHANGED <<quitVars, gateVars, jobs, cancel>>

\* Space on the placement row.  The gate is replan_pending, not job_pending.
ConfirmPlacement ==
    /\ On("Confirm") /\ ~replan_pending
    /\ Supersede
    /\ replan_pending' = TRUE
    /\ Submit([kind |-> "Replan", wanted |-> Toggled(screen.pending),
               generation |-> preview_generation'])
    /\ UNCHANGED <<screen, quitVars, cancel>>

ConfirmUpload ==
    /\ On("Confirm") /\ ~job_pending /\ ~replan_pending /\ device = "Ready"
    /\ Show(Menu)
    /\ Submit([kind |-> "Upload"])
    /\ UNCHANGED <<quitVars, preview_generation, replan_pending, cancel>>

RunningCancel ==
    /\ On("Running")
    /\ cancel' = TRUE
    /\ UNCHANGED <<screen, quitVars, gateVars, jobs>>

RunningQuit ==
    /\ On("Running")
    /\ quit_confirm' = TRUE
    /\ UNCHANGED <<screen, quitting, should_quit, final_message, gateVars, jobs, cancel>>

NoKey == UNCHANGED <<screen, quitVars, gateVars, jobs, cancel>>

ScreenKey ==
    /\ ~quit_confirm
    /\ \/ MenuQuit \/ MenuCommand \/ OpenBrowser
       \/ BrowseLeave \/ BrowsePick
       \/ ConfirmLeave \/ ConfirmEdit \/ ConfirmPlacement \/ ConfirmUpload
       \/ RunningCancel \/ RunningQuit

OnKey ==
    /\ ui = "key"
    /\ ui' = "drain"
    /\ \/ PromptYesRunning \/ PromptYesFinished \/ PromptNo
       \/ ScreenKey
       \/ NoKey
    /\ UNCHANGED <<device, quit_deadline, updates, busy, ready, keyboard>>

--------------------------------------------------------------------------------
(***************************************************************************)
(* on_update, one action per variant of Update.                            *)
(***************************************************************************)
OnDevice(u) ==
    /\ u.kind = "Device"
    /\ device' = u.device
    /\ UNCHANGED <<screen, quitVars, gateVars>>

\* Mutant: any successful reply opens the confirm screen.
OnPreviewAnyGeneration(u) ==
    /\ u.kind = "Preview"
    /\ job_pending' = FALSE
    /\ IF u.ok THEN Show(Confirm(u.wanted)) ELSE UNCHANGED screen
    /\ UNCHANGED <<device, quitVars, preview_generation, replan_pending>>

\* Mutant: a stale reply is dropped before it frees the gate.
OnPreviewStaleDropped(u) ==
    /\ u.kind = "Preview"
    /\ IF u.generation # preview_generation
       THEN UNCHANGED <<job_pending, screen>>
       ELSE /\ job_pending' = FALSE
            /\ IF u.ok THEN Show(Confirm(u.wanted)) ELSE UNCHANGED screen
    /\ UNCHANGED <<device, quitVars, preview_generation, replan_pending>>

\* The worker is free either way, but only a reply still wanted is applied.
OnPreview(u) ==
    /\ u.kind = "Preview"
    /\ job_pending' = FALSE
    /\ IF u.generation = preview_generation /\ u.ok
       THEN Show(Confirm(u.wanted))
       ELSE UNCHANGED screen
    /\ UNCHANGED <<device, quitVars, preview_generation, replan_pending>>

OnReplan(u) ==
    /\ u.kind = "Replan"
    /\ job_pending' = FALSE
    /\ replan_pending' = FALSE
    /\ IF u.generation = preview_generation /\ u.ok
       THEN Show(Confirm(u.wanted))
       ELSE UNCHANGED screen
    /\ UNCHANGED <<device, quitVars, preview_generation>>

OnStarted(u) ==
    /\ u.kind = "Started"
    /\ Show(Running(0))
    /\ UNCHANGED <<device, quitVars, gateVars>>

OnProgress(u) ==
    /\ u.kind = "Progress"
    /\ IF On("Running") THEN Show(Running(u.done)) ELSE UNCHANGED screen
    /\ UNCHANGED <<device, quitVars, gateVars>>

\* Mutant: the end of a job does not free the gate.
OnFinishedKeepsGate(u) ==
    /\ u.kind = "Finished"
    /\ Show(Menu)
    /\ IF quitting
       THEN should_quit' = TRUE /\ final_message' = "answer"
       ELSE UNCHANGED <<should_quit, final_message>>
    /\ UNCHANGED <<device, quit_confirm, quitting, gateVars>>

\* Mutant: the answer a confirmed quit waited for is not kept for later.
OnFinishedSilently(u) ==
    /\ u.kind = "Finished"
    /\ job_pending' = FALSE
    /\ Show(Menu)
    /\ should_quit' = (should_quit \/ quitting)
    /\ UNCHANGED <<device, quit_confirm, quitting, final_message, preview_generation,
                   replan_pending>>

OnFinished(u) ==
    /\ u.kind = "Finished"
    /\ job_pending' = FALSE
    /\ Show(Menu)
    /\ IF quitting
       THEN should_quit' = TRUE /\ final_message' = "answer"
       ELSE UNCHANGED <<should_quit, final_message>>
    /\ UNCHANGED <<device, quit_confirm, quitting, preview_generation, replan_pending>>

OnUpdate ==
    /\ ui = "drain" /\ updates # <<>>
    /\ updates' = Tail(updates)
    /\ LET u == Head(updates) IN
          \/ OnDevice(u) \/ OnPreview(u) \/ OnReplan(u)
          \/ OnStarted(u) \/ OnProgress(u) \/ OnFinished(u)
    /\ UNCHANGED <<loopVars, jobs, busy, ready, cancel, keyboard>>

--------------------------------------------------------------------------------
(***************************************************************************)
(* The middle of a turn: nothing left to drain.  The first turn that finds *)
(* the quit confirmed starts the clock, a later one may find it run out.   *)
(***************************************************************************)
LeaveOrPoll == ui' = IF should_quit' THEN "exited" ELSE "key"

CheckQuit ==
    /\ ui = "drain" /\ updates = <<>>
    /\ quit_deadline' = quitting
    /\ UNCHANGED <<should_quit, final_message>>
    /\ LeaveOrPoll
    /\ UNCHANGED <<device, screen, quit_confirm, quitting, gateVars, channels>>

\* Mutant: the deadline is only looked at once the worker has let go of the job.
GiveUpWhenAnswered ==
    /\ ui = "drain" /\ updates = <<>>
    /\ quitting /\ quit_deadline /\ ~should_quit /\ ~job_pending
    /\ should_quit' = TRUE
    /\ final_message' = "gave up"
    /\ LeaveOrPoll
    /\ UNCHANGED <<device, screen, quit_confirm, quitting, quit_deadline, gateVars, channels>>

GiveUpWaiting ==
    /\ ui = "drain" /\ updates = <<>>
    /\ quitting /\ quit_deadline /\ ~should_quit
    /\ should_quit' = TRUE
    /\ final_message' = "gave up"
    /\ LeaveOrPoll
    /\ UNCHANGED <<device, screen, quit_confirm, quitting, quit_deadline, gateVars, channels>>

AppNext == OnKey \/ OnUpdate \/ CheckQuit \/ GiveUpWaiting
================================================================================
