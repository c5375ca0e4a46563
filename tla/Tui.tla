---------------------------------- MODULE Tui ----------------------------------
(***************************************************************************)
(* The interactive program: the interface, worker and discovery threads    *)
(* stepping in any order over the channels and flags they share, and a     *)
(* keyboard that comes and goes.  The process ends with the event loop, so *)
(* nothing moves once ui is "exited".                                      *)
(***************************************************************************)
EXTENDS App, Worker, Discovery

vars == <<channels, appVars, workerVars, discoveryVars>>

Init == ChannelsInit /\ AppInit /\ WorkerInit /\ DiscoveryInit

TypeOK == ChannelsTypeOK /\ AppTypeOK /\ WorkerTypeOK /\ DiscoveryTypeOK

Interface == AppNext /\ UNCHANGED <<workerVars, discoveryVars>>

WorkerStep == ui # "exited" /\ WorkerNext /\ UNCHANGED <<appVars, discoveryVars>>

\* RESCAN (2 s) outlasts a turn of the event loop (draining, then TICK = 100 ms),
\* so discovery's sleep spans a moment when the interface waits for a key.
DiscoveryStep ==
    /\ ui # "exited"
    /\ discovery = "asleep" => ui = "key"
    /\ DiscoveryNext
    /\ UNCHANGED <<appVars, workerVars>>

\* Someone plugs, unplugs, or fixes a permission.
Replug ==
    /\ ui # "exited"
    /\ keyboard' \in Keyboards \ {keyboard}
    /\ UNCHANGED <<jobs, updates, busy, ready, cancel, appVars, workerVars, discoveryVars>>

Exited == ui = "exited" /\ UNCHANGED vars

Next == Interface \/ WorkerStep \/ DiscoveryStep \/ Replug \/ Exited

Spec == Init /\ [][Next]_vars

(***************************************************************************)
(* Every thread keeps running.  Two clocks advance whatever the threads    *)
(* do: discovery's sleep ends at one of the moments the interface waits    *)
(* for a key, and a loop that keeps coming back to its quit deadline finds *)
(* it passed.                                                              *)
(***************************************************************************)
Fairness ==
    /\ WF_vars(Interface)
    /\ WF_vars(WorkerStep)
    /\ SF_vars(DiscoveryStep)
    /\ SF_vars(GiveUpWaiting /\ UNCHANGED <<workerVars, discoveryVars>>)

FairSpec == Spec /\ Fairness

\* The worker and discovery may wedge anywhere: only the interface keeps running.
WedgedSpec ==
    /\ Spec
    /\ WF_vars(Interface)
    /\ SF_vars(GiveUpWaiting /\ UNCHANGED <<workerVars, discoveryVars>>)

--------------------------------------------------------------------------------
(***************************************************************************)
(* Where the one job is.                                                   *)
(***************************************************************************)
JobQueued == jobs # <<>>

\* The worker holds a job whose answer it has not sent.
JobHeld == worker # "idle" /\ ~(worker = "release" /\ outcome = "none")

JobAnswered == HasKind(updates, AnswerKinds)

slot ==
    IF ~job_pending THEN "free"
    ELSE IF JobQueued THEN "queued"
    ELSE IF JobHeld THEN "running"
    ELSE "answered"

Slot == INSTANCE JobSlot WITH over <- ui = "exited"

(***************************************************************************)
(* A job that has been handed over is in exactly one place -- the queue,   *)
(* the worker, or an unread answer -- and job_pending says so: no job is   *)
(* lost, answered twice or started behind another.                         *)
(***************************************************************************)
OneJob ==
    /\ Len(jobs) <= 1
    /\ AtMostOne(updates, AnswerKinds)
    /\ ~(JobQueued /\ JobHeld) /\ ~(JobQueued /\ JobAnswered) /\ ~(JobHeld /\ JobAnswered)
    /\ job_pending <=> (JobQueued \/ JobHeld \/ JobAnswered)

(***************************************************************************)
(* replan_pending says that the job in flight is a replan, and on the      *)
(* confirm screen no other job is in flight: the gate on the rows neither  *)
(* outlives its reply -- even a stale one, even a panic -- nor opens early,*)
(* and Space, which never looks at job_pending, starts no second job.      *)
(***************************************************************************)
ReplanQueued == HasKind(jobs, {"Replan"})
ReplanHeld == JobHeld /\ job.kind = "Replan"
ReplanAnswered == HasKind(updates, {"Replan"})

ConfirmGate ==
    /\ replan_pending <=> (ReplanQueued \/ ReplanHeld \/ ReplanAnswered)
    /\ On("Confirm") /\ job_pending => replan_pending

(***************************************************************************)
(* Draining mid-upload would eat the acknowledgements the upload is        *)
(* waiting for: no probe has the keyboard open while the worker exchanges  *)
(* reports with it.                                                        *)
(***************************************************************************)
WorkerOnDevice == worker \in {"open", "started", "check", "report"}
ProbeOnDevice == discovery = "drain"
NoProbeDuringTransfer == ~(WorkerOnDevice /\ ProbeOnDevice)

(***************************************************************************)
(* The upload screen is up only while the upload it shows is unanswered,   *)
(* and its gauge counts acknowledged reports: neither it nor any progress  *)
(* still unread is ahead of the device.  So what is left of the total,     *)
(* which the estimate of the time is made from, is never less than         *)
(* nothing, and a full gauge means that the device has it all.             *)
(***************************************************************************)
GaugeIsHonest ==
    On("Running") =>
        /\ (JobHeld /\ Uploads) \/ HasKind(updates, {"Finished"})
        /\ screen.done <= UploadReports
        /\ JobHeld /\ Percent(screen) = 100 => sent = UploadReports
        /\ JobHeld => /\ screen.done <= sent
                      /\ \A i \in DOMAIN updates :
                            updates[i].kind = "Progress" => updates[i].done <= sent

(***************************************************************************)
(* The quit prompt never covers new work: when the upload it asked about   *)
(* is over, nothing is in flight, so answering yes leaves at once safely.  *)
(***************************************************************************)
PromptCoversNothingNew == quit_confirm /\ ~On("Running") => ~job_pending

(***************************************************************************)
(* A confirmed quit leaves the normal screen with a message: what the      *)
(* worker answered, or that it did not answer in time.                     *)
(***************************************************************************)
QuitLeavesMessage == ui = "exited" /\ quitting => final_message # "none"

--------------------------------------------------------------------------------
\* Only a decode the user is still waiting for in the browser opens a confirm screen.
ConfirmOpensFromBrowser ==
    [][~On("Confirm") /\ On("Confirm")' => On("Browse")]_vars

\* A confirm screen is left by a key, never taken away by an update.
ConfirmLeftByKey ==
    [][On("Confirm") /\ ~On("Confirm")' => ui = "key"]_vars

\* A replan changes the placement and nothing else: no edit is lost to it.
ReplanKeepsChoices ==
    [][On("Confirm") /\ On("Confirm")' /\ ui = "drain" /\ screen' # screen
          => screen'.pending = Toggled(screen.pending)]_vars

--------------------------------------------------------------------------------
\* The interface and its worker keep what JobSlot promises.
ImplementsJobSlot == Slot!FairSpec

\* A confirmed quit ends the program, even with the worker wedged.
QuitEnds == quitting ~> (ui = "exited")

\* While a keyboard is there, no job runs and the last probe failed, another probe succeeds.
KeyboardIsFoundAgain ==
    []<>(ready \/ job_pending \/ keyboard # "Ready" \/ ui = "exited")

--------------------------------------------------------------------------------
OnDeviceJob == JobHeld /\ job.kind \in {"Command", "Upload"}

\* Leaving while reports may be going out is a confirmed quit.
NoSilentQuit == ui = "exited" /\ OnDeviceJob => quitting

\* The interface shows a keyboard that is there, not only the ready flag.
HeaderFindsKeyboardAgain ==
    []<>(device = "Ready" \/ job_pending \/ keyboard # "Ready" \/ ui = "exited")
================================================================================
