--------------------------------- MODULE Worker ---------------------------------
(***************************************************************************)
(* The worker thread: takes one job at a time, runs it with panics caught, *)
(* and answers it exactly once -- a preview or a replan with its own       *)
(* reply, everything else, and every panic, after busy is cleared.         *)
(***************************************************************************)
EXTENDS Channels

VARIABLES
    worker,   \* where the thread is
    job,      \* the job it holds
    outcome,  \* what run_job came to; "none" while running, or when a reply was sent
    sent      \* reports written and acknowledged in this job

workerVars == <<worker, job, outcome, sent>>

NoJob == [kind |-> "none"]

WorkerStates ==
    {"idle", "taken", "decode", "reencode", "open", "started",
     "check", "report", "lost", "tell", "release", "answer"}

\* What the thread holds where: which jobs reach a state, and whether they have come
\* to something yet.
WorkerShape ==
    /\ worker = "idle" <=> job = NoJob
    /\ worker = "decode" => job.kind \in {"Preview", "Replan"}
    /\ worker \in {"reencode", "started", "check"} => job.kind = "Upload"
    /\ worker \in {"open", "report", "lost", "tell"} => job.kind \in {"Command", "Upload"}
    /\ worker \in {"lost", "tell", "answer"} => outcome # "none"
    /\ worker \notin {"lost", "tell", "release", "answer"} => outcome = "none"
    /\ worker = "release" /\ job.kind \in {"Command", "Upload"} => outcome # "none"
    /\ job.kind \in {"Preview", "Replan"} => outcome \in {"none", "panic"}

WorkerTypeOK ==
    /\ worker \in WorkerStates
    /\ job \in JobType \cup {NoJob}
    /\ outcome \in Outcomes \cup {"none"}
    /\ sent \in Nat
    /\ WorkerShape

WorkerInit ==
    /\ worker = "idle"
    /\ job = NoJob
    /\ outcome = "none"
    /\ sent = 0

Decodes == job.kind \in {"Preview", "Replan"}
Uploads == job.kind = "Upload"

Total == IF Uploads THEN UploadReports ELSE CommandReports[job.name]

Step(from, to) == worker = from /\ worker' = to

--------------------------------------------------------------------------------
Take ==
    /\ jobs # <<>>
    /\ Step("idle", "taken")
    /\ job' = Head(jobs)
    /\ jobs' = Tail(jobs)
    /\ UNCHANGED <<outcome, sent, updates, busy, ready, cancel, keyboard>>

FirstStep ==
    CASE Decodes -> "decode"
      [] Uploads -> "reencode"
      [] OTHER   -> "open"

SetBusy ==
    /\ Step("taken", FirstStep)
    /\ busy' = TRUE
    /\ UNCHANGED <<job, outcome, sent, jobs, updates, ready, cancel, keyboard>>

\* Decoding succeeds or fails, and the reply is sent by the job itself.
Decode ==
    /\ Step("decode", "release")
    /\ \E ok \in BOOLEAN :
          Send([kind |-> job.kind, ok |-> ok, wanted |-> job.wanted,
                generation |-> job.generation])
    /\ UNCHANGED <<job, outcome, sent, jobs, busy, ready, cancel, keyboard>>

Reencode ==
    /\ Step("reencode", "open")
    /\ UNCHANGED <<job, outcome, sent, channels>>

\* find_device, open and drain; one keyboard, and one only, gets through.
Open ==
    /\ keyboard = "Ready"
    /\ Step("open", IF Uploads THEN "started" ELSE "report")
    /\ UNCHANGED <<job, outcome, sent, channels>>

OpenFails ==
    /\ Step("open", "lost")
    /\ outcome' = "err"
    /\ UNCHANGED <<job, sent, channels>>

Start ==
    /\ Step("started", "check")
    /\ cancel' = FALSE
    /\ Send([kind |-> "Started"])
    /\ UNCHANGED <<job, outcome, sent, jobs, busy, ready, keyboard>>

\* Between two reports, and throughout the pauses, an upload looks at its flag.
Continue ==
    /\ ~cancel
    /\ Step("check", "report")
    /\ UNCHANGED <<job, outcome, sent, channels>>

\* Mutant: a cancelled upload ends without an answer.
CancelledInSilence ==
    /\ cancel
    /\ Step("check", "release")
    /\ UNCHANGED <<job, outcome, sent, channels>>

Cancelled ==
    /\ cancel
    /\ Step("check", "release")
    /\ outcome' = "cancelled"
    /\ UNCHANGED <<job, sent, channels>>

\* Drain, write, and wait for the acknowledgement of one report.
Report ==
    /\ keyboard # "NotFound"
    /\ Step("report", IF sent + 1 = Total THEN "release"
                      ELSE IF Uploads THEN "check" ELSE "report")
    /\ sent' = sent + 1
    /\ outcome' = IF sent + 1 = Total THEN "ok" ELSE outcome
    /\ IF Uploads
       THEN Send([kind |-> "Progress", done |-> sent + 1])
       ELSE UNCHANGED updates
    /\ UNCHANGED <<job, jobs, busy, ready, cancel, keyboard>>

\* Mutant: the gauge moves when a report is written, not when it is acknowledged.
ReportFailsAfterProgress ==
    /\ Step("report", "lost")
    /\ outcome' = "err"
    /\ IF Uploads
       THEN Send([kind |-> "Progress", done |-> sent + 1])
       ELSE UNCHANGED updates
    /\ UNCHANGED <<job, sent, jobs, busy, ready, cancel, keyboard>>

ReportFails ==
    /\ Step("report", "lost")
    /\ outcome' = "err"
    /\ UNCHANGED <<job, sent, channels>>

\* lost(): the flag first, the update second.
LostFlag ==
    /\ Step("lost", "tell")
    /\ ready' = FALSE
    /\ UNCHANGED <<job, outcome, sent, jobs, updates, busy, cancel, keyboard>>

\* Mutant: only the flag is cleared, and the header keeps its keyboard.
LostUpdateForgotten ==
    /\ Step("tell", "release")
    /\ UNCHANGED <<job, outcome, sent, channels>>

LostUpdate ==
    /\ Step("tell", "release")
    /\ Send([kind |-> "Device", device |-> "NotFound"])
    /\ UNCHANGED <<job, outcome, sent, jobs, busy, ready, cancel, keyboard>>

\* Anything that runs inside guarded() may panic before it has answered.
Panic ==
    /\ worker \in {"decode", "reencode", "open", "started", "check", "report"}
    /\ worker' = "release"
    /\ outcome' = "panic"
    /\ UNCHANGED <<job, sent, channels>>

Rest ==
    /\ worker' = "idle"
    /\ job' = NoJob
    /\ outcome' = "none"
    /\ sent' = 0

\* Mutant: a job that fails leaves before the line that clears busy.
ReleaseUnlessFailed ==
    /\ worker = "release"
    /\ busy' = (outcome = "err")
    /\ IF outcome = "none"
       THEN Rest
       ELSE worker' = "answer" /\ UNCHANGED <<job, outcome, sent>>
    /\ UNCHANGED <<jobs, updates, ready, cancel, keyboard>>

\* run_job is over, by a return or by a panic: busy is cleared before the answer.
Release ==
    /\ worker = "release"
    /\ busy' = FALSE
    /\ IF outcome = "none"
       THEN Rest
       ELSE worker' = "answer" /\ UNCHANGED <<job, outcome, sent>>
    /\ UNCHANGED <<jobs, updates, ready, cancel, keyboard>>

\* Mutant: every panic is a Finished.
AnswerAlwaysFinished == [kind |-> "Finished", outcome |-> outcome]

\* A panic is routed to the update that undoes what the job's key did.
AnswerUpdate ==
    IF outcome = "panic" /\ job.kind = "Replan"
    THEN [kind |-> "Replan", ok |-> FALSE, wanted |-> job.wanted,
          generation |-> job.generation]
    ELSE [kind |-> "Finished", outcome |-> outcome]

Answer ==
    /\ worker = "answer"
    /\ Send(AnswerUpdate)
    /\ Rest
    /\ UNCHANGED <<jobs, busy, ready, cancel, keyboard>>

WorkerNext ==
    \/ Take \/ SetBusy \/ Decode \/ Reencode
    \/ Open \/ OpenFails \/ Start \/ Continue \/ Cancelled \/ Report \/ ReportFails
    \/ LostFlag \/ LostUpdate \/ Panic \/ Release \/ Answer
================================================================================
