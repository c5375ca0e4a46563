------------------------------- MODULE Channels -------------------------------
(***************************************************************************)
(* What the three threads of the interface share: the two mpsc channels,   *)
(* the atomic flags, and the keyboard at the other end of the USB cable.   *)
(* App, Worker and Discovery extend this module with the state each thread *)
(* keeps to itself; Tui puts the three together.                           *)
(***************************************************************************)
EXTENDS Naturals, Sequences

CONSTANTS
    Files,           \* the images the file browser can offer
    Settings,        \* one value per (rate override, adjustments, row) of a confirm screen
    NoSettings,      \* Adjustments::NONE, no rate override, row 0: what a preview starts with
    Commands,        \* the jobs that only send a fixed list of reports
    CommandReports,  \* how many reports each of them sends
    UploadReports,   \* how many reports an upload sends (plan.total_reports)
    Keyboards        \* what the USB bus may look like: a subset of DeviceStates

Placements == {"contain", "fill"}

DeviceStates ==
    {"Ready", "NotFound", "PermissionDenied", "MultipleMatches", "ScanFailed"}

ASSUME ChannelsAssumption ==
    /\ NoSettings \in Settings
    /\ CommandReports \in [Commands -> Nat \ {0}]
    /\ UploadReports \in Nat \ {0}
    /\ Keyboards \subseteq DeviceStates

VARIABLES
    jobs,      \* mpsc, interface -> worker
    updates,   \* mpsc, worker and discovery -> interface
    busy,      \* AtomicBool: the worker is running a job
    ready,     \* AtomicBool: the last probe found the keyboard
    cancel,    \* AtomicBool made for each upload: its Esc flag
    keyboard   \* what find_device and open would meet now

channels == <<jobs, updates, busy, ready, cancel, keyboard>>

(***************************************************************************)
(* What a confirm screen shows: the decoded file, how it was fitted to the *)
(* panel, and the choices made on the rows since.                          *)
(***************************************************************************)
PendingType == [file : Files, placement : Placements, settings : Settings]

FirstPending(f) == [file |-> f, placement |-> "contain", settings |-> NoSettings]

Toggled(p) ==
    [p EXCEPT !.placement = IF p.placement = "contain" THEN "fill" ELSE "contain"]

JobType ==
    [kind : {"Preview", "Replan"}, wanted : PendingType, generation : Nat]
        \cup [kind : {"Command"}, name : Commands]
        \cup [kind : {"Upload"}]

(***************************************************************************)
(* What the threads tell the interface.  A Preview or Replan reply carries *)
(* what it decoded; ok is whether its Result is Ok.  Notes only feed the   *)
(* log pane and are left out.                                              *)
(***************************************************************************)
Outcomes == {"ok", "err", "cancelled", "panic"}

UpdateType ==
    [kind : {"Device"}, device : DeviceStates]
        \cup [kind : {"Preview", "Replan"}, ok : BOOLEAN, wanted : PendingType, generation : Nat]
        \cup [kind : {"Started"}]
        \cup [kind : {"Progress"}, done : Nat]
        \cup [kind : {"Finished"}, outcome : Outcomes]

\* The updates that say the worker has answered the job it was given.
AnswerKinds == {"Preview", "Replan", "Finished"}

ChannelsTypeOK ==
    /\ jobs \in Seq(JobType)
    /\ updates \in Seq(UpdateType)
    /\ busy \in BOOLEAN
    /\ ready \in BOOLEAN
    /\ cancel \in BOOLEAN
    /\ keyboard \in Keyboards

ChannelsInit ==
    /\ jobs = <<>>
    /\ updates = <<>>
    /\ busy = FALSE
    /\ ready = FALSE
    /\ cancel = FALSE
    /\ keyboard \in Keyboards

Send(u) == updates' = Append(updates, u)

\* What a queue holds, by kind.
HasKind(q, K) == \E i \in DOMAIN q : q[i].kind \in K
AtMostOne(q, K) ==
    \A i, j \in DOMAIN q : q[i].kind \in K /\ q[j].kind \in K => i = j
===============================================================================
