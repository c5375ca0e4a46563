-------------------------------- MODULE Upload --------------------------------
(***************************************************************************)
(* The executor: send_all and pause walking a program of reports, pauses   *)
(* and finished frames over the transport, with a cancel flag another      *)
(* thread may set at any moment.  send_sequence is the same walk with no   *)
(* pauses and no flag.  A transfer that did not succeed may be run again,  *)
(* from the start and on a node opened anew.                               *)
(***************************************************************************)
EXTENDS Transport, FiniteSets

CONSTANTS
    Plans,        \* transfers: [steps, total, cancellable], the last one
                  \* saying whether anybody holds the cancel flag
    MaxSessions   \* bound: how often the transfer is run

\* The transfers of the code: each program with the total it is announced with.  A
\* program of n frames, or of n repetitions, has at least n steps.
IsPlan(p) ==
    /\ p.cancellable \in BOOLEAN
    /\ \/ \E n \in 0..Len(p.steps) : p.steps = GifProgram(n) /\ p.total = GifReportCount(n)
       \/ p.steps = PictureProgram /\ p.total = PictureReportCount
       \/ /\ \/ p.steps \in {SetTimeProgram, ClearGifProgram}
             \/ \E n \in 1..Len(p.steps) : p.steps = ClearPictureProgram(n)
             \/ \E page \in 0..255 : p.steps = SwitchPageProgram(page)
          /\ p.total = Len(p.steps)

ASSUME PlansAssumption == MaxSessions \in Nat /\ \A p \in Plans : IsPlan(p)

CancelPoll == 50   \* CANCEL_POLL_MS

VARIABLES
    plan,      \* the transfer, one of Plans
    pc,        \* its next step
    napped,    \* ms slept in the pause that is running
    cancel,    \* the flag
    done,      \* what the last Progress said
    frames,    \* how many FrameDone were emitted
    verdict,   \* how the transfer ended
    rested,    \* ms slept since the last acknowledgement
    late       \* reports written since the flag was set

walkVars == <<plan, pc, napped, cancel, done, frames, verdict, rested, late>>
vars == <<transportVars, walkVars>>

TypeOK ==
    /\ TransportTypeOK
    /\ plan \in Plans /\ pc \in 1..(Len(plan.steps) + 1)
    /\ napped \in Nat /\ rested \in Nat
    /\ cancel \in BOOLEAN
    /\ done \in Nat /\ frames \in Nat /\ late \in Nat
    /\ verdict \in {"none", "ok", "error", "cancelled"}

WalkInit ==
    /\ plan \in Plans
    /\ pc = 1
    /\ napped = 0
    /\ cancel = FALSE
    /\ done = 0
    /\ frames = 0
    /\ verdict = "none"
    /\ rested = 0
    /\ late = 0

Init == TransportInit /\ WalkInit

At(what) ==
    /\ verdict = "none" /\ phase = "ready"
    /\ pc <= Len(plan.steps)
    /\ plan.steps[pc].do = what

--------------------------------------------------------------------------------
Run ==
    /\ session < MaxSessions /\ verdict # "ok"
    /\ Open /\ UNCHANGED plan
    /\ pc' = 1 /\ napped' = 0 /\ cancel' = FALSE /\ done' = 0
    /\ frames' = 0 /\ verdict' = "none" /\ rested' = 0 /\ late' = 0

\* Mutant: the flag is only looked at while pausing.
SendUnchecked ==
    /\ At("send")
    /\ BeginSend(plan.steps[pc].report)
    /\ UNCHANGED walkVars

SendNext ==
    /\ At("send") /\ ~cancel
    /\ BeginSend(plan.steps[pc].report)
    /\ UNCHANGED walkVars

WriteReport ==
    /\ Write
    /\ late' = IF cancel THEN late + 1 ELSE late
    /\ UNCHANGED <<plan, pc, napped, cancel, done, frames, verdict, rested>>

\* Mutant: the count is handed to send_all by value, and starts anew after a pause.
AcknowledgedAnew ==
    /\ TakeAck
    /\ pc' = pc + 1
    /\ done' = IF rested > 0 THEN 1 ELSE done + 1
    /\ rested' = 0
    /\ UNCHANGED <<plan, napped, cancel, frames, verdict, late>>

\* The report is acknowledged: only now does it count.
Acknowledged ==
    /\ TakeAck
    /\ pc' = pc + 1
    /\ done' = done + 1
    /\ rested' = 0
    /\ UNCHANGED <<plan, napped, cancel, frames, verdict, late>>

\* sleep_cancellable looks at the flag before every slice, and once more at the end.
Nap ==
    /\ At("pause") /\ ~cancel
    /\ LET rest == plan.steps[pc].ms - napped
           slice == IF rest < CancelPoll THEN rest ELSE CancelPoll IN
          /\ rest > 0
          /\ napped' = napped + slice
          /\ rested' = rested + slice
    /\ UNCHANGED <<transportVars, plan, pc, cancel, done, frames, verdict, late>>

WakeUp ==
    /\ At("pause") /\ ~cancel
    /\ napped = plan.steps[pc].ms
    /\ napped' = 0
    /\ pc' = pc + 1
    /\ UNCHANGED <<transportVars, plan, cancel, done, frames, verdict, rested, late>>

FrameIsDone ==
    /\ At("frame")
    /\ frames' = frames + 1
    /\ pc' = pc + 1
    /\ UNCHANGED <<transportVars, plan, napped, cancel, done, verdict, rested, late>>

End(v) ==
    /\ Close
    /\ verdict' = v
    /\ UNCHANGED <<plan, pc, napped, cancel, done, frames, rested, late>>

Stopped == (At("send") \/ At("pause")) /\ cancel /\ End("cancelled")

Succeed == verdict = "none" /\ phase = "ready" /\ pc = Len(plan.steps) + 1 /\ End("ok")

\* Mutant: a failed exchange is dropped and the walk goes on to the next step.
FailureIgnored ==
    /\ phase = "failed"
    /\ phase' = "ready" /\ failure' = "none"
    /\ pc' = pc + 1
    /\ UNCHANGED <<current, drained, left, session, cableVars, plan, napped, cancel, done,
                   frames, verdict, rested, late>>

Abort == phase = "failed" /\ End("error")

PressEsc ==
    /\ plan.cancellable /\ ~cancel
    /\ verdict = "none" /\ phase # "closed"
    /\ cancel' = TRUE
    /\ UNCHANGED <<transportVars, plan, pc, napped, done, frames, verdict, rested, late>>

Walk ==
    \/ Run \/ SendNext \/ WriteReport \/ Acknowledged \/ Nap \/ WakeUp \/ FrameIsDone
    \/ Stopped \/ Succeed \/ Abort

Exchange ==
    /\ \/ DrainRead \/ Drained \/ WriteBlocks \/ RoomAgain \/ WaitOn \/ RefuseAck
       \/ GiveUp \/ GiveUpWriting \/ IoFails
    /\ UNCHANGED walkVars

Elsewhere == Keyboard /\ UNCHANGED walkVars

\* Nothing is left to do, here or at the keyboard.
Over ==
    /\ phase = "closed" /\ (verdict = "ok" \/ session = MaxSessions)
    /\ UNCHANGED vars

Next == Walk \/ Exchange \/ Elsewhere \/ PressEsc \/ Over

Spec == Init /\ [][Next]_vars

\* The thread that runs the transfer keeps running; nothing is asked of the keyboard.
FairSpec == Spec /\ WF_vars(Walk \/ Exchange)

--------------------------------------------------------------------------------
(***************************************************************************)
(* The gauge and the keyboard: every report counted has taken effect, at   *)
(* most one that is not counted has, and between reports there is none.    *)
(***************************************************************************)
OneInDoubt ==
    /\ done <= landed /\ landed <= done + 1
    /\ phase = "ready" => landed = done

(***************************************************************************)
(* Esc is prompt: once the flag is set, at most the report on its way out  *)
(* is still written.                                                       *)
(***************************************************************************)
CancelIsPrompt == late <= 1

(***************************************************************************)
(* A frame reported as done is whole: its header, its size and all of its  *)
(* blocks, and those of every frame before it, are acknowledged.           *)
(***************************************************************************)
FrameDoneIsWhole ==
    frames > 0 => done >= 2 + frames * (2 + BlocksPerFrame * PacketsPerBlock)

\* The gauge ends on the planned total, neither short of it nor past it.
EndsOnTotal == verdict = "ok" => done = plan.total

(***************************************************************************)
(* The pauses the keyboard needs: exactly that long has been slept between *)
(* the acknowledgement of a report and the next report.                    *)
(***************************************************************************)
InGif == plan.steps[1].report = OpenReports[1]

RestsAreKept ==
    [][phase = "ready" /\ phase' = "drain" =>
          rested = IF InGif /\ current = LastOfBlock THEN 30 ELSE RestAfter(current)]_vars

\* Whatever the keyboard does, the transfer is a PrefixTransfer.
Transfer == INSTANCE PrefixTransfer WITH
    total <- plan.total,
    written <- landed,
    doubt <- verdict = "error" /\ wire # <<>>

ImplementsTransfer == Transfer!Spec

\* Every transfer comes to an end, with a keyboard that never answers or never shuts up.
TransferEnds == <>(verdict # "none")

--------------------------------------------------------------------------------
(***************************************************************************)
(* What the comments of the code say of the exchange.                      *)
(***************************************************************************)
\* A second acknowledgement is drained before the next report, and nothing worse.
DuplicateIsDrained == failure # "mismatch"

\* done counts reports the device has confirmed.
ProgressIsConfirmed == done <= landed
================================================================================
