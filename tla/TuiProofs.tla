------------------------------- MODULE TuiProofs -------------------------------
(***************************************************************************)
(* Proofs about Tui, for every set of files, settings and commands, every  *)
(* number of reports and every bound.                                      *)
(***************************************************************************)
EXTENDS Tui, TLAPS

USE ChannelsAssumption

--------------------------------------------------------------------------------
(***************************************************************************)
(* Types of what is put on the channels.                                   *)
(***************************************************************************)
LEMMA QueueTypes ==
    ASSUME NEW S, NEW q \in Seq(S), NEW u \in S
    PROVE  /\ <<>> \in Seq(S)
           /\ Append(q, u) \in Seq(S)
           /\ q # <<>> => Head(q) \in S /\ Tail(q) \in Seq(S)
  OBVIOUS

LEMMA SupersedeType ==
    ASSUME preview_generation \in Nat, Supersede
    PROVE  preview_generation' \in Nat
  BY DEF Supersede

LEMMA ScreenTypes ==
    /\ Menu \in ScreenType
    /\ Browse \in ScreenType
    /\ \A p \in PendingType : Confirm(p) \in ScreenType
    /\ \A n \in Nat : Running(n) \in ScreenType
  BY DEF ScreenType, Confirm, Running

LEMMA ConfirmHolds ==
    ASSUME screen \in ScreenType, On("Confirm")
    PROVE  screen.pending \in PendingType
  BY DEF ScreenType, Menu, Browse, On

LEMMA ToggledType ==
    ASSUME NEW p \in PendingType
    PROVE  Toggled(p) \in PendingType
  BY DEF PendingType, Toggled, Placements

\* What is on the updates channel has the fields its kind promises.
LEMMA UpdateFields ==
    ASSUME NEW u \in UpdateType
    PROVE  /\ u.kind = "Device" => u.device \in DeviceStates
           /\ u.kind \in {"Preview", "Replan"} => u.wanted \in PendingType
           /\ u.kind = "Progress" => u.done \in Nat
  BY DEF UpdateType

LEMMA DecodeJobType ==
    ASSUME NEW p \in PendingType, NEW n \in Nat
    PROVE  /\ [kind |-> "Preview", wanted |-> p, generation |-> n] \in JobType
           /\ [kind |-> "Replan", wanted |-> p, generation |-> n] \in JobType
  BY DEF JobType

--------------------------------------------------------------------------------
\* A key leaves the interface's variables and its two outputs well typed.
LEMMA OnKeyTypes ==
    ASSUME TypeOK, OnKey
    PROVE  /\ AppTypeOK'
           /\ jobs' \in Seq(JobType)
           /\ cancel' \in BOOLEAN
  <1>1. /\ AppTypeOK /\ jobs \in Seq(JobType) /\ cancel \in BOOLEAN
        /\ ui' \in {"drain", "key", "exited"}
        /\ UNCHANGED <<device, quit_deadline>>
    BY DEF TypeOK, ChannelsTypeOK, OnKey
  <1> USE <1>1
  <1>2. CASE PromptYesRunning
    BY <1>2 DEF PromptYesRunning, AppTypeOK, gateVars
  <1>3. CASE PromptYesFinished
    BY <1>3 DEF PromptYesFinished, AppTypeOK, gateVars
  <1>4. CASE PromptNo
    BY <1>4 DEF PromptNo, AppTypeOK, gateVars
  <1>5. CASE MenuQuit
    BY <1>5 DEF MenuQuit, AppTypeOK, gateVars
  <1>6. CASE MenuCommand
    <2>1. PICK c \in Commands : Submit([kind |-> "Command", name |-> c])
      BY <1>6 DEF MenuCommand
    <2>2. [kind |-> "Command", name |-> c] \in JobType
      BY DEF JobType
    <2>3. jobs' \in Seq(JobType) /\ job_pending' = TRUE
      BY <2>1, <2>2, QueueTypes DEF Submit
    <2> QED
      BY <1>6, <2>3 DEF MenuCommand, AppTypeOK, quitVars
  <1>7. CASE OpenBrowser
    BY <1>7, ScreenTypes DEF OpenBrowser, Show, AppTypeOK, quitVars, gateVars
  <1>8. CASE BrowseLeave
    <2>1. preview_generation' \in Nat
      BY <1>8, SupersedeType DEF BrowseLeave, AppTypeOK
    <2> QED
      BY <1>8, <2>1, ScreenTypes DEF BrowseLeave, Show, AppTypeOK, quitVars
  <1>9. CASE BrowsePick
    <2>1. preview_generation' \in Nat
      BY <1>9, SupersedeType DEF BrowsePick, AppTypeOK
    <2>2. PICK f \in Files :
             Submit([kind |-> "Preview", wanted |-> FirstPending(f),
                     generation |-> preview_generation'])
      BY <1>9 DEF BrowsePick
    <2>3. FirstPending(f) \in PendingType
      BY DEF FirstPending, PendingType, Placements
    <2>4. jobs' \in Seq(JobType) /\ job_pending' = TRUE
      BY <2>1, <2>2, <2>3, DecodeJobType, QueueTypes DEF Submit
    <2> QED
      BY <1>9, <2>1, <2>4 DEF BrowsePick, AppTypeOK, quitVars
  <1>10. CASE ConfirmLeave
    <2>1. preview_generation' \in Nat
      BY <1>10, SupersedeType DEF ConfirmLeave, AppTypeOK
    <2> QED
      BY <1>10, <2>1, ScreenTypes DEF ConfirmLeave, Show, AppTypeOK, quitVars
  <1>11. CASE ConfirmEdit
    <2>1. PICK s \in Settings : Show(Confirm([screen.pending EXCEPT !.settings = s]))
      BY <1>11 DEF ConfirmEdit
    <2>2. [screen.pending EXCEPT !.settings = s] \in PendingType
      BY <1>11, ConfirmHolds DEF ConfirmEdit, PendingType, AppTypeOK
    <2>3. screen' \in ScreenType
      BY <2>1, <2>2, ScreenTypes DEF Show
    <2> QED
      BY <1>11, <2>3 DEF ConfirmEdit, AppTypeOK, quitVars, gateVars
  <1>12. CASE ConfirmPlacement
    <2>1. preview_generation' \in Nat
      BY <1>12, SupersedeType DEF ConfirmPlacement, AppTypeOK
    <2>2. Toggled(screen.pending) \in PendingType
      BY <1>12, ConfirmHolds, ToggledType DEF ConfirmPlacement, AppTypeOK
    <2>3. Submit([kind |-> "Replan", wanted |-> Toggled(screen.pending),
                  generation |-> preview_generation'])
      BY <1>12 DEF ConfirmPlacement
    <2>4. jobs' \in Seq(JobType) /\ job_pending' = TRUE
      BY <2>1, <2>2, <2>3, DecodeJobType, QueueTypes DEF Submit
    <2> QED
      BY <1>12, <2>1, <2>4 DEF ConfirmPlacement, AppTypeOK, quitVars
  <1>13. CASE ConfirmUpload
    <2>1. [kind |-> "Upload"] \in JobType
      BY DEF JobType
    <2>2. jobs' \in Seq(JobType) /\ job_pending' = TRUE
      BY <1>13, <2>1, QueueTypes DEF ConfirmUpload, Submit
    <2> QED
      BY <1>13, <2>2, ScreenTypes DEF ConfirmUpload, Show, AppTypeOK, quitVars
  <1>14. CASE RunningCancel
    BY <1>14 DEF RunningCancel, AppTypeOK, quitVars, gateVars
  <1>15. CASE RunningQuit
    BY <1>15 DEF RunningQuit, AppTypeOK, gateVars
  <1>16. CASE NoKey
    BY <1>16 DEF NoKey, AppTypeOK, quitVars, gateVars
  <1> QED
    BY <1>2, <1>3, <1>4, <1>5, <1>6, <1>7, <1>8, <1>9, <1>10, <1>11, <1>12, <1>13,
       <1>14, <1>15, <1>16 DEF OnKey, ScreenKey

\* Handling one update leaves the interface's variables well typed.
LEMMA OneUpdateTypes ==
    ASSUME AppTypeOK, UNCHANGED loopVars, NEW u \in UpdateType,
           \/ OnDevice(u) \/ OnPreview(u) \/ OnReplan(u)
           \/ OnStarted(u) \/ OnProgress(u) \/ OnFinished(u)
    PROVE  AppTypeOK'
  <1> USE DEF quitVars, gateVars, loopVars
  <1>1. CASE OnDevice(u)
    <2>1. device' \in DeviceStates
      BY <1>1, UpdateFields DEF OnDevice
    <2> QED
      BY <1>1, <2>1 DEF OnDevice, AppTypeOK
  <1>2. CASE OnPreview(u)
    <2>1. screen' \in ScreenType
      BY <1>2, UpdateFields, ScreenTypes DEF OnPreview, Show, AppTypeOK
    <2> QED
      BY <1>2, <2>1 DEF OnPreview, AppTypeOK
  <1>3. CASE OnReplan(u)
    <2>1. screen' \in ScreenType
      BY <1>3, UpdateFields, ScreenTypes DEF OnReplan, Show, AppTypeOK
    <2> QED
      BY <1>3, <2>1 DEF OnReplan, AppTypeOK
  <1>4. CASE OnStarted(u)
    <2>1. screen' \in ScreenType
      BY <1>4, ScreenTypes DEF OnStarted, Show
    <2> QED
      BY <1>4, <2>1 DEF OnStarted, AppTypeOK
  <1>5. CASE OnProgress(u)
    <2>1. screen' \in ScreenType
      BY <1>5, UpdateFields, ScreenTypes DEF OnProgress, Show, AppTypeOK
    <2> QED
      BY <1>5, <2>1 DEF OnProgress, AppTypeOK
  <1>6. CASE OnFinished(u)
    <2>1. screen' \in ScreenType
      BY <1>6, ScreenTypes DEF OnFinished, Show
    <2> QED
      BY <1>6, <2>1 DEF OnFinished, AppTypeOK
  <1> QED
    BY <1>1, <1>2, <1>3, <1>4, <1>5, <1>6

LEMMA OnUpdateTypes ==
    ASSUME TypeOK, OnUpdate
    PROVE  AppTypeOK' /\ updates' \in Seq(UpdateType)
  <1>1. Head(updates) \in UpdateType /\ updates' \in Seq(UpdateType)
    BY QueueTypes DEF TypeOK, ChannelsTypeOK, OnUpdate
  <1> QED
    BY <1>1, OneUpdateTypes DEF TypeOK, OnUpdate

LEMMA InterfaceTypes == TypeOK /\ Interface => TypeOK'
  <1> SUFFICES ASSUME TypeOK, Interface PROVE TypeOK'
    OBVIOUS
  <1> USE DEF TypeOK, ChannelsTypeOK, WorkerTypeOK, DiscoveryTypeOK, workerVars, discoveryVars
  <1>1. WorkerTypeOK' /\ DiscoveryTypeOK'
    BY DEF Interface, WorkerShape
  <1>2. CASE OnKey
    BY <1>1, <1>2, OnKeyTypes DEF OnKey
  <1>3. CASE OnUpdate
    BY <1>1, <1>3, OnUpdateTypes DEF OnUpdate
  <1>4. CASE CheckQuit
    BY <1>1, <1>4 DEF CheckQuit, LeaveOrPoll, AppTypeOK, gateVars, channels
  <1>5. CASE GiveUpWaiting
    BY <1>1, <1>5 DEF GiveUpWaiting, LeaveOrPoll, AppTypeOK, gateVars, channels
  <1> QED
    BY <1>2, <1>3, <1>4, <1>5 DEF Interface, AppNext

--------------------------------------------------------------------------------
LEMMA AppUnchangedTypes == AppTypeOK /\ UNCHANGED appVars => AppTypeOK'
  BY DEF AppTypeOK, appVars, quitVars, gateVars, loopVars

LEMMA JobKinds ==
    /\ \A j \in JobType : j.kind \in {"Preview", "Replan", "Command", "Upload"}
    /\ \A j \in JobType : j.kind \in {"Preview", "Replan"} =>
          j.wanted \in PendingType /\ j.generation \in Nat
    /\ NoJob.kind = "none"
  BY DEF JobType, NoJob

LEMMA UpdateTypes ==
    /\ \A k \in {"Preview", "Replan"}, ok \in BOOLEAN, p \in PendingType, n \in Nat :
          [kind |-> k, ok |-> ok, wanted |-> p, generation |-> n] \in UpdateType
    /\ [kind |-> "Started"] \in UpdateType
    /\ \A n \in Nat : [kind |-> "Progress", done |-> n] \in UpdateType
    /\ \A d \in DeviceStates : [kind |-> "Device", device |-> d] \in UpdateType
    /\ \A o \in Outcomes : [kind |-> "Finished", outcome |-> o] \in UpdateType
  BY DEF UpdateType

\* A step of the worker leaves the channels well typed.
LEMMA WorkerChannelTypes ==
    ASSUME TypeOK, WorkerNext
    PROVE  ChannelsTypeOK'
  <1>1. ChannelsTypeOK /\ WorkerTypeOK
    BY DEF TypeOK
  <1> USE <1>1
  <1>2. CASE Take
    <2>1. jobs' \in Seq(JobType)
      BY <1>2, QueueTypes DEF Take, ChannelsTypeOK
    <2> QED
      BY <1>2, <2>1 DEF Take, ChannelsTypeOK
  <1>3. CASE SetBusy
    BY <1>3 DEF SetBusy, ChannelsTypeOK
  <1>4. CASE Decode
    <2>1. job.kind \in {"Preview", "Replan"} /\ job \in JobType
      BY <1>4, JobKinds DEF Decode, Step, WorkerTypeOK, WorkerShape
    <2>2. PICK ok \in BOOLEAN :
             Send([kind |-> job.kind, ok |-> ok, wanted |-> job.wanted,
                   generation |-> job.generation])
      BY <1>4 DEF Decode
    <2>3. [kind |-> job.kind, ok |-> ok, wanted |-> job.wanted,
           generation |-> job.generation] \in UpdateType
      BY <2>1, JobKinds, UpdateTypes
    <2>4. updates' \in Seq(UpdateType)
      BY <2>2, <2>3, QueueTypes DEF Send, ChannelsTypeOK
    <2> QED
      BY <1>4, <2>4 DEF Decode, ChannelsTypeOK
  <1>5. CASE Start
    <2>1. updates' \in Seq(UpdateType)
      BY <1>5, UpdateTypes, QueueTypes DEF Start, Send, ChannelsTypeOK
    <2> QED
      BY <1>5, <2>1 DEF Start, ChannelsTypeOK
  <1>6. CASE Report
    <2>1. sent + 1 \in Nat
      BY DEF WorkerTypeOK
    <2>2. updates' \in Seq(UpdateType)
      BY <1>6, <2>1, UpdateTypes, QueueTypes DEF Report, Send, ChannelsTypeOK
    <2> QED
      BY <1>6, <2>2 DEF Report, ChannelsTypeOK
  <1>7. CASE LostFlag
    BY <1>7 DEF LostFlag, ChannelsTypeOK
  <1>8. CASE LostUpdate
    <2>1. updates' \in Seq(UpdateType)
      BY <1>8, UpdateTypes, QueueTypes DEF LostUpdate, Send, ChannelsTypeOK, DeviceStates
    <2> QED
      BY <1>8, <2>1 DEF LostUpdate, ChannelsTypeOK
  <1>9. CASE Release
    BY <1>9 DEF Release, ChannelsTypeOK
  <1>10. CASE Answer
    <2>1. job \in JobType /\ outcome \in Outcomes
      BY <1>10 DEF Answer, WorkerTypeOK, WorkerShape
    <2>2. AnswerUpdate \in UpdateType
      BY <2>1, JobKinds, UpdateTypes DEF AnswerUpdate
    <2>3. updates' \in Seq(UpdateType)
      BY <1>10, <2>2, QueueTypes DEF Answer, Send, ChannelsTypeOK
    <2> QED
      BY <1>10, <2>3 DEF Answer, ChannelsTypeOK
  <1>11. CASE Reencode \/ Open \/ OpenFails \/ Continue \/ Cancelled \/ ReportFails \/ Panic
    BY <1>11 DEF Reencode, Open, OpenFails, Continue, Cancelled, ReportFails, Panic,
          ChannelsTypeOK, channels
  <1> QED
    BY <1>2, <1>3, <1>4, <1>5, <1>6, <1>7, <1>8, <1>9, <1>10, <1>11 DEF WorkerNext

\* A step of the worker leaves its own variables well typed and in shape.
LEMMA WorkerOwnTypes ==
    ASSUME TypeOK, WorkerNext
    PROVE  WorkerTypeOK'
  <1>1. WorkerTypeOK /\ jobs \in Seq(JobType)
    BY DEF TypeOK, ChannelsTypeOK
  <1> USE <1>1, JobKinds DEF Step
  <1>2. CASE Take
    <2>1. job' \in JobType
      BY <1>2, QueueTypes DEF Take
    <2> QED
      BY <1>2, <2>1 DEF Take, WorkerTypeOK, WorkerShape, WorkerStates
  <1>3. CASE SetBusy
    BY <1>3 DEF SetBusy, FirstStep, Decodes, Uploads, WorkerTypeOK, WorkerShape, WorkerStates
  <1>4. CASE Decode
    BY <1>4 DEF Decode, WorkerTypeOK, WorkerShape, WorkerStates
  <1>5. CASE Reencode
    BY <1>5 DEF Reencode, WorkerTypeOK, WorkerShape, WorkerStates
  <1>6. CASE Open
    BY <1>6 DEF Open, Uploads, WorkerTypeOK, WorkerShape, WorkerStates
  <1>7. CASE OpenFails
    BY <1>7 DEF OpenFails, WorkerTypeOK, WorkerShape, WorkerStates, Outcomes
  <1>8. CASE Start
    BY <1>8 DEF Start, WorkerTypeOK, WorkerShape, WorkerStates
  <1>9. CASE Continue
    BY <1>9 DEF Continue, WorkerTypeOK, WorkerShape, WorkerStates
  <1>10. CASE Cancelled
    BY <1>10 DEF Cancelled, WorkerTypeOK, WorkerShape, WorkerStates, Outcomes
  <1>11. CASE Report
    <2>1. sent' \in Nat
      BY <1>11 DEF Report, WorkerTypeOK
    <2>2. \/ worker' = "release" /\ outcome' = "ok"
          \/ worker' = "check" /\ job.kind = "Upload" /\ outcome' = outcome
          \/ worker' = "report" /\ outcome' = outcome
      BY <1>11 DEF Report, Uploads
    <2> QED
      BY <1>11, <2>1, <2>2 DEF Report, WorkerTypeOK, WorkerShape, WorkerStates, Outcomes
  <1>12. CASE ReportFails
    BY <1>12 DEF ReportFails, WorkerTypeOK, WorkerShape, WorkerStates, Outcomes
  <1>13. CASE LostFlag
    BY <1>13 DEF LostFlag, WorkerTypeOK, WorkerShape, WorkerStates
  <1>14. CASE LostUpdate
    BY <1>14 DEF LostUpdate, WorkerTypeOK, WorkerShape, WorkerStates
  <1>15. CASE Panic
    BY <1>15 DEF Panic, WorkerTypeOK, WorkerShape, WorkerStates, Outcomes
  <1>16. CASE Release
    BY <1>16 DEF Release, Rest, WorkerTypeOK, WorkerShape, WorkerStates
  <1>17. CASE Answer
    BY <1>17 DEF Answer, Rest, WorkerTypeOK, WorkerShape, WorkerStates
  <1> QED
    BY <1>2, <1>3, <1>4, <1>5, <1>6, <1>7, <1>8, <1>9, <1>10, <1>11, <1>12, <1>13,
       <1>14, <1>15, <1>16, <1>17 DEF WorkerNext

LEMMA WorkerStepTypes == TypeOK /\ WorkerStep => TypeOK'
  BY AppUnchangedTypes, WorkerChannelTypes, WorkerOwnTypes
     DEF TypeOK, WorkerStep, DiscoveryTypeOK, discoveryVars

LEMMA DiscoveryStepTypes == TypeOK /\ DiscoveryStep => TypeOK'
  <1> SUFFICES ASSUME TypeOK, DiscoveryStep PROVE TypeOK'
    OBVIOUS
  <1>1. AppTypeOK' /\ WorkerTypeOK'
    BY AppUnchangedTypes DEF TypeOK, DiscoveryStep, WorkerTypeOK, WorkerShape, workerVars
  <1>2. ChannelsTypeOK /\ DiscoveryTypeOK
    BY DEF TypeOK
  <1> USE <1>2 DEF DiscoveryTypeOK, DiscoveryStates, Move
  <1>3. CASE Wake \/ LoadBusy \/ LoadReady
    BY <1>1, <1>3 DEF TypeOK, Wake, LoadBusy, LoadReady, ChannelsTypeOK, channels
  <1>4. CASE FindDevice \/ OpenAndDrain
    <2>1. keyboard \in DeviceStates
      BY DEF ChannelsTypeOK, ChannelsAssumption
    <2> QED
      BY <1>1, <1>4, <2>1 DEF TypeOK, FindDevice, OpenAndDrain, HasNode, ChannelsTypeOK,
            channels, DeviceStates
  <1>5. CASE StoreReady
    BY <1>1, <1>5 DEF TypeOK, StoreReady, ChannelsTypeOK
  <1>6. CASE Tell
    <2>1. updates' \in Seq(UpdateType)
      BY <1>6, UpdateTypes, QueueTypes DEF Tell, Send, ChannelsTypeOK
    <2> QED
      BY <1>1, <1>6, <2>1 DEF TypeOK, Tell, ChannelsTypeOK, DeviceStates
  <1> QED
    BY <1>3, <1>4, <1>5, <1>6 DEF DiscoveryStep, DiscoveryNext

(***************************************************************************)
(* Every variable keeps its type and the worker its shape: in particular   *)
(* a job that touched the keyboard always comes to an outcome the answer   *)
(* can carry, and a decode job only ever fails by a panic.                 *)
(***************************************************************************)
THEOREM TypeCorrect == Spec => []TypeOK
  <1>1. Init => TypeOK
    <2> SUFFICES ASSUME Init PROVE TypeOK
      OBVIOUS
    <2>0. <<>> \in Seq(JobType) /\ <<>> \in Seq(UpdateType)
      OBVIOUS
    <2>1. ChannelsTypeOK
      BY <2>0 DEF Init, ChannelsInit, ChannelsTypeOK
    <2>2. AppTypeOK
      BY ScreenTypes DEF Init, AppInit, AppTypeOK, DeviceStates
    <2>3. WorkerTypeOK
      BY JobKinds DEF Init, WorkerInit, WorkerTypeOK, WorkerShape, WorkerStates
    <2>4. DiscoveryTypeOK
      BY DEF Init, DiscoveryInit, DiscoveryTypeOK, DiscoveryStates, DeviceStates
    <2> QED
      BY <2>1, <2>2, <2>3, <2>4 DEF TypeOK
  <1>2. TypeOK /\ [Next]_vars => TypeOK'
    <2> SUFFICES ASSUME TypeOK, [Next]_vars PROVE TypeOK'
      OBVIOUS
    <2>1. CASE Interface
      BY <2>1, InterfaceTypes
    <2>2. CASE WorkerStep
      BY <2>2, WorkerStepTypes
    <2>3. CASE DiscoveryStep
      BY <2>3, DiscoveryStepTypes
    <2>4. CASE Replug
      BY <2>4, AppUnchangedTypes
         DEF Replug, TypeOK, ChannelsTypeOK, WorkerTypeOK, WorkerShape, DiscoveryTypeOK,
             workerVars, discoveryVars
    <2>5. CASE UNCHANGED vars
      BY <2>5, AppUnchangedTypes
         DEF vars, channels, TypeOK, ChannelsTypeOK, WorkerTypeOK, WorkerShape,
             DiscoveryTypeOK, workerVars, discoveryVars
    <2> QED
      BY <2>1, <2>2, <2>3, <2>4, <2>5 DEF Next, Exited
  <1> QED
    BY <1>1, <1>2, PTL DEF Spec

--------------------------------------------------------------------------------
(***************************************************************************)
(* What sending and reading do to the kinds a queue holds.                 *)
(***************************************************************************)
LEMMA AppendKinds ==
    ASSUME NEW S, NEW q \in Seq(S), NEW u \in S, NEW K
    PROVE  /\ HasKind(Append(q, u), K) <=> HasKind(q, K) \/ u.kind \in K
           /\ AtMostOne(q, K) /\ (u.kind \in K => ~HasKind(q, K))
                 => AtMostOne(Append(q, u), K)
  <1> DEFINE p == Append(q, u)
             n == Len(q)
  <1>1. n \in Nat /\ DOMAIN q = 1 .. n
    OBVIOUS
  <1>2. DOMAIN p = 1 .. (n + 1) /\ p[n + 1] = u /\ \A i \in 1 .. n : p[i] = q[i]
    OBVIOUS
  <1>3. \A i \in DOMAIN p : i \in DOMAIN q \/ i = n + 1
    BY <1>1, <1>2
  <1>4. DOMAIN q \subseteq DOMAIN p /\ n + 1 \in DOMAIN p
    BY <1>1, <1>2
  <1>5. \A i \in DOMAIN q : p[i] = q[i]
    BY <1>1, <1>2
  <1> HIDE DEF p, n
  <1>6. HasKind(p, K) <=> HasKind(q, K) \/ u.kind \in K
    BY <1>2, <1>3, <1>4, <1>5 DEF HasKind
  <1>7. ASSUME AtMostOne(q, K), u.kind \in K => ~HasKind(q, K)
        PROVE  AtMostOne(p, K)
    BY <1>2, <1>3, <1>5, <1>7 DEF AtMostOne, HasKind
  <1> QED
    BY <1>6, <1>7 DEF p

LEMMA TailKinds ==
    ASSUME NEW S, NEW q \in Seq(S), q # <<>>, NEW K
    PROVE  /\ HasKind(q, K) <=> Head(q).kind \in K \/ HasKind(Tail(q), K)
           /\ AtMostOne(q, K) => /\ AtMostOne(Tail(q), K)
                                 /\ Head(q).kind \in K => ~HasKind(Tail(q), K)
  <1> DEFINE t == Tail(q)
             n == Len(q)
  <1>1. n \in Nat \ {0} /\ DOMAIN q = 1 .. n /\ Head(q) = q[1]
    OBVIOUS
  <1>2. DOMAIN t = 1 .. (n - 1) /\ \A i \in 1 .. (n - 1) : t[i] = q[i + 1]
    OBVIOUS
  <1>3. 1 \in DOMAIN q /\ \A i \in DOMAIN t : i + 1 \in DOMAIN q /\ t[i] = q[i + 1] /\ i + 1 # 1
    BY <1>1, <1>2
  <1>4. \A i \in DOMAIN q : i = 1 \/ \E k \in DOMAIN t : i = k + 1
    <2> SUFFICES ASSUME NEW i \in DOMAIN q, i # 1 PROVE i - 1 \in DOMAIN t /\ i = (i - 1) + 1
      OBVIOUS
    <2> QED
      BY <1>1, <1>2
  <1>5. \A i, j \in DOMAIN t : i + 1 = j + 1 => i = j
    BY <1>1, <1>2
  <1> HIDE DEF t, n
  <1>6. HasKind(q, K) <=> Head(q).kind \in K \/ HasKind(t, K)
    BY <1>1, <1>3, <1>4 DEF HasKind
  <1>7. AtMostOne(q, K) => AtMostOne(t, K)
    BY <1>3, <1>5 DEF AtMostOne
  <1>8. AtMostOne(q, K) /\ Head(q).kind \in K => ~HasKind(t, K)
    BY <1>1, <1>3 DEF AtMostOne, HasKind
  <1> QED
    BY <1>6, <1>7, <1>8 DEF t

LEMMA ReplanIsAnswer == ReplanAnswered => JobAnswered
  BY DEF ReplanAnswered, JobAnswered, HasKind, AnswerKinds

(***************************************************************************)
(* OneJob is inductive together with ConfirmGate: Space on the placement   *)
(* row never looks at job_pending, so that it cannot start a second job    *)
(* rests on what replan_pending means.                                     *)
(***************************************************************************)
JobInv == TypeOK /\ OneJob /\ ConfirmGate

LEMMA SubmitOne ==
    ASSUME jobs = <<>>, NEW j \in JobType, Submit(j)
    PROVE  /\ Len(jobs') = 1 /\ jobs' # <<>>
           /\ HasKind(jobs', {"Replan"}) <=> j.kind = "Replan"
           /\ job_pending' = TRUE
  <1>1. jobs' = Append(<<>>, j) /\ <<>> \in Seq(JobType) /\ job_pending' = TRUE
    BY DEF Submit
  <1>2. ~HasKind(<<>>, {"Replan"})
    BY DEF HasKind
  <1>3. HasKind(Append(<<>>, j), {"Replan"}) <=> j.kind = "Replan"
    BY <1>1, <1>2, AppendKinds
  <1>4. Len(Append(<<>>, j)) = 1 /\ Append(<<>>, j) # <<>>
    OBVIOUS
  <1> QED
    BY <1>1, <1>3, <1>4

LEMMA JobInvKey ==
    ASSUME JobInv, OnKey, UNCHANGED <<workerVars, discoveryVars>>
    PROVE  OneJob' /\ ConfirmGate'
  <1>1. /\ JobHeld' = JobHeld /\ JobAnswered' = JobAnswered
        /\ ReplanHeld' = ReplanHeld /\ ReplanAnswered' = ReplanAnswered
        /\ AtMostOne(updates, AnswerKinds)' = AtMostOne(updates, AnswerKinds)
    BY DEF OnKey, workerVars, JobHeld, JobAnswered, ReplanHeld, ReplanAnswered
  <1>2. ASSUME UNCHANGED <<jobs, job_pending, replan_pending>>, On("Confirm")' => On("Confirm")
        PROVE  OneJob' /\ ConfirmGate'
    BY <1>1, <1>2 DEF JobInv, OneJob, ConfirmGate, JobQueued, ReplanQueued
  <1>3. ASSUME NEW j \in JobType, Submit(j), ~job_pending,
               replan_pending' = (replan_pending \/ j.kind = "Replan"),
               On("Confirm")' => j.kind = "Replan"
        PROVE  OneJob' /\ ConfirmGate'
    <2>1. /\ jobs = <<>> /\ ~JobHeld /\ ~JobAnswered /\ ~ReplanHeld /\ ~ReplanAnswered
          /\ ~replan_pending
      BY <1>3, ReplanIsAnswer DEF JobInv, OneJob, ConfirmGate, JobQueued, ReplanHeld,
            ReplanQueued, HasKind
    <2>2. /\ Len(jobs') = 1 /\ jobs' # <<>>
          /\ HasKind(jobs', {"Replan"}) <=> j.kind = "Replan"
          /\ job_pending' = TRUE
      BY <1>3, <2>1, SubmitOne
    <2>3. JobQueued' /\ ~JobHeld' /\ ~JobAnswered' /\ ~ReplanHeld' /\ ~ReplanAnswered'
      BY <1>1, <2>1, <2>2 DEF JobQueued
    <2>4. OneJob'
      BY <1>1, <2>2, <2>3 DEF JobInv, OneJob
    <2>5. ReplanQueued' <=> j.kind = "Replan"
      BY <2>2 DEF ReplanQueued
    <2>6. ConfirmGate'
      BY <1>3, <2>1, <2>3, <2>5 DEF ConfirmGate
    <2> QED
      BY <2>4, <2>6
  <1> USE DEF On, Show, quitVars, gateVars
  <1>4. CASE PromptYesRunning \/ PromptYesFinished \/ PromptNo \/ NoKey
    BY <1>2, <1>4 DEF PromptYesRunning, PromptYesFinished, PromptNo, NoKey
  <1>5. CASE MenuQuit \/ RunningCancel \/ RunningQuit
    BY <1>2, <1>5 DEF MenuQuit, RunningCancel, RunningQuit
  <1>6. CASE OpenBrowser \/ BrowseLeave \/ ConfirmLeave
    BY <1>2, <1>6 DEF OpenBrowser, BrowseLeave, ConfirmLeave, Menu, Browse
  <1>7. CASE ConfirmEdit
    BY <1>2, <1>7 DEF ConfirmEdit
  <1>8. CASE MenuCommand
    <2>1. PICK c \in Commands : Submit([kind |-> "Command", name |-> c])
      BY <1>8 DEF MenuCommand
    <2>2. [kind |-> "Command", name |-> c] \in JobType
      BY DEF JobType
    <2> QED
      BY <1>3, <1>8, <2>1, <2>2 DEF MenuCommand, JobInv, TypeOK, AppTypeOK
  <1>9. CASE BrowsePick
    <2>1. PICK f \in Files :
             Submit([kind |-> "Preview", wanted |-> FirstPending(f),
                     generation |-> preview_generation'])
      BY <1>9 DEF BrowsePick
    <2>2. FirstPending(f) \in PendingType
      BY DEF FirstPending, PendingType, Placements
    <2>3. preview_generation' \in Nat
      BY <1>9, SupersedeType DEF BrowsePick, JobInv, TypeOK, AppTypeOK
    <2>4. [kind |-> "Preview", wanted |-> FirstPending(f),
           generation |-> preview_generation'] \in JobType
      BY <2>2, <2>3, DecodeJobType
    <2> QED
      BY <1>3, <1>9, <2>1, <2>4 DEF BrowsePick, JobInv, TypeOK, AppTypeOK
  <1>10. CASE ConfirmPlacement
    <2>1. ~job_pending
      BY <1>10 DEF ConfirmPlacement, JobInv, ConfirmGate
    <2>2. Toggled(screen.pending) \in PendingType
      BY <1>10, ConfirmHolds, ToggledType DEF ConfirmPlacement, JobInv, TypeOK, AppTypeOK
    <2>3. preview_generation' \in Nat
      BY <1>10, SupersedeType DEF ConfirmPlacement, JobInv, TypeOK, AppTypeOK
    <2>4. [kind |-> "Replan", wanted |-> Toggled(screen.pending),
           generation |-> preview_generation'] \in JobType
      BY <2>2, <2>3, DecodeJobType
    <2> QED
      BY <1>3, <1>10, <2>1, <2>4 DEF ConfirmPlacement
  <1>11. CASE ConfirmUpload
    <2>1. [kind |-> "Upload"] \in JobType
      BY DEF JobType
    <2> QED
      BY <1>3, <1>11, <2>1 DEF ConfirmUpload, Menu, JobInv, TypeOK, AppTypeOK
  <1> QED
    BY <1>4, <1>5, <1>6, <1>7, <1>8, <1>9, <1>10, <1>11 DEF OnKey, ScreenKey

LEMMA ReadOne ==
    ASSUME updates \in Seq(UpdateType), updates # <<>>, updates' = Tail(updates),
           AtMostOne(updates, AnswerKinds)
    PROVE  /\ AtMostOne(updates', AnswerKinds)
           /\ Head(updates).kind \in AnswerKinds =>
                 /\ JobAnswered /\ ~JobAnswered' /\ ~ReplanAnswered'
                 /\ ReplanAnswered => Head(updates).kind = "Replan"
           /\ Head(updates).kind \notin AnswerKinds =>
                 (JobAnswered' <=> JobAnswered) /\ (ReplanAnswered' <=> ReplanAnswered)
  <1>1. /\ AtMostOne(updates', AnswerKinds)
        /\ JobAnswered <=> Head(updates).kind \in AnswerKinds \/ JobAnswered'
        /\ Head(updates).kind \in AnswerKinds => ~JobAnswered'
    BY TailKinds DEF JobAnswered
  <1>2. ReplanAnswered <=> Head(updates).kind = "Replan" \/ ReplanAnswered'
    BY TailKinds DEF ReplanAnswered
  <1>3. ReplanAnswered' => JobAnswered'
    BY DEF ReplanAnswered, JobAnswered, HasKind, AnswerKinds
  <1> QED
    BY <1>1, <1>2, <1>3 DEF AnswerKinds

LEMMA JobInvUpdate ==
    ASSUME JobInv, OnUpdate, UNCHANGED <<workerVars, discoveryVars>>
    PROVE  OneJob' /\ ConfirmGate'
  <1> DEFINE u == Head(updates)
  <1>1. /\ AtMostOne(updates', AnswerKinds)
        /\ u.kind \in AnswerKinds =>
              /\ JobAnswered /\ ~JobAnswered' /\ ~ReplanAnswered'
              /\ ReplanAnswered => u.kind = "Replan"
        /\ u.kind \notin AnswerKinds =>
              (JobAnswered' <=> JobAnswered) /\ (ReplanAnswered' <=> ReplanAnswered)
    BY ReadOne DEF JobInv, TypeOK, ChannelsTypeOK, OneJob, OnUpdate
  <1>2. /\ UNCHANGED jobs
        /\ JobQueued' = JobQueued /\ JobHeld' = JobHeld
        /\ ReplanQueued' = ReplanQueued /\ ReplanHeld' = ReplanHeld
    BY DEF OnUpdate, workerVars, JobQueued, JobHeld, ReplanQueued, ReplanHeld
  <1>3. \/ OnDevice(u) \/ OnPreview(u) \/ OnReplan(u)
        \/ OnStarted(u) \/ OnProgress(u) \/ OnFinished(u)
    BY DEF OnUpdate
  <1> HIDE DEF u
  <1>4. ASSUME u.kind \in AnswerKinds
        PROVE  ~JobQueued /\ ~JobHeld /\ ~ReplanQueued /\ ~ReplanHeld
    BY <1>1, <1>4 DEF JobInv, OneJob, JobQueued, ReplanQueued, HasKind, ReplanHeld
  <1>5. ASSUME u.kind \in AnswerKinds, ~job_pending', ~replan_pending'
        PROVE  OneJob' /\ ConfirmGate'
    <2>1. ~JobQueued' /\ ~JobHeld' /\ ~ReplanQueued' /\ ~ReplanHeld'
      BY <1>2, <1>4, <1>5
    <2> QED
      BY <1>1, <1>2, <1>5, <2>1 DEF JobInv, OneJob, ConfirmGate
  <1>6. ASSUME u.kind \notin AnswerKinds, UNCHANGED <<job_pending, replan_pending>>,
               On("Confirm")' => On("Confirm")
        PROVE  OneJob' /\ ConfirmGate'
    BY <1>1, <1>2, <1>6 DEF JobInv, OneJob, ConfirmGate
  <1>7. ASSUME u.kind \in AnswerKinds, u.kind # "Replan" PROVE ~replan_pending
    BY <1>1, <1>4, <1>7 DEF JobInv, ConfirmGate
  <1> USE DEF AnswerKinds, gateVars
  <1>8. CASE OnDevice(u)
    BY <1>6, <1>8 DEF OnDevice, On
  <1>9. CASE OnPreview(u)
    BY <1>5, <1>7, <1>9 DEF OnPreview
  <1>10. CASE OnReplan(u)
    BY <1>5, <1>10 DEF OnReplan
  <1>11. CASE OnStarted(u)
    BY <1>6, <1>11 DEF OnStarted, Show, Running, On
  <1>12. CASE OnProgress(u)
    BY <1>6, <1>12 DEF OnProgress, Show, Running, On
  <1>13. CASE OnFinished(u)
    BY <1>5, <1>7, <1>13 DEF OnFinished
  <1> QED
    BY <1>3, <1>8, <1>9, <1>10, <1>11, <1>12, <1>13

--------------------------------------------------------------------------------
LEMMA SendQuietly ==
    ASSUME updates \in Seq(UpdateType), NEW u \in UpdateType, u.kind \notin AnswerKinds, Send(u)
    PROVE  /\ JobAnswered' <=> JobAnswered
           /\ ReplanAnswered' <=> ReplanAnswered
           /\ AtMostOne(updates, AnswerKinds) => AtMostOne(updates', AnswerKinds)
  <1>1. u.kind \notin {"Replan"}
    BY DEF AnswerKinds
  <1> QED
    BY <1>1, AppendKinds DEF Send, JobAnswered, ReplanAnswered

LEMMA SendAnswer ==
    ASSUME updates \in Seq(UpdateType), NEW u \in UpdateType, u.kind \in AnswerKinds, Send(u),
           ~JobAnswered
    PROVE  /\ JobAnswered'
           /\ ReplanAnswered' <=> u.kind = "Replan"
           /\ AtMostOne(updates, AnswerKinds) => AtMostOne(updates', AnswerKinds)
  <1>1. ~ReplanAnswered
    BY ReplanIsAnswer
  <1> QED
    BY <1>1, AppendKinds DEF Send, JobAnswered, ReplanAnswered

\* Whatever leaves the queues, the gates and the place of the job alone.
LEMMA JobInvQuiet ==
    ASSUME JobInv,
           UNCHANGED <<jobs, job_pending, replan_pending, screen>>,
           JobHeld' <=> JobHeld, ReplanHeld' <=> ReplanHeld,
           JobAnswered' <=> JobAnswered, ReplanAnswered' <=> ReplanAnswered,
           AtMostOne(updates', AnswerKinds)
    PROVE  OneJob' /\ ConfirmGate'
  BY DEF JobInv, OneJob, ConfirmGate, JobQueued, ReplanQueued, On

LEMMA JobInvWorker ==
    ASSUME JobInv, WorkerNext, UNCHANGED <<appVars, discoveryVars>>
    PROVE  OneJob' /\ ConfirmGate'
  <1>1. /\ ChannelsTypeOK /\ WorkerTypeOK /\ WorkerShape
        /\ AtMostOne(updates, AnswerKinds)
        /\ UNCHANGED <<job_pending, replan_pending, screen>>
    BY DEF JobInv, TypeOK, OneJob, appVars, gateVars, WorkerTypeOK
  <1>2. updates \in Seq(UpdateType) /\ jobs \in Seq(JobType)
    BY <1>1 DEF ChannelsTypeOK
  <1>3. UNCHANGED updates =>
           /\ JobAnswered' <=> JobAnswered
           /\ ReplanAnswered' <=> ReplanAnswered
           /\ AtMostOne(updates', AnswerKinds)
    BY <1>1 DEF JobAnswered, ReplanAnswered
  <1>4. ASSUME JobHeld, JobHeld', UNCHANGED <<job, jobs>>,
               \/ UNCHANGED updates
               \/ \E u \in UpdateType : u.kind \notin AnswerKinds /\ Send(u)
        PROVE  OneJob' /\ ConfirmGate'
    <2>1. ReplanHeld' <=> ReplanHeld
      BY <1>4 DEF ReplanHeld
    <2> QED
      BY <1>1, <1>2, <1>3, <1>4, <2>1, SendQuietly, JobInvQuiet
  <1>5. ASSUME JobHeld, ~JobHeld', UNCHANGED jobs,
               NEW u \in UpdateType, u.kind \in AnswerKinds, Send(u),
               u.kind = "Replan" <=> job.kind = "Replan"
        PROVE  OneJob' /\ ConfirmGate'
    <2>1. ~JobQueued /\ ~JobAnswered /\ ~ReplanAnswered /\ ~ReplanQueued
      BY <1>5, ReplanIsAnswer
         DEF JobInv, OneJob, JobQueued, ReplanQueued, HasKind
    <2>2. /\ JobAnswered' /\ AtMostOne(updates', AnswerKinds)
          /\ ReplanAnswered' <=> job.kind = "Replan"
      BY <1>1, <1>2, <1>5, <2>1, SendAnswer
    <2>3. ~JobQueued' /\ ~ReplanQueued' /\ ~ReplanHeld'
      BY <1>5, <2>1 DEF JobQueued, ReplanQueued, ReplanHeld
    <2>4. OneJob'
      BY <1>1, <1>5, <2>2, <2>3 DEF JobInv, OneJob
    <2>5. ConfirmGate'
      BY <1>1, <1>5, <2>1, <2>2, <2>3 DEF JobInv, ConfirmGate, ReplanHeld, On
    <2> QED
      BY <2>4, <2>5
  <1> USE DEF Step, JobHeld
  <1>6. CASE Take
    <2>1. jobs # <<>> /\ Len(jobs) <= 1 /\ ~JobHeld /\ ~JobAnswered /\ job_pending
      BY <1>6 DEF Take, JobInv, OneJob, JobQueued
    <2>2. jobs' = <<>>
      BY <1>2, <1>6, <2>1 DEF Take
    <2>3. ReplanQueued <=> job'.kind = "Replan"
      <3>1. HasKind(jobs, {"Replan"}) <=>
               Head(jobs).kind \in {"Replan"} \/ HasKind(Tail(jobs), {"Replan"})
        BY <1>2, <2>1, TailKinds
      <3>2. ~HasKind(<<>>, {"Replan"})
        BY DEF HasKind
      <3> QED
        BY <1>6, <2>2, <3>1, <3>2 DEF Take, ReplanQueued
    <2>4. JobHeld' /\ UNCHANGED updates
      BY <1>6 DEF Take
    <2>5. ~JobQueued' /\ ~ReplanQueued' /\ (ReplanHeld' <=> ReplanQueued)
      BY <2>2, <2>3, <2>4 DEF JobQueued, ReplanQueued, ReplanHeld, HasKind
    <2>6. ~ReplanHeld /\ ~ReplanAnswered /\ Len(jobs') <= 1
      BY <2>1, <2>2, ReplanIsAnswer DEF ReplanHeld
    <2>7. OneJob'
      BY <1>1, <1>3, <2>1, <2>4, <2>5, <2>6 DEF JobInv, OneJob
    <2>8. ConfirmGate'
      BY <1>1, <1>3, <2>1, <2>4, <2>5, <2>6 DEF JobInv, ConfirmGate, On
    <2> QED
      BY <2>7, <2>8
  <1>7. CASE SetBusy \/ Reencode \/ Open \/ OpenFails \/ Continue \/ Cancelled \/ ReportFails
             \/ LostFlag \/ Panic
    BY <1>4, <1>7 DEF SetBusy, FirstStep, Reencode, Open, OpenFails, Continue, Cancelled,
          ReportFails, LostFlag, Panic, channels
  <1>8. CASE Decode
    <2>1. job.kind \in {"Preview", "Replan"} /\ job \in JobType
      BY <1>1, <1>8, JobKinds DEF Decode, WorkerTypeOK, WorkerShape
    <2>2. PICK ok \in BOOLEAN :
             Send([kind |-> job.kind, ok |-> ok, wanted |-> job.wanted,
                   generation |-> job.generation])
      BY <1>8 DEF Decode
    <2>3. [kind |-> job.kind, ok |-> ok, wanted |-> job.wanted,
           generation |-> job.generation] \in UpdateType
      BY <2>1, JobKinds, UpdateTypes
    <2>4. JobHeld /\ ~JobHeld' /\ UNCHANGED jobs
      BY <1>1, <1>8 DEF Decode, WorkerShape
    <2> QED
      BY <1>5, <2>1, <2>2, <2>3, <2>4 DEF AnswerKinds
  <1>9. CASE Start
    BY <1>4, <1>9, UpdateTypes DEF Start, AnswerKinds
  <1>10. CASE Report
    <2>1. sent + 1 \in Nat
      BY <1>1 DEF WorkerTypeOK
    <2>2. \/ UNCHANGED updates
          \/ \E u \in UpdateType : u.kind \notin AnswerKinds /\ Send(u)
      BY <1>10, <2>1, UpdateTypes DEF Report, AnswerKinds
    <2>3. JobHeld /\ JobHeld' /\ UNCHANGED <<job, jobs>>
      <3>1. worker = "report" /\ UNCHANGED <<job, jobs>>
        BY <1>10 DEF Report
      <3> DEFINE last == sent + 1 = Total
      <3>0. /\ worker' = IF last THEN "release" ELSE IF Uploads THEN "check" ELSE "report"
            /\ outcome' = IF last THEN "ok" ELSE outcome
        BY <1>10 DEF Report
      <3> HIDE DEF last
      <3>2. CASE last
        BY <3>0, <3>1, <3>2 DEF JobHeld
      <3>3. CASE ~last
        <4>1. worker' \in {"check", "report"}
          BY <3>0, <3>3, Zenon
        <4> QED
          BY <3>1, <4>1 DEF JobHeld
      <3> QED
        BY <3>2, <3>3
    <2> QED
      BY <1>4, <2>2, <2>3
  <1>11. CASE LostUpdate
    <2>1. \E u \in UpdateType : u.kind \notin AnswerKinds /\ Send(u)
      BY <1>11, UpdateTypes DEF LostUpdate, DeviceStates, AnswerKinds
    <2>2. JobHeld /\ JobHeld' /\ UNCHANGED <<job, jobs>>
      BY <1>1, <1>11 DEF LostUpdate, WorkerShape
    <2> QED
      BY <1>4, <2>1, <2>2
  <1>12. CASE Release
    <2>1. UNCHANGED <<jobs, updates>>
      BY <1>12 DEF Release
    <2>2. CASE outcome = "none"
      BY <1>1, <1>3, <1>12, <2>1, <2>2, JobInvQuiet DEF Release, Rest, ReplanHeld
    <2>3. CASE outcome # "none"
      BY <1>4, <1>12, <2>1, <2>3 DEF Release
    <2> QED
      BY <2>2, <2>3
  <1>13. CASE Answer
    <2>1. job \in JobType /\ outcome \in Outcomes
      BY <1>1, <1>13 DEF Answer, WorkerTypeOK, WorkerShape
    <2>2. AnswerUpdate \in UpdateType
      BY <2>1, JobKinds, UpdateTypes DEF AnswerUpdate
    <2>3. AnswerUpdate.kind \in AnswerKinds /\ (AnswerUpdate.kind = "Replan" <=> job.kind = "Replan")
      BY <1>1, <1>13 DEF Answer, AnswerUpdate, AnswerKinds, WorkerShape
    <2>4. JobHeld /\ ~JobHeld' /\ UNCHANGED jobs /\ Send(AnswerUpdate)
      BY <1>13 DEF Answer, Rest
    <2> QED
      BY <1>5, <2>2, <2>3, <2>4
  <1> QED
    BY <1>6, <1>7, <1>8, <1>9, <1>10, <1>11, <1>12, <1>13 DEF WorkerNext

LEMMA JobInvDiscovery ==
    ASSUME JobInv, DiscoveryNext, UNCHANGED <<appVars, workerVars>>
    PROVE  OneJob' /\ ConfirmGate'
  <1>1. /\ JobHeld' = JobHeld /\ ReplanHeld' = ReplanHeld
        /\ UNCHANGED <<job_pending, replan_pending, screen>>
    BY DEF workerVars, appVars, gateVars, JobHeld, ReplanHeld
  <1>2. CASE Wake \/ LoadBusy \/ LoadReady \/ FindDevice \/ OpenAndDrain \/ StoreReady
    <2>1. UNCHANGED <<jobs, updates>>
      BY <1>2 DEF Wake, LoadBusy, LoadReady, FindDevice, OpenAndDrain, StoreReady, channels
    <2> QED
      BY <1>1, <2>1, JobInvQuiet DEF JobInv, OneJob, JobAnswered, ReplanAnswered
  <1>3. CASE Tell
    <2>1. [kind |-> "Device", device |-> found] \in UpdateType
      BY UpdateTypes DEF JobInv, TypeOK, DiscoveryTypeOK
    <2>2. updates \in Seq(UpdateType) /\ AtMostOne(updates, AnswerKinds)
      BY DEF JobInv, TypeOK, ChannelsTypeOK, OneJob
    <2>3. /\ JobAnswered' <=> JobAnswered
          /\ ReplanAnswered' <=> ReplanAnswered
          /\ AtMostOne(updates', AnswerKinds)
      BY <1>3, <2>1, <2>2, SendQuietly DEF Tell, AnswerKinds
    <2> QED
      BY <1>1, <1>3, <2>3, JobInvQuiet DEF Tell
  <1> QED
    BY <1>2, <1>3 DEF DiscoveryNext

THEOREM JobInvariant == Spec => []JobInv
  <1>1. Init => OneJob /\ ConfirmGate
    BY DEF Init, ChannelsInit, AppInit, WorkerInit, OneJob, ConfirmGate, AtMostOne,
           JobQueued, JobHeld, JobAnswered, ReplanQueued, ReplanHeld, ReplanAnswered,
           HasKind, On, Menu
  <1>2. TypeOK /\ TypeOK' /\ OneJob /\ ConfirmGate /\ [Next]_vars => OneJob' /\ ConfirmGate'
    <2> SUFFICES ASSUME JobInv, [Next]_vars PROVE OneJob' /\ ConfirmGate'
      BY DEF JobInv
    <2>1. ASSUME UNCHANGED <<jobs, updates, workerVars, job_pending, replan_pending, screen>>
          PROVE  OneJob' /\ ConfirmGate'
      BY <2>1, JobInvQuiet
         DEF JobInv, OneJob, JobHeld, ReplanHeld, JobAnswered, ReplanAnswered, workerVars
    <2>2. CASE Interface
      <3>1. CASE OnKey
        BY <2>2, <3>1, JobInvKey DEF Interface
      <3>2. CASE OnUpdate
        BY <2>2, <3>2, JobInvUpdate DEF Interface
      <3>3. CASE CheckQuit \/ GiveUpWaiting
        BY <2>1, <2>2, <3>3 DEF Interface, CheckQuit, GiveUpWaiting, gateVars, channels
      <3> QED
        BY <2>2, <3>1, <3>2, <3>3 DEF Interface, AppNext
    <2>3. CASE WorkerStep
      BY <2>3, JobInvWorker DEF WorkerStep
    <2>4. CASE DiscoveryStep
      BY <2>4, JobInvDiscovery DEF DiscoveryStep
    <2>5. CASE Replug
      BY <2>1, <2>5 DEF Replug, appVars, gateVars
    <2>6. CASE UNCHANGED vars
      BY <2>1, <2>6 DEF vars, channels, appVars, gateVars
    <2> QED
      BY <2>2, <2>3, <2>4, <2>5, <2>6 DEF Next, Exited
  <1> QED
    BY <1>1, <1>2, TypeCorrect, PTL DEF Spec, JobInv

(***************************************************************************)
(* A job handed to the worker is in exactly one place, and job_pending is  *)
(* exactly that there is one.                                              *)
(***************************************************************************)
THEOREM OneJobAlways == Spec => []OneJob
  BY JobInvariant, PTL DEF JobInv

(***************************************************************************)
(* replan_pending is exactly that a replan is in flight, and on the        *)
(* confirm screen nothing else is.                                         *)
(***************************************************************************)
THEOREM ConfirmGateAlways == Spec => []ConfirmGate
  BY JobInvariant, PTL DEF JobInv
================================================================================
