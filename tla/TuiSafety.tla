-------------------------------- MODULE TuiSafety --------------------------------
(***************************************************************************)
(* More proofs about Tui, from JobInvariant of TuiProofs: the keyboard is  *)
(* never drained under a transfer, the gauge, the quit prompt, and what    *)
(* opens, changes and takes away a confirm screen.                         *)
(***************************************************************************)
EXTENDS TuiProofs

--------------------------------------------------------------------------------
(***************************************************************************)
(* The header and the probe.  A header that says Ready, now or once it has *)
(* read what is on its way, is right that the flag is up and no probe is   *)
(* past it, unless it will read that the keyboard was lost before it reads *)
(* the answer of the job that lost it.                                     *)
(***************************************************************************)
Settled == ready /\ discovery \in {"asleep", "awake", "not busy"}

IsReady(u) == u.kind = "Device" /\ u.device = "Ready"

SaysReady(i) == IF i = 0 THEN device = "Ready" ELSE IsReady(updates[i])

Retracted(i) ==
    \E j \in DOMAIN updates :
        /\ j > i /\ updates[j] = [kind |-> "Device", device |-> "NotFound"]
        /\ JobHeld \/ \E k \in DOMAIN updates : k > j /\ updates[k].kind \in AnswerKinds

\* A job for the keyboard that has not yet given it up.
ForDevice(j) == j.kind \in {"Command", "Upload"}

DeviceJob ==
    \/ \E i \in DOMAIN jobs : ForDevice(jobs[i])
    \/ /\ worker \in {"taken", "reencode", "open", "started", "check", "report", "lost"}
       /\ ForDevice(job)

HeaderIsRight ==
    \A i \in 0..Len(updates) : SaysReady(i) => Settled \/ worker = "tell" \/ Retracted(i)

HeaderInv ==
    /\ HeaderIsRight
    /\ DeviceJob => Settled
    /\ discovery = "tell" => (ready <=> found = "Ready")

LEMMA AppendAt ==
    ASSUME NEW S, NEW q \in Seq(S), NEW u \in S
    PROVE  /\ Len(q) \in Nat /\ DOMAIN q = 1..Len(q)
           /\ Len(Append(q, u)) = Len(q) + 1 /\ DOMAIN Append(q, u) = 1..(Len(q) + 1)
           /\ \A i \in 1..Len(q) : Append(q, u)[i] = q[i]
           /\ Append(q, u)[Len(q) + 1] = u
  OBVIOUS

LEMMA TailAt ==
    ASSUME NEW S, NEW q \in Seq(S), q # <<>>
    PROVE  /\ Len(q) \in Nat /\ Len(q) > 0 /\ DOMAIN q = 1..Len(q)
           /\ Head(q) = q[1] /\ Head(q) \in S
           /\ Len(Tail(q)) = Len(q) - 1 /\ DOMAIN Tail(q) = 1..(Len(q) - 1)
           /\ \A i \in 1..(Len(q) - 1) : Tail(q)[i] = q[i + 1]
  OBVIOUS

LEMMA Facts ==
    ASSUME JobInv
    PROVE  /\ updates \in Seq(UpdateType) /\ Len(updates) \in Nat
           /\ DOMAIN updates = 1..Len(updates)
           /\ jobs \in Seq(JobType) /\ Len(jobs) \in Nat /\ DOMAIN jobs = 1..Len(jobs)
           /\ job \in JobType \cup {NoJob} /\ WorkerShape
           /\ job_pending \in BOOLEAN /\ sent \in Nat
  <1>1. /\ updates \in Seq(UpdateType) /\ jobs \in Seq(JobType)
        /\ job \in JobType \cup {NoJob} /\ WorkerShape
        /\ job_pending \in BOOLEAN /\ sent \in Nat
    BY DEF JobInv, TypeOK, ChannelsTypeOK, WorkerTypeOK, AppTypeOK
  <1> QED
    BY <1>1

\* With no job in flight, a header that says Ready is simply right.
LEMMA ReadyIsSettled ==
    ASSUME JobInv, HeaderInv, ~job_pending, device = "Ready"
    PROVE  Settled
  <1>1. ~JobHeld /\ ~JobAnswered
    BY DEF JobInv, OneJob
  <1>2. SaysReady(0) /\ 0 \in 0..Len(updates)
    BY Facts DEF SaysReady
  <1>3. worker # "tell" /\ ~Retracted(0)
    BY <1>1 DEF JobHeld, Retracted, JobAnswered, HasKind
  <1> QED
    BY <1>2, <1>3 DEF HeaderInv, HeaderIsRight

LEMMA HeaderKey ==
    ASSUME JobInv, HeaderInv, OnKey, UNCHANGED <<workerVars, discoveryVars>>
    PROVE  HeaderInv'
  <1>1. UNCHANGED <<updates, device, ready, worker, outcome, job, discovery, found>>
    BY DEF OnKey, workerVars, discoveryVars
  <1>2. HeaderIsRight' /\ Settled' = Settled /\ (discovery = "tell" => (ready <=> found = "Ready"))'
    BY <1>1 DEF HeaderInv, HeaderIsRight, SaysReady, Settled, Retracted, JobHeld
  <1>3. CASE UNCHANGED jobs
    BY <1>1, <1>2, <1>3 DEF HeaderInv, DeviceJob
  <1>4. CASE MenuCommand \/ ConfirmUpload
    BY <1>2, <1>4, ReadyIsSettled DEF MenuCommand, ConfirmUpload, HeaderInv
  <1>5. ASSUME NEW d \in JobType, ~ForDevice(d), Submit(d)
        PROVE  HeaderInv'
    <2>1. DeviceJob' => DeviceJob
      BY <1>1, <1>5, Facts, AppendAt DEF DeviceJob, Submit
    <2> QED
      BY <1>2, <2>1 DEF HeaderInv
  <1>6. CASE BrowsePick
    <2>1. PICK f \in Files : Submit([kind |-> "Preview", wanted |-> FirstPending(f),
                                     generation |-> preview_generation'])
      BY <1>6 DEF BrowsePick
    <2>2. preview_generation' \in Nat
      BY <1>6, SupersedeType DEF BrowsePick, JobInv, TypeOK, AppTypeOK
    <2>3. FirstPending(f) \in PendingType
      BY ChannelsAssumption DEF FirstPending, PendingType, Placements, ChannelsAssumption
    <2> QED
      BY <1>5, <2>1, <2>2, <2>3, DecodeJobType DEF ForDevice
  <1>7. CASE ConfirmPlacement
    <2>1. Toggled(screen.pending) \in PendingType /\ preview_generation' \in Nat
      BY <1>7, ConfirmHolds, ToggledType, SupersedeType
         DEF ConfirmPlacement, JobInv, TypeOK, AppTypeOK
    <2> QED
      BY <1>5, <1>7, <2>1, DecodeJobType DEF ConfirmPlacement, ForDevice
  <1>8. UNCHANGED jobs \/ MenuCommand \/ ConfirmUpload \/ BrowsePick \/ ConfirmPlacement
    BY DEF OnKey, PromptYesRunning, PromptYesFinished, PromptNo, ScreenKey, MenuQuit,
           OpenBrowser, BrowseLeave, ConfirmLeave, ConfirmEdit, RunningCancel, RunningQuit, NoKey
  <1> QED
    BY <1>3, <1>4, <1>6, <1>7, <1>8

LEMMA HeaderUpdate ==
    ASSUME JobInv, HeaderInv, OnUpdate, UNCHANGED <<workerVars, discoveryVars>>
    PROVE  HeaderInv'
  <1>1. UNCHANGED <<jobs, ready, worker, outcome, job, discovery, found>>
    BY DEF OnUpdate, workerVars, discoveryVars
  <1>2. /\ Settled' = Settled /\ (DeviceJob' <=> DeviceJob) /\ (JobHeld' <=> JobHeld)
        /\ (discovery = "tell" => (ready <=> found = "Ready"))'
    BY <1>1 DEF HeaderInv, Settled, DeviceJob, JobHeld
  <1>3. /\ updates # <<>> /\ updates' = Tail(updates)
        /\ Len(updates) \in Nat /\ Len(updates) > 0 /\ DOMAIN updates = 1..Len(updates)
        /\ Len(updates') = Len(updates) - 1 /\ DOMAIN updates' = 1..(Len(updates) - 1)
        /\ \A i \in 1..(Len(updates) - 1) : updates'[i] = updates[i + 1]
        /\ Head(updates) = updates[1]
    BY Facts, TailAt DEF OnUpdate
  <1>4. IF Head(updates).kind = "Device" THEN device' = Head(updates).device
        ELSE UNCHANGED device
    BY DEF OnUpdate, OnDevice, OnPreview, OnReplan, OnStarted, OnProgress, OnFinished
  <1>5. ASSUME NEW i \in 0..Len(updates'), NEW m \in 0..Len(updates), Retracted(m),
               m = i + 1 \/ (m = 0 /\ i = 0 /\ updates[1].kind # "Device")
        PROVE  Retracted(i)'
    <2>1. PICK j \in DOMAIN updates :
              /\ j > m /\ updates[j] = [kind |-> "Device", device |-> "NotFound"]
              /\ JobHeld \/ \E k \in DOMAIN updates : k > j /\ updates[k].kind \in AnswerKinds
      BY <1>5 DEF Retracted
    <2>2. j # 1 /\ j - 1 > i /\ j - 1 \in DOMAIN updates' /\ updates'[j - 1] = updates[j]
      BY <1>3, <1>5, <2>1
    <2>3. CASE JobHeld
      BY <1>2, <2>1, <2>2, <2>3 DEF Retracted
    <2>4. ASSUME NEW k \in DOMAIN updates, k > j, updates[k].kind \in AnswerKinds
          PROVE  Retracted(i)'
      <3>1. k - 1 > j - 1 /\ k - 1 \in DOMAIN updates' /\ updates'[k - 1] = updates[k]
        BY <1>3, <2>2, <2>4
      <3> QED
        BY <2>1, <2>2, <2>4, <3>1 DEF Retracted
    <2> QED
      BY <2>1, <2>3, <2>4
  <1>6. HeaderIsRight'
    <2> SUFFICES ASSUME NEW i \in 0..Len(updates'), SaysReady(i)'
                 PROVE  (Settled \/ worker = "tell")' \/ Retracted(i)'
      BY DEF HeaderIsRight
    <2>1. \E m \in 0..Len(updates) :
              /\ SaysReady(m)
              /\ m = i + 1 \/ (m = 0 /\ i = 0 /\ updates[1].kind # "Device")
      <3>1. CASE i = 0 /\ updates[1].kind # "Device"
        <4>1. SaysReady(0) /\ 0 \in 0..Len(updates)
          BY <1>3, <1>4, <3>1 DEF SaysReady
        <4> QED
          BY <3>1, <4>1
      <3>2. CASE i = 0 /\ updates[1].kind = "Device"
        <4>1. SaysReady(1) /\ 1 \in 0..Len(updates)
          BY <1>3, <1>4, <3>2 DEF SaysReady, IsReady
        <4> QED
          BY <3>2, <4>1
      <3>3. CASE i # 0
        <4>1. SaysReady(i + 1) /\ i + 1 \in 0..Len(updates)
          BY <1>3, <3>3 DEF SaysReady, IsReady
        <4> QED
          BY <4>1
      <3> QED
        BY <3>1, <3>2, <3>3
    <2> QED
      BY <1>1, <1>2, <1>5, <2>1 DEF HeaderInv, HeaderIsRight
  <1> QED
    BY <1>2, <1>6 DEF HeaderInv

\* What the worker and discovery say that is not Ready takes nothing back.
LEMMA HeaderSends ==
    ASSUME JobInv, HeaderIsRight, UNCHANGED device, Settled => Settled',
           worker = "tell" => worker' = "tell",
           NEW u \in UpdateType, Send(u), IsReady(u) => Settled',
           JobHeld => JobHeld' \/ u.kind \in AnswerKinds
    PROVE  HeaderIsRight'
  <1>1. /\ Len(updates) \in Nat /\ DOMAIN updates = 1..Len(updates)
        /\ Len(updates') = Len(updates) + 1 /\ DOMAIN updates' = 1..(Len(updates) + 1)
        /\ \A i \in 1..Len(updates) : updates'[i] = updates[i]
        /\ updates'[Len(updates) + 1] = u
    BY Facts, AppendAt DEF Send
  <1>2. ASSUME NEW i \in 0..Len(updates), Retracted(i)
        PROVE  Retracted(i)'
    <2>1. PICK j \in DOMAIN updates :
              /\ j > i /\ updates[j] = [kind |-> "Device", device |-> "NotFound"]
              /\ JobHeld \/ \E k \in DOMAIN updates : k > j /\ updates[k].kind \in AnswerKinds
      BY <1>2 DEF Retracted
    <2>2. j \in DOMAIN updates' /\ updates'[j] = updates[j]
      BY <1>1
    <2>3. CASE JobHeld /\ JobHeld'
      BY <2>1, <2>2, <2>3 DEF Retracted
    <2>4. CASE JobHeld /\ u.kind \in AnswerKinds
      <3>1. Len(updates) + 1 > j /\ Len(updates) + 1 \in DOMAIN updates'
        BY <1>1
      <3> QED
        BY <1>1, <2>1, <2>2, <2>4, <3>1 DEF Retracted
    <2>5. ASSUME NEW k \in DOMAIN updates, k > j, updates[k].kind \in AnswerKinds
          PROVE  Retracted(i)'
      <3>1. k \in DOMAIN updates' /\ updates'[k] = updates[k]
        BY <1>1
      <3> QED
        BY <2>1, <2>2, <2>5, <3>1 DEF Retracted
    <2> QED
      BY <2>1, <2>3, <2>4, <2>5
  <1> SUFFICES ASSUME NEW i \in 0..Len(updates'), SaysReady(i)'
               PROVE  (Settled \/ worker = "tell")' \/ Retracted(i)'
    BY DEF HeaderIsRight
  <1>3. CASE i = Len(updates) + 1
    BY <1>1, <1>3 DEF SaysReady
  <1>4. CASE i # Len(updates) + 1
    <2>1. i \in 0..Len(updates) /\ SaysReady(i)
      BY <1>1, <1>4 DEF SaysReady, IsReady
    <2> QED
      BY <1>2, <2>1 DEF HeaderIsRight
  <1> QED
    BY <1>3, <1>4

LEMMA HeaderSilent ==
    ASSUME HeaderIsRight, UNCHANGED <<device, updates>>, Settled => Settled',
           worker = "tell" => worker' = "tell", JobHeld => JobHeld'
    PROVE  HeaderIsRight'
  BY DEF HeaderIsRight, SaysReady, Retracted

LEMMA HeaderWorker ==
    ASSUME JobInv, HeaderInv, WorkerNext, UNCHANGED <<appVars, discoveryVars>>
    PROVE  HeaderInv'
  <1>1. UNCHANGED <<device, discovery, found>> /\ WorkerShape /\ HeaderIsRight
    BY Facts DEF appVars, discoveryVars, HeaderInv
  <1> USE DEF Step
  <1>2. ASSUME UNCHANGED ready, HeaderIsRight', DeviceJob' => DeviceJob
        PROVE  HeaderInv'
    BY <1>1, <1>2 DEF HeaderInv, Settled
  <1>3. CASE LostFlag
    <2>1. worker = "lost" /\ worker' = "tell" /\ UNCHANGED <<jobs, updates>>
      BY <1>3 DEF LostFlag
    <2>2. DeviceJob /\ ~JobQueued
      BY <1>1, <2>1 DEF DeviceJob, ForDevice, WorkerShape, JobInv, OneJob, JobHeld
    <2>3. discovery' # "tell"
      BY <1>1, <2>2 DEF HeaderInv, Settled
    <2>5. ~DeviceJob'
      <3>1. DOMAIN jobs' = {}
        BY <2>1, <2>2 DEF JobQueued
      <3> QED
        BY <2>1, <3>1 DEF DeviceJob
    <2>4. HeaderIsRight'
      BY <2>1 DEF HeaderIsRight
    <2> QED
      BY <2>3, <2>4, <2>5 DEF HeaderInv
  <1>4. CASE LostUpdate
    <2>1. /\ worker = "tell" /\ worker' = "release" /\ outcome # "none"
          /\ UNCHANGED <<ready, jobs, outcome>>
          /\ Send([kind |-> "Device", device |-> "NotFound"])
      BY <1>1, <1>4 DEF LostUpdate, WorkerShape
    <2>2. JobHeld' /\ (DeviceJob' => DeviceJob)
      BY <2>1 DEF JobHeld, DeviceJob
    <2>3. [kind |-> "Device", device |-> "NotFound"] \in UpdateType
      BY UpdateTypes DEF DeviceStates
    <2>4. /\ Len(updates') = Len(updates) + 1 /\ DOMAIN updates' = 1..(Len(updates) + 1)
          /\ updates'[Len(updates) + 1] = [kind |-> "Device", device |-> "NotFound"]
          /\ Len(updates) \in Nat
      BY <2>1, <2>3, Facts, AppendAt DEF Send
    <2>5. ASSUME NEW i \in 0..Len(updates'), SaysReady(i)' PROVE Retracted(i)'
      <3>1. i # Len(updates) + 1
        BY <2>4, <2>5 DEF SaysReady, IsReady
      <3>2. i < Len(updates) + 1 /\ Len(updates) + 1 \in DOMAIN updates'
        BY <2>4, <2>5, <3>1
      <3> QED
        BY <2>2, <2>4, <3>2 DEF Retracted
    <2>6. HeaderIsRight'
      BY <2>5 DEF HeaderIsRight
    <2> QED
      BY <1>2, <2>1, <2>2, <2>6
  <1>5. CASE Take
    <2>1. DeviceJob' => DeviceJob
      <3>1. /\ jobs # <<>> /\ worker' = "taken" /\ job' = jobs[1] /\ 1 \in DOMAIN jobs
            /\ DOMAIN jobs' = 1..(Len(jobs) - 1) /\ Len(jobs) \in Nat
            /\ DOMAIN jobs = 1..Len(jobs)
            /\ \A i \in 1..(Len(jobs) - 1) : jobs'[i] = jobs[i + 1]
        BY <1>5, Facts, TailAt DEF Take
      <3>2. ASSUME NEW i \in DOMAIN jobs', ForDevice(jobs'[i]) PROVE DeviceJob
        <4>1. i + 1 \in DOMAIN jobs /\ jobs'[i] = jobs[i + 1]
          BY <3>1
        <4> QED
          BY <3>2, <4>1 DEF DeviceJob
      <3> QED
        BY <3>1, <3>2 DEF DeviceJob
    <2>2. UNCHANGED <<ready, updates>> /\ JobHeld' /\ worker # "tell"
      BY <1>5 DEF Take, JobHeld
    <2> QED
      BY <1>1, <1>2, <2>1, <2>2, HeaderSilent DEF Settled
  <1>6. CASE SetBusy \/ Reencode \/ Open \/ OpenFails \/ Continue \/ Cancelled \/ ReportFails
             \/ Panic
    <2>1. UNCHANGED <<jobs, updates, ready, job>> /\ JobHeld' /\ worker # "tell"
      BY <1>6 DEF SetBusy, FirstStep, Reencode, Open, OpenFails, Continue, Cancelled,
                  ReportFails, Panic, channels, JobHeld
    <2>2. worker \in {"taken", "reencode", "open", "started", "check", "report", "decode"}
      BY <1>6 DEF SetBusy, Reencode, Open, OpenFails, Continue, Cancelled, ReportFails, Panic
    <2>3. DeviceJob' => DeviceJob
      BY <1>1, <2>1, <2>2 DEF DeviceJob, WorkerShape, ForDevice
    <2> QED
      BY <1>1, <1>2, <2>1, <2>3, HeaderSilent DEF Settled
  <1>7. CASE Decode
    <2>1. job.kind \in {"Preview", "Replan"} /\ job \in JobType
      BY <1>1, <1>7, JobKinds, Facts DEF Decode, WorkerShape
    <2>2. PICK ok \in BOOLEAN :
             Send([kind |-> job.kind, ok |-> ok, wanted |-> job.wanted,
                   generation |-> job.generation])
      BY <1>7 DEF Decode
    <2>3. [kind |-> job.kind, ok |-> ok, wanted |-> job.wanted,
           generation |-> job.generation] \in UpdateType
      BY <2>1, JobKinds, UpdateTypes
    <2>4. UNCHANGED <<jobs, ready>> /\ worker' = "release" /\ worker # "tell"
      BY <1>7 DEF Decode
    <2> QED
      BY <1>1, <1>2, <2>1, <2>2, <2>3, <2>4, HeaderSends
         DEF AnswerKinds, IsReady, Settled, DeviceJob
  <1>8. CASE Start
    <2>1. /\ UNCHANGED <<jobs, ready, job>> /\ worker = "started" /\ worker' = "check"
          /\ Send([kind |-> "Started"])
      BY <1>8 DEF Start
    <2>2. [kind |-> "Started"] \in UpdateType /\ JobHeld' /\ (DeviceJob' => DeviceJob)
      BY <2>1, UpdateTypes DEF JobHeld, DeviceJob
    <2> QED
      BY <1>1, <1>2, <2>1, <2>2, HeaderSends DEF IsReady, Settled
  <1>9. CASE Report
    <2>1. UNCHANGED <<jobs, ready, job>> /\ worker = "report"
      BY <1>9 DEF Report
    <2>2. worker' \in {"release", "check", "report"} /\ (worker' = "release" => outcome' = "ok")
      BY <1>9 DEF Report
    <2>3. JobHeld' /\ (DeviceJob' => DeviceJob)
      BY <2>1, <2>2 DEF JobHeld, DeviceJob
    <2>4. CASE UNCHANGED updates
      BY <1>1, <1>2, <2>1, <2>3, <2>4, HeaderSilent DEF Settled
    <2>5. CASE Send([kind |-> "Progress", done |-> sent + 1])
      <3>1. [kind |-> "Progress", done |-> sent + 1] \in UpdateType
        BY Facts, UpdateTypes
      <3> QED
        BY <1>1, <1>2, <2>1, <2>3, <2>5, <3>1, HeaderSends DEF IsReady, Settled
    <2> QED
      BY <1>9, <2>4, <2>5 DEF Report
  <1>10. CASE Release
    <2>1. UNCHANGED <<jobs, ready, updates>> /\ worker = "release" /\ worker' \in {"idle", "answer"}
      BY <1>10 DEF Release, Rest
    <2>2. JobHeld => JobHeld'
      BY <1>10 DEF Release, JobHeld
    <2>3. DeviceJob' => DeviceJob
      BY <2>1 DEF DeviceJob
    <2> QED
      BY <1>1, <1>2, <2>1, <2>2, <2>3, HeaderSilent DEF Settled
  <1>11. CASE Answer
    <2>1. job \in JobType /\ outcome \in Outcomes
      BY <1>1, <1>11 DEF Answer, JobInv, TypeOK, WorkerTypeOK, WorkerShape
    <2>2. AnswerUpdate \in UpdateType /\ AnswerUpdate.kind \in AnswerKinds
      BY <2>1, JobKinds, UpdateTypes DEF AnswerUpdate, AnswerKinds
    <2>3. UNCHANGED <<jobs, ready>> /\ worker = "answer" /\ worker' = "idle" /\ Send(AnswerUpdate)
      BY <1>11 DEF Answer, Rest
    <2>4. DeviceJob' => DeviceJob
      BY <2>3 DEF DeviceJob
    <2> QED
      BY <1>1, <1>2, <2>2, <2>3, <2>4, HeaderSends DEF IsReady, AnswerKinds, Settled
  <1> QED
    BY <1>3, <1>4, <1>5, <1>6, <1>7, <1>8, <1>9, <1>10, <1>11 DEF WorkerNext

LEMMA HeaderDiscovery ==
    ASSUME JobInv, HeaderInv, DiscoveryNext, UNCHANGED <<appVars, workerVars>>
    PROVE  HeaderInv'
  <1>1. /\ UNCHANGED <<device, jobs, worker, job, outcome>> /\ HeaderIsRight
        /\ (JobHeld' <=> JobHeld)
    BY DEF appVars, workerVars, HeaderInv, JobHeld, DiscoveryNext, Wake, LoadBusy, LoadReady,
           FindDevice, OpenAndDrain, StoreReady, Tell, channels
  <1>2. DeviceJob' <=> DeviceJob
    BY <1>1 DEF DeviceJob
  <1> USE DEF Move
  <1>3. CASE Wake \/ LoadBusy \/ LoadReady
    <2>1. /\ UNCHANGED <<updates, ready>> /\ discovery' \in {"asleep", "awake", "not busy", "find"}
          /\ ready => discovery' # "find"
      BY <1>3 DEF Wake, LoadBusy, LoadReady, channels
    <2>2. Settled => Settled'
      BY <2>1 DEF Settled
    <2> QED
      BY <1>1, <1>2, <2>1, <2>2, HeaderSilent DEF HeaderInv
  <1>4. CASE FindDevice \/ OpenAndDrain
    <2>1. UNCHANGED <<updates, ready>> /\ ~Settled /\ discovery' # "tell"
      BY <1>4 DEF FindDevice, OpenAndDrain, channels, Settled
    <2> QED
      BY <1>1, <1>2, <2>1, HeaderSilent DEF HeaderInv
  <1>5. CASE StoreReady
    <2>1. /\ UNCHANGED <<updates, found>> /\ ~Settled
          /\ (ready' <=> found = "Ready")
      BY <1>5 DEF StoreReady, Settled
    <2> QED
      BY <1>1, <1>2, <2>1, HeaderSilent DEF HeaderInv
  <1>6. CASE Tell
    <2>1. /\ discovery = "tell" /\ discovery' = "asleep" /\ UNCHANGED ready /\ ~Settled
          /\ Send([kind |-> "Device", device |-> found])
      BY <1>6 DEF Tell, Settled
    <2>2. [kind |-> "Device", device |-> found] \in UpdateType
      BY UpdateTypes DEF JobInv, TypeOK, DiscoveryTypeOK
    <2>3. IsReady([kind |-> "Device", device |-> found]) => Settled'
      BY <2>1 DEF HeaderInv, IsReady, Settled
    <2> QED
      BY <1>1, <1>2, <2>1, <2>2, <2>3, HeaderSends DEF HeaderInv
  <1> QED
    BY <1>3, <1>4, <1>5, <1>6 DEF DiscoveryNext

LEMMA HeaderStep == JobInv /\ HeaderInv /\ [Next]_vars => HeaderInv'
  <1> SUFFICES ASSUME JobInv, HeaderInv, [Next]_vars PROVE HeaderInv'
    OBVIOUS
  <1>1. ASSUME UNCHANGED <<jobs, updates, ready, device, workerVars, discoveryVars>>
        PROVE  HeaderInv'
    BY <1>1 DEF HeaderInv, HeaderIsRight, SaysReady, Retracted, Settled, DeviceJob, JobHeld,
                workerVars, discoveryVars
  <1>2. CASE Interface
    <2>1. CASE OnKey
      BY <1>2, <2>1, HeaderKey DEF Interface
    <2>2. CASE OnUpdate
      BY <1>2, <2>2, HeaderUpdate DEF Interface
    <2>3. CASE CheckQuit \/ GiveUpWaiting
      BY <1>1, <1>2, <2>3 DEF Interface, CheckQuit, GiveUpWaiting, channels
    <2> QED
      BY <1>2, <2>1, <2>2, <2>3 DEF Interface, AppNext
  <1>3. CASE WorkerStep
    BY <1>3, HeaderWorker DEF WorkerStep
  <1>4. CASE DiscoveryStep
    BY <1>4, HeaderDiscovery DEF DiscoveryStep
  <1>5. CASE Replug
    BY <1>1, <1>5 DEF Replug, appVars
  <1>6. CASE UNCHANGED vars
    BY <1>1, <1>6 DEF vars, channels, appVars
  <1> QED
    BY <1>2, <1>3, <1>4, <1>5, <1>6 DEF Next, Exited

LEMMA HeaderInit == Init => HeaderInv
  <1> SUFFICES ASSUME Init PROVE HeaderInv
    OBVIOUS
  <1>1. /\ updates = <<>> /\ jobs = <<>> /\ device = "NotFound" /\ worker = "idle"
        /\ discovery = "asleep"
    BY DEF Init, ChannelsInit, AppInit, WorkerInit, DiscoveryInit
  <1>2. Len(updates) = 0 /\ DOMAIN jobs = {}
    BY <1>1
  <1> QED
    BY <1>1, <1>2 DEF HeaderInv, HeaderIsRight, SaysReady, DeviceJob

(***************************************************************************)
(* device.rs drains what is unread, and discovery drains too: for any bus  *)
(* and any number of reports, never while the worker exchanges reports.    *)
(***************************************************************************)
THEOREM NoProbeDuringTransferAlways == Spec => []NoProbeDuringTransfer
  <1>1. JobInv /\ HeaderInv => NoProbeDuringTransfer
    <2> SUFFICES ASSUME JobInv, HeaderInv, WorkerOnDevice PROVE ~ProbeOnDevice
      BY DEF NoProbeDuringTransfer
    <2>1. DeviceJob
      BY Facts DEF WorkerOnDevice, DeviceJob, ForDevice, WorkerShape
    <2> QED
      BY <2>1 DEF HeaderInv, Settled, ProbeOnDevice
  <1> QED
    BY <1>1, HeaderInit, HeaderStep, JobInvariant, PTL DEF Spec

--------------------------------------------------------------------------------
(***************************************************************************)
(* The gauge: what an upload has told, read or not, it has done, and the   *)
(* end of it is still to come.                                             *)
(***************************************************************************)
Uploading == JobHeld /\ Uploads

Told(i) ==
    IF i = 0 THEN On("Running") ELSE updates[i].kind \in {"Started", "Progress"}

Done(i) ==
    IF i = 0 THEN screen.done
    ELSE IF updates[i].kind = "Progress" THEN updates[i].done ELSE 0

EndToCome(i) ==
    Uploading \/ \E k \in DOMAIN updates : k > i /\ updates[k].kind = "Finished"

ToldIsDone ==
    \A i \in 0..Len(updates) : Told(i) =>
        EndToCome(i) /\ Done(i) <= UploadReports /\ (JobHeld => Done(i) <= sent)

SentInTotal ==
    /\ worker = "idle" => sent = 0
    /\ Uploading => sent <= UploadReports
    /\ Uploading /\ worker \in {"taken", "reencode", "open", "started", "check", "report"}
          => sent < UploadReports

GaugeInv == ToldIsDone /\ SentInTotal

LEMMA Total100 ==
    ASSUME NEW d \in Nat, NEW n \in Nat \ {0}, d <= n, (100 * d) \div n = 100
    PROVE  d = n
  OBVIOUS

LEMMA GaugeProperty == JobInv /\ GaugeInv => GaugeIsHonest
  <1> SUFFICES ASSUME JobInv, GaugeInv, On("Running") PROVE GaugeIsHonest
    BY DEF GaugeIsHonest
  <1>1. Told(0) /\ Done(0) = screen.done /\ 0 \in 0..Len(updates)
    BY Facts DEF Told, Done
  <1>2. /\ EndToCome(0) /\ screen.done <= UploadReports
        /\ JobHeld => screen.done <= sent
    BY <1>1 DEF GaugeInv, ToldIsDone
  <1>3. (JobHeld /\ Uploads) \/ HasKind(updates, {"Finished"})
    BY <1>2 DEF EndToCome, Uploading, HasKind
  <1>4. ASSUME JobHeld, NEW i \in DOMAIN updates, updates[i].kind = "Progress"
        PROVE  updates[i].done <= sent
    <2>1. i \in 0..Len(updates) /\ Told(i) /\ Done(i) = updates[i].done
      BY <1>4, Facts DEF Told, Done
    <2> QED
      BY <1>4, <2>1 DEF GaugeInv, ToldIsDone
  <1>5. ASSUME JobHeld, Percent(screen) = 100
        PROVE  sent = UploadReports
    <2>1. Uploading
      BY <1>2, <1>5 DEF EndToCome, JobInv, OneJob, JobAnswered, HasKind, AnswerKinds
    <2>2. screen.done \in Nat /\ UploadReports \in Nat \ {0}
      <3>1. screen \in ScreenType /\ screen.kind = "Running"
        BY DEF JobInv, TypeOK, AppTypeOK, On
      <3>2. screen.done \in Nat
        BY <3>1 DEF ScreenType, Menu, Browse
      <3> QED
        BY <3>2, ChannelsAssumption DEF ChannelsAssumption
    <2>3. screen.done = UploadReports
      BY <1>2, <1>5, <2>2, Total100 DEF Percent
    <2> QED
      BY <1>2, <1>5, <2>1, <2>2, <2>3, Facts DEF GaugeInv, SentInTotal
  <1> QED
    BY <1>2, <1>3, <1>4, <1>5 DEF GaugeIsHonest

LEMMA GaugeSilent ==
    ASSUME GaugeInv, UNCHANGED updates, screen' = screen \/ ~On("Running")',
           Uploading => Uploading', JobHeld' => JobHeld /\ UNCHANGED sent
    PROVE  ToldIsDone'
  BY DEF GaugeInv, ToldIsDone, Told, Done, EndToCome, On

LEMMA GaugeSends ==
    ASSUME JobInv, GaugeInv, UNCHANGED screen, NEW u \in UpdateType, Send(u),
           Uploading => Uploading' \/ u.kind = "Finished",
           JobHeld' => JobHeld /\ sent' \in Nat /\ sent <= sent',
           u.kind \in {"Started", "Progress"} => Uploading',
           u.kind = "Progress" => u.done <= UploadReports /\ u.done <= sent',
           sent' \in Nat
    PROVE  ToldIsDone'
  <1>1. /\ Len(updates) \in Nat /\ DOMAIN updates = 1..Len(updates)
        /\ Len(updates') = Len(updates) + 1 /\ DOMAIN updates' = 1..(Len(updates) + 1)
        /\ \A i \in 1..Len(updates) : updates'[i] = updates[i]
        /\ updates'[Len(updates) + 1] = u
    BY Facts, AppendAt DEF Send
  <1> SUFFICES ASSUME NEW i \in 0..Len(updates'), Told(i)'
               PROVE  EndToCome(i)' /\ Done(i)' <= UploadReports /\ (JobHeld' => Done(i)' <= sent')
    BY DEF ToldIsDone
  <1>2. UploadReports \in Nat
    BY ChannelsAssumption DEF ChannelsAssumption
  <1>3. CASE i = Len(updates) + 1
    <2>1. Uploading' /\ Done(i)' = (IF u.kind = "Progress" THEN u.done ELSE 0)
      BY <1>1, <1>3 DEF Told, Done
    <2>2. Done(i)' <= UploadReports /\ Done(i)' <= sent'
      BY <1>2, <2>1
    <2> QED
      BY <2>1, <2>2 DEF EndToCome
  <1>4. CASE i # Len(updates) + 1
    <2>1. i \in 0..Len(updates) /\ Told(i) /\ Done(i)' = Done(i)
      BY <1>1, <1>4 DEF Told, Done, On
    <2>2. EndToCome(i) /\ Done(i) <= UploadReports /\ (JobHeld => Done(i) <= sent)
      BY <2>1 DEF GaugeInv, ToldIsDone
    <2>3. EndToCome(i)'
      <3>1. CASE Uploading'
        BY <3>1 DEF EndToCome
      <3>2. CASE u.kind = "Finished"
        <4>1. Len(updates) + 1 > i /\ Len(updates) + 1 \in DOMAIN updates'
          BY <1>1, <2>1
        <4> QED
          BY <1>1, <3>2, <4>1 DEF EndToCome
      <3>3. ASSUME NEW k \in DOMAIN updates, k > i, updates[k].kind = "Finished"
            PROVE  EndToCome(i)'
        <4>1. k \in DOMAIN updates' /\ updates'[k] = updates[k]
          BY <1>1
        <4> QED
          BY <3>3, <4>1 DEF EndToCome
      <3> QED
        BY <2>2, <3>1, <3>2, <3>3 DEF EndToCome
    <2>4. Done(i) \in Nat
      <3>1. CASE i = 0
        <4>1. screen \in ScreenType /\ screen.kind = "Running"
          BY <2>1, <3>1 DEF Told, JobInv, TypeOK, AppTypeOK, On
        <4>2. screen.done \in Nat
          BY <4>1 DEF ScreenType, Menu, Browse
        <4> QED
          BY <3>1, <4>2 DEF Done
      <3>2. CASE i # 0
        <4>1. updates[i] \in UpdateType
          BY <1>1, <2>1, <3>2, Facts
        <4> QED
          BY <3>2, <4>1, UpdateFields DEF Done
      <3> QED
        BY <3>1, <3>2
    <2> QED
      BY <2>1, <2>2, <2>3, <2>4, Facts
  <1> QED
    BY <1>3, <1>4

LEMMA GaugeUpdate ==
    ASSUME JobInv, GaugeInv, OnUpdate, UNCHANGED <<workerVars, discoveryVars>>
    PROVE  GaugeInv'
  <1>1. /\ UNCHANGED <<worker, outcome, job, sent>> /\ Uploading' = Uploading
        /\ JobHeld' = JobHeld
    BY DEF OnUpdate, workerVars, Uploading, JobHeld, Uploads
  <1>2. /\ updates # <<>> /\ updates' = Tail(updates)
        /\ Len(updates) \in Nat /\ Len(updates) > 0 /\ DOMAIN updates = 1..Len(updates)
        /\ Len(updates') = Len(updates) - 1 /\ DOMAIN updates' = 1..(Len(updates) - 1)
        /\ \A i \in 1..(Len(updates) - 1) : updates'[i] = updates[i + 1]
        /\ Head(updates) = updates[1]
    BY Facts, TailAt DEF OnUpdate
  <1>3. \/ ~On("Running")'
        \/ screen' = screen /\ updates[1].kind # "Finished"
        \/ /\ updates[1].kind \in {"Started", "Progress"}
           /\ screen'.done = IF updates[1].kind = "Progress" THEN updates[1].done ELSE 0
    BY <1>2 DEF OnUpdate, OnDevice, OnPreview, OnReplan, OnStarted, OnProgress, OnFinished, Show,
                Running, Menu, Confirm, On
  <1>4. ASSUME NEW i \in 0..Len(updates'), Told(i)'
        PROVE  \E m \in 0..Len(updates) :
                  /\ Told(m) /\ Done(m) = Done(i)'
                  /\ m = i + 1 \/ (m = 0 /\ i = 0 /\ updates[1].kind # "Finished")
    <2>1. CASE i # 0
      <3>1. i + 1 \in 0..Len(updates) /\ Told(i + 1) /\ Done(i + 1) = Done(i)'
        BY <1>2, <1>4, <2>1 DEF Told, Done
      <3> QED
        BY <3>1
    <2>2. CASE i = 0 /\ screen' = screen /\ updates[1].kind # "Finished"
      <3>1. 0 \in 0..Len(updates) /\ Told(0) /\ Done(0) = Done(0)'
        BY <1>2, <1>4, <2>2 DEF Told, Done, On
      <3> QED
        BY <2>2, <3>1
    <2>3. CASE /\ i = 0 /\ updates[1].kind \in {"Started", "Progress"}
               /\ screen'.done = IF updates[1].kind = "Progress" THEN updates[1].done ELSE 0
      <3>1. 1 \in 0..Len(updates) /\ Told(1) /\ Done(1) = Done(0)'
        BY <1>2, <2>3 DEF Told, Done
      <3> QED
        BY <2>3, <3>1
    <2> QED
      BY <1>3, <1>4, <2>1, <2>2, <2>3 DEF Told
  <1>5. ToldIsDone'
    <2> SUFFICES ASSUME NEW i \in 0..Len(updates'), Told(i)'
                 PROVE  EndToCome(i)' /\ Done(i)' <= UploadReports
                           /\ (JobHeld' => Done(i)' <= sent')
      BY DEF ToldIsDone
    <2>1. PICK m \in 0..Len(updates) :
             /\ Told(m) /\ Done(m) = Done(i)'
             /\ m = i + 1 \/ (m = 0 /\ i = 0 /\ updates[1].kind # "Finished")
      BY <1>4
    <2>2. EndToCome(m) /\ Done(m) <= UploadReports /\ (JobHeld => Done(m) <= sent)
      BY <2>1 DEF GaugeInv, ToldIsDone
    <2>3. ASSUME NEW k \in DOMAIN updates, k > m, updates[k].kind = "Finished"
          PROVE  EndToCome(i)'
      <3>1. k # 1 /\ k - 1 > i /\ k - 1 \in DOMAIN updates' /\ updates'[k - 1] = updates[k]
        BY <1>2, <2>1, <2>3
      <3> QED
        BY <2>3, <3>1 DEF EndToCome
    <2>4. EndToCome(i)'
      BY <1>1, <2>2, <2>3 DEF EndToCome
    <2> QED
      BY <1>1, <2>1, <2>2, <2>4
  <1>6. SentInTotal'
    BY <1>1 DEF GaugeInv, SentInTotal
  <1> QED
    BY <1>5, <1>6 DEF GaugeInv

LEMMA GaugeKey ==
    ASSUME JobInv, GaugeInv, OnKey, UNCHANGED <<workerVars, discoveryVars>>
    PROVE  GaugeInv'
  <1>1. /\ UNCHANGED <<updates, worker, outcome, job, sent>> /\ Uploading' = Uploading
        /\ JobHeld' = JobHeld
    BY DEF OnKey, workerVars, Uploading, JobHeld, Uploads
  <1>2. screen' = screen \/ ~On("Running")'
    BY DEF OnKey, PromptYesRunning, PromptYesFinished, PromptNo, ScreenKey, MenuQuit, MenuCommand,
           OpenBrowser, BrowseLeave, BrowsePick, ConfirmLeave, ConfirmEdit, ConfirmPlacement,
           ConfirmUpload, RunningCancel, RunningQuit, NoKey, Show, Menu, Browse, Confirm, On
  <1>3. SentInTotal'
    BY <1>1 DEF GaugeInv, SentInTotal
  <1> QED
    BY <1>1, <1>2, <1>3, GaugeSilent DEF GaugeInv

\* Before an upload starts and after it is answered there is no trace of it.
LEMMA NothingTold ==
    ASSUME JobInv, GaugeInv, ~Uploading, ~JobAnswered, UNCHANGED <<updates, screen>>
    PROVE  ToldIsDone'
  <1>1. \A i \in 0..Len(updates) : ~Told(i)
    BY DEF GaugeInv, ToldIsDone, EndToCome, JobAnswered, HasKind, AnswerKinds
  <1>2. \A i \in 0..Len(updates) : Told(i)' = Told(i)
    BY DEF Told, On
  <1> QED
    BY <1>1, <1>2 DEF ToldIsDone

LEMMA GaugeWorker ==
    ASSUME JobInv, GaugeInv, WorkerNext, UNCHANGED <<appVars, discoveryVars>>
    PROVE  GaugeInv'
  <1>1. UNCHANGED screen /\ WorkerShape /\ SentInTotal /\ sent \in Nat
    BY Facts DEF appVars, GaugeInv
  <1>2. UploadReports \in Nat /\ UploadReports > 0
    BY ChannelsAssumption DEF ChannelsAssumption
  <1> USE DEF Step
  <1>3. CASE Take
    <2>1. worker = "idle" /\ worker' = "taken" /\ UNCHANGED <<updates, sent>> /\ sent = 0
      BY <1>1, <1>3 DEF Take, SentInTotal
    <2>2. ~Uploading /\ ~JobAnswered
      BY <1>3 DEF Take, JobInv, OneJob, JobQueued, Uploading, JobHeld
    <2>3. SentInTotal'
      BY <1>2, <2>1 DEF SentInTotal
    <2> QED
      BY <1>1, <2>1, <2>2, <2>3, NothingTold DEF GaugeInv
  <1>4. CASE SetBusy \/ Reencode \/ Open \/ OpenFails \/ Continue \/ Cancelled \/ ReportFails
             \/ LostFlag \/ Panic
    <2>1. UNCHANGED <<updates, job, sent>> /\ JobHeld /\ JobHeld' /\ worker' # "idle"
      BY <1>4 DEF SetBusy, FirstStep, Reencode, Open, OpenFails, Continue, Cancelled,
                  ReportFails, LostFlag, Panic, channels, JobHeld
    <2>2. Uploading' = Uploading
      BY <2>1 DEF Uploading, Uploads
    <2>3. worker' \in {"taken", "reencode", "open", "started", "check", "report"}
            => worker \in {"taken", "reencode", "open", "started", "check", "report"}
      BY <1>4 DEF SetBusy, Reencode, Open, OpenFails, Continue, Cancelled, ReportFails,
                  LostFlag, Panic
    <2>4. SentInTotal'
      BY <1>1, <2>1, <2>2, <2>3 DEF SentInTotal
    <2> QED
      BY <1>1, <2>1, <2>2, <2>4, GaugeSilent DEF GaugeInv
  <1>5. CASE Decode
    <2>1. job.kind \in {"Preview", "Replan"} /\ job \in JobType /\ ~Uploading
      BY <1>1, <1>5, JobKinds, Facts DEF Decode, WorkerShape, Uploading, Uploads
    <2>2. PICK ok \in BOOLEAN :
             Send([kind |-> job.kind, ok |-> ok, wanted |-> job.wanted,
                   generation |-> job.generation])
      BY <1>5 DEF Decode
    <2>3. [kind |-> job.kind, ok |-> ok, wanted |-> job.wanted,
           generation |-> job.generation] \in UpdateType
      BY <2>1, JobKinds, UpdateTypes
    <2>4. ~JobHeld' /\ UNCHANGED sent /\ worker' = "release"
      BY <1>1, <1>5 DEF Decode, JobHeld, WorkerShape
    <2>5. ToldIsDone'
      BY <1>1, <2>1, <2>2, <2>3, <2>4, GaugeSends
    <2> QED
      BY <2>4, <2>5 DEF GaugeInv, SentInTotal, Uploading
  <1>6. CASE Start
    <2>1. /\ UNCHANGED <<job, sent>> /\ worker = "started" /\ worker' = "check"
          /\ Send([kind |-> "Started"])
      BY <1>6 DEF Start
    <2>2. [kind |-> "Started"] \in UpdateType
      BY UpdateTypes
    <2>3. Uploading /\ Uploading' /\ JobHeld
      BY <1>1, <2>1 DEF WorkerShape, Uploading, Uploads, JobHeld
    <2>4. ToldIsDone'
      BY <1>1, <2>1, <2>2, <2>3, GaugeSends
    <2> QED
      BY <1>1, <2>1, <2>3, <2>4 DEF GaugeInv, SentInTotal
  <1>7. CASE Report
    <2>1. /\ UNCHANGED job /\ worker = "report" /\ sent' = sent + 1 /\ JobHeld
          /\ worker' \in {"release", "check", "report"} /\ (worker' = "release" => outcome' = "ok")
      BY <1>7 DEF Report, JobHeld
    <2>2. JobHeld' /\ Uploading' = Uploading
      BY <2>1 DEF JobHeld, Uploading, Uploads
    <2>3. CASE ~Uploads
      <3>1. UNCHANGED updates /\ ~Uploading /\ ~JobAnswered /\ ~Uploading'
        BY <1>7, <2>1, <2>2, <2>3 DEF Report, Uploading, JobInv, OneJob
      <3>2. SentInTotal'
        BY <2>1, <3>1 DEF SentInTotal
      <3> QED
        BY <1>1, <3>1, <3>2, NothingTold DEF GaugeInv
    <2>4. CASE Uploads
      <3>1. Uploading /\ Uploading' /\ sent < UploadReports
        BY <1>1, <2>1, <2>2, <2>4 DEF Uploading, SentInTotal
      <3>2. Send([kind |-> "Progress", done |-> sent + 1])
        BY <1>7, <2>4 DEF Report
      <3>3. [kind |-> "Progress", done |-> sent + 1] \in UpdateType
        BY <1>1, UpdateTypes
      <3>4. /\ sent + 1 <= UploadReports /\ sent <= sent' /\ sent' \in Nat /\ sent + 1 <= sent'
        BY <1>1, <1>2, <2>1, <3>1
      <3>5. ToldIsDone'
        BY <1>1, <2>1, <2>2, <3>1, <3>2, <3>3, <3>4, GaugeSends
      <3>6. worker' # "release" => sent' < UploadReports
        <4>1. sent + 1 = UploadReports => worker' = "release"
          BY <1>7, <2>4 DEF Report, Total
        <4> QED
          BY <1>1, <1>2, <2>1, <3>1, <4>1
      <3>7. SentInTotal'
        BY <2>1, <3>4, <3>6 DEF SentInTotal
      <3> QED
        BY <3>5, <3>7 DEF GaugeInv
    <2> QED
      BY <2>3, <2>4
  <1>8. CASE LostUpdate
    <2>1. /\ worker = "tell" /\ worker' = "release" /\ outcome # "none"
          /\ UNCHANGED <<job, outcome, sent>>
          /\ Send([kind |-> "Device", device |-> "NotFound"])
      BY <1>1, <1>8 DEF LostUpdate, WorkerShape
    <2>2. [kind |-> "Device", device |-> "NotFound"] \in UpdateType
      BY UpdateTypes DEF DeviceStates
    <2>3. JobHeld /\ JobHeld' /\ Uploading' = Uploading
      BY <2>1 DEF JobHeld, Uploading, Uploads
    <2>4. ToldIsDone'
      BY <1>1, <2>1, <2>2, <2>3, GaugeSends
    <2> QED
      BY <1>1, <2>1, <2>3, <2>4 DEF GaugeInv, SentInTotal
  <1>9. CASE Release
    <2>1. UNCHANGED updates /\ worker = "release"
      BY <1>9 DEF Release
    <2>2. CASE outcome = "none"
      <3>1. worker' = "idle" /\ sent' = 0 /\ ~JobHeld /\ ~JobHeld'
        BY <1>9, <2>1, <2>2 DEF Release, Rest, JobHeld
      <3>2. ToldIsDone'
        BY <1>1, <2>1, <3>1, GaugeSilent DEF Uploading
      <3> QED
        BY <3>1, <3>2 DEF GaugeInv, SentInTotal, Uploading
    <2>3. CASE outcome # "none"
      <3>1. worker' = "answer" /\ UNCHANGED <<job, outcome, sent>> /\ JobHeld /\ JobHeld'
        BY <1>9, <2>1, <2>3 DEF Release, JobHeld
      <3>2. Uploading' = Uploading
        BY <3>1 DEF Uploading, Uploads
      <3>3. ToldIsDone'
        BY <1>1, <2>1, <3>1, <3>2, GaugeSilent
      <3> QED
        BY <1>1, <3>1, <3>2, <3>3 DEF GaugeInv, SentInTotal
    <2> QED
      BY <2>2, <2>3
  <1>10. CASE Answer
    <2>1. job \in JobType /\ outcome \in Outcomes
      BY <1>1, <1>10 DEF Answer, JobInv, TypeOK, WorkerTypeOK, WorkerShape
    <2>2. /\ AnswerUpdate \in UpdateType /\ AnswerUpdate.kind \in AnswerKinds
          /\ Uploading => AnswerUpdate.kind = "Finished"
      BY <2>1, JobKinds, UpdateTypes DEF AnswerUpdate, AnswerKinds, Uploading, Uploads
    <2>3. Send(AnswerUpdate) /\ worker' = "idle" /\ sent' = 0 /\ ~JobHeld'
      BY <1>10 DEF Answer, Rest, JobHeld
    <2>4. ToldIsDone'
      BY <1>1, <2>2, <2>3, GaugeSends DEF AnswerKinds
    <2> QED
      BY <2>3, <2>4 DEF GaugeInv, SentInTotal, Uploading
  <1> QED
    BY <1>3, <1>4, <1>5, <1>6, <1>7, <1>8, <1>9, <1>10 DEF WorkerNext

LEMMA GaugeStep == JobInv /\ GaugeInv /\ [Next]_vars => GaugeInv'
  <1> SUFFICES ASSUME JobInv, GaugeInv, [Next]_vars PROVE GaugeInv'
    OBVIOUS
  <1>1. ASSUME UNCHANGED <<updates, screen, workerVars>>
        PROVE  GaugeInv'
    BY <1>1 DEF GaugeInv, ToldIsDone, Told, Done, EndToCome, SentInTotal, Uploading, Uploads,
                JobHeld, On, workerVars
  <1>2. CASE Interface
    <2>1. CASE OnKey
      BY <1>2, <2>1, GaugeKey DEF Interface
    <2>2. CASE OnUpdate
      BY <1>2, <2>2, GaugeUpdate DEF Interface
    <2>3. CASE CheckQuit \/ GiveUpWaiting
      BY <1>1, <1>2, <2>3 DEF Interface, CheckQuit, GiveUpWaiting, channels
    <2> QED
      BY <1>2, <2>1, <2>2, <2>3 DEF Interface, AppNext
  <1>3. CASE WorkerStep
    BY <1>3, GaugeWorker DEF WorkerStep
  <1>4. CASE DiscoveryStep
    <2>1. UNCHANGED <<screen, workerVars>>
      BY <1>4 DEF DiscoveryStep, appVars
    <2>2. CASE Tell
      <3>1. Send([kind |-> "Device", device |-> found])
        BY <2>2 DEF Tell
      <3>2. [kind |-> "Device", device |-> found] \in UpdateType
        BY UpdateTypes DEF JobInv, TypeOK, DiscoveryTypeOK
      <3>3. Uploading' = Uploading /\ JobHeld' = JobHeld /\ UNCHANGED <<worker, sent>>
        BY <2>1 DEF Uploading, Uploads, JobHeld, workerVars
      <3>4. ToldIsDone'
        BY <2>1, <3>1, <3>2, <3>3, Facts, GaugeSends
      <3> QED
        BY <3>3, <3>4 DEF GaugeInv, SentInTotal
    <2>3. CASE ~Tell
      <3>1. UNCHANGED updates
        BY <1>4, <2>3 DEF DiscoveryStep, DiscoveryNext, Wake, LoadBusy, LoadReady, FindDevice,
                          OpenAndDrain, StoreReady, channels
      <3> QED
        BY <1>1, <2>1, <3>1
    <2> QED
      BY <2>2, <2>3
  <1>5. CASE Replug
    BY <1>1, <1>5 DEF Replug, appVars
  <1>6. CASE UNCHANGED vars
    BY <1>1, <1>6 DEF vars, channels, appVars
  <1> QED
    BY <1>2, <1>3, <1>4, <1>5, <1>6 DEF Next, Exited

LEMMA GaugeInit == Init => GaugeInv
  <1> SUFFICES ASSUME Init PROVE GaugeInv
    OBVIOUS
  <1>1. updates = <<>> /\ screen = Menu /\ worker = "idle" /\ sent = 0
    BY DEF Init, ChannelsInit, AppInit, WorkerInit
  <1>2. Len(updates) = 0
    BY <1>1
  <1> QED
    BY <1>1, <1>2 DEF GaugeInv, ToldIsDone, Told, On, Menu, SentInTotal, Uploading, JobHeld

(***************************************************************************)
(* The Running screen and Update::Progress: for any number of reports, the *)
(* gauge is never ahead of the device, and full only when all is sent.     *)
(***************************************************************************)
THEOREM GaugeIsHonestAlways == Spec => []GaugeIsHonest
  <1>1. Spec => [](JobInv /\ GaugeInv)
    BY GaugeInit, GaugeStep, JobInvariant, PTL DEF Spec
  <1> QED
    BY <1>1, GaugeProperty, PTL

--------------------------------------------------------------------------------
(***************************************************************************)
(* Quitting.                                                               *)
(***************************************************************************)
QuitInv ==
    /\ ui = "key" => ~should_quit
    /\ ui = "exited" => should_quit
    /\ quitting /\ ~should_quit => On("Running")
    /\ quitting /\ should_quit => final_message # "none"
    /\ PromptCoversNothingNew

\* Who is on Running or has its answer unread is told of nothing else.
LEMMA OnlyFinished ==
    ASSUME JobInv, GaugeInv, On("Running"), updates # <<>>
    PROVE  Head(updates).kind \notin {"Preview", "Replan"}
  <1>1. EndToCome(0)
    BY Facts DEF GaugeInv, ToldIsDone, Told
  <1>2. 1 \in DOMAIN updates /\ Head(updates) = updates[1]
    BY Facts, TailAt
  <1>3. CASE Uploading
    BY <1>2, <1>3 DEF Uploading, JobInv, OneJob, JobAnswered, HasKind, AnswerKinds
  <1>4. ASSUME NEW k \in DOMAIN updates, updates[k].kind = "Finished"
        PROVE  updates[1].kind \notin {"Preview", "Replan"}
    BY <1>2, <1>4 DEF JobInv, OneJob, AtMostOne, AnswerKinds
  <1> QED
    BY <1>1, <1>2, <1>3, <1>4 DEF EndToCome

LEMMA QuitStep == JobInv /\ GaugeInv /\ QuitInv /\ [Next]_vars => QuitInv'
  <1> SUFFICES ASSUME JobInv, GaugeInv, QuitInv, [Next]_vars PROVE QuitInv'
    OBVIOUS
  <1> USE DEF QuitInv, PromptCoversNothingNew, On
  <1>1. ASSUME UNCHANGED appVars PROVE QuitInv'
    BY <1>1 DEF appVars, quitVars, gateVars, loopVars
  <1>2. CASE OnKey
    <2> USE <1>2 DEF OnKey, gateVars, quitVars
    <2>1. CASE PromptYesRunning \/ PromptYesFinished \/ PromptNo
      BY <2>1 DEF PromptYesRunning, PromptYesFinished, PromptNo
    <2>2. CASE ~quit_confirm /\ (MenuQuit \/ MenuCommand \/ OpenBrowser)
      BY <2>2 DEF MenuQuit, MenuCommand, OpenBrowser, Show, Browse
    <2>3. CASE ~quit_confirm /\ (BrowseLeave \/ BrowsePick)
      BY <2>3 DEF BrowseLeave, BrowsePick, Show, Menu
    <2>4. CASE ~quit_confirm /\ (ConfirmLeave \/ ConfirmEdit \/ ConfirmPlacement \/ ConfirmUpload)
      BY <2>4 DEF ConfirmLeave, ConfirmEdit, ConfirmPlacement, ConfirmUpload, Show,
                  Menu, Confirm
    <2>5. CASE RunningCancel \/ RunningQuit \/ NoKey
      BY <2>5 DEF RunningCancel, RunningQuit, NoKey
    <2> QED
      BY <2>1, <2>2, <2>3, <2>4, <2>5 DEF ScreenKey
  <1>3. CASE OnUpdate
    <2> DEFINE u == Head(updates)
    <2> USE <1>3 DEF OnUpdate, loopVars, quitVars, gateVars
    <2>1. CASE OnDevice(u) \/ OnStarted(u) \/ OnProgress(u)
      BY <2>1 DEF OnDevice, OnStarted, OnProgress, Show, Running
    <2>2. CASE OnPreview(u) \/ OnReplan(u)
      <3>1. ~On("Running")
        BY <2>2, OnlyFinished DEF OnPreview, OnReplan
      <3> QED
        BY <2>2, <3>1 DEF OnPreview, OnReplan
    <2>3. CASE OnFinished(u)
      BY <2>3 DEF OnFinished, Show, Menu
    <2> QED
      BY <2>1, <2>2, <2>3
  <1>4. CASE CheckQuit
    BY <1>4 DEF CheckQuit, LeaveOrPoll, gateVars, JobInv, TypeOK, AppTypeOK
  <1>5. CASE GiveUpWaiting
    BY <1>5 DEF GiveUpWaiting, LeaveOrPoll, gateVars
  <1> QED
    BY <1>1, <1>2, <1>3, <1>4, <1>5
       DEF Next, Interface, AppNext, WorkerStep, DiscoveryStep, Replug, Exited, vars

LEMMA QuitInit == Init => QuitInv
  BY DEF Init, AppInit, QuitInv, PromptCoversNothingNew

LEMMA SafeToQuit == Spec => [](JobInv /\ GaugeInv /\ QuitInv)
  BY GaugeInit, GaugeStep, QuitInit, QuitStep, JobInvariant, PTL DEF Spec

(***************************************************************************)
(* The quit prompt of the Running screen: once the upload it asked about   *)
(* is over there is nothing it could abandon.                              *)
(***************************************************************************)
THEOREM PromptCoversNothing == Spec => []PromptCoversNothingNew
  BY SafeToQuit, PTL DEF QuitInv

(***************************************************************************)
(* A confirmed quit has something to say on the normal screen.             *)
(***************************************************************************)
THEOREM QuitLeavesMessageAlways == Spec => []QuitLeavesMessage
  <1>1. QuitInv => QuitLeavesMessage
    BY DEF QuitInv, QuitLeavesMessage
  <1> QED
    BY <1>1, SafeToQuit, PTL

--------------------------------------------------------------------------------
(***************************************************************************)
(* The decodes in flight -- asked for, being made, or answered and unread. *)
(* Each is superseded or is what the screen is waiting for: the browser    *)
(* for a preview, the confirm screen for its own choices under the other   *)
(* placement.                                                              *)
(***************************************************************************)
Items(q) == {q[i] : i \in DOMAIN q}

Decoding ==
    {d \in Items(jobs) \cup Items(updates) \cup (IF JobHeld THEN {job} ELSE {}) :
        d.kind \in {"Preview", "Replan"}}

Awaited(d) ==
    /\ d.generation <= preview_generation
    /\ d.generation = preview_generation =>
          IF d.kind = "Preview" THEN On("Browse")
          ELSE On("Confirm") /\ d.wanted = Toggled(screen.pending)

DecodeInv == \A d \in Decoding : Awaited(d)

LEMMA ItemsOf ==
    ASSUME NEW S, NEW q \in Seq(S), NEW u \in S
    PROVE  /\ Items(Append(q, u)) = Items(q) \cup {u}
           /\ q # <<>> => Items(q) = {Head(q)} \cup Items(Tail(q))
           /\ Items(q) \subseteq S
           /\ q = <<>> => Items(q) = {}
  <1>1. Items(Append(q, u)) = Items(q) \cup {u}
    <2>1. Items(Append(q, u)) \subseteq Items(q) \cup {u}
      BY AppendAt DEF Items
    <2>2. /\ \A i \in DOMAIN q : i \in DOMAIN Append(q, u) /\ Append(q, u)[i] = q[i]
          /\ Len(q) + 1 \in DOMAIN Append(q, u) /\ Append(q, u)[Len(q) + 1] = u
      BY AppendAt
    <2> QED
      BY <2>1, <2>2 DEF Items
  <1>2. ASSUME q # <<>> PROVE Items(q) = {Head(q)} \cup Items(Tail(q))
    <2>1. \A i \in DOMAIN q : i # 1 => i - 1 \in DOMAIN Tail(q) /\ Tail(q)[i - 1] = q[i]
      BY <1>2, TailAt
    <2>2. \A i \in DOMAIN Tail(q) : i + 1 \in DOMAIN q /\ Tail(q)[i] = q[i + 1]
      BY <1>2, TailAt
    <2>3. 1 \in DOMAIN q /\ Head(q) = q[1]
      BY <1>2, TailAt
    <2>4. Items(q) \subseteq {Head(q)} \cup Items(Tail(q))
      BY <2>1, <2>3 DEF Items
    <2>5. {Head(q)} \cup Items(Tail(q)) \subseteq Items(q)
      BY <2>2, <2>3 DEF Items
    <2> QED
      BY <2>4, <2>5
  <1>3. Items(q) \subseteq S /\ (q = <<>> => Items(q) = {})
    BY DEF Items
  <1> QED
    BY <1>1, <1>2, <1>3

LEMMA DecodingTypes ==
    ASSUME JobInv
    PROVE  /\ preview_generation \in Nat
           /\ \A d \in Decoding : d.generation \in Nat
           /\ ~job_pending => Decoding = {}
  <1>1. preview_generation \in Nat
    BY DEF JobInv, TypeOK, AppTypeOK
  <1>2. /\ Items(jobs) \subseteq JobType /\ Items(updates) \subseteq UpdateType
        /\ job \in JobType \cup {NoJob}
    BY Facts DEF Items
  <1>3. \A u \in UpdateType : u.kind \in {"Preview", "Replan"} => u.generation \in Nat
    BY DEF UpdateType
  <1>4. \A d \in Decoding : d.generation \in Nat
    BY <1>2, <1>3, JobKinds DEF Decoding
  <1>5. ASSUME ~job_pending PROVE Decoding = {}
    <2>1. jobs = <<>> /\ ~JobHeld /\ ~JobAnswered
      BY <1>5 DEF JobInv, OneJob, JobQueued
    <2>2. Items(jobs) = {}
      BY <2>1 DEF Items
    <2>3. \A u \in Items(updates) : u.kind \notin {"Preview", "Replan"}
      BY <2>1 DEF JobAnswered, HasKind, AnswerKinds, Items
    <2> QED
      BY <2>1, <2>2, <2>3 DEF Decoding
  <1> QED
    BY <1>1, <1>4, <1>5

LEMMA DecodeStays ==
    ASSUME DecodeInv, Decoding' \subseteq Decoding, UNCHANGED <<screen, preview_generation>>
    PROVE  DecodeInv'
  BY DEF DecodeInv, Awaited, On

\* Once the generation moves on, everything that was asked for is superseded.
LEMMA DecodeSuperseded ==
    ASSUME JobInv, DecodeInv, Supersede, NEW d \in Decoding
    PROVE  Awaited(d)'
  BY DecodingTypes DEF DecodeInv, Awaited, Supersede

LEMMA DecodeKey ==
    ASSUME JobInv, DecodeInv, OnKey, UNCHANGED <<workerVars, discoveryVars>>
    PROVE  DecodeInv'
  <1>1. UNCHANGED updates /\ JobHeld' = JobHeld /\ UNCHANGED job
    BY DEF OnKey, workerVars, JobHeld
  <1>2. UNCHANGED jobs => Decoding' = Decoding
    BY <1>1 DEF Decoding
  <1>3. ASSUME NEW j \in JobType, Submit(j) PROVE Decoding' \subseteq Decoding \cup {j}
    <2>1. Items(jobs') = Items(jobs) \cup {j}
      BY <1>3, Facts, ItemsOf DEF Submit
    <2> QED
      BY <1>1, <2>1 DEF Decoding
  <1>4. CASE UNCHANGED <<jobs, screen, preview_generation>>
    BY <1>2, <1>4, DecodeStays
  <1>5. CASE BrowseLeave \/ ConfirmLeave
    <2>1. Supersede /\ UNCHANGED jobs
      BY <1>5 DEF BrowseLeave, ConfirmLeave
    <2> QED
      BY <1>2, <2>1, DecodeSuperseded DEF DecodeInv
  <1>6. CASE OpenBrowser \/ ConfirmEdit
    <2>1. ~job_pending /\ UNCHANGED jobs
      BY <1>6 DEF OpenBrowser, ConfirmEdit, JobInv, ConfirmGate
    <2> QED
      BY <1>2, <2>1, DecodingTypes DEF DecodeInv
  <1>7. CASE MenuCommand \/ ConfirmUpload
    <2>1. ~job_pending
      BY <1>7 DEF MenuCommand, ConfirmUpload
    <2>2. PICK j \in JobType : Submit(j) /\ j.kind \in {"Command", "Upload"}
      <3>1. CASE MenuCommand
        <4>1. PICK c \in Commands : Submit([kind |-> "Command", name |-> c])
          BY <3>1 DEF MenuCommand
        <4>2. [kind |-> "Command", name |-> c] \in JobType
          BY DEF JobType
        <4> QED
          BY <4>1, <4>2
      <3>2. CASE ConfirmUpload
        <4>1. [kind |-> "Upload"] \in JobType
          BY DEF JobType
        <4> QED
          BY <3>2, <4>1 DEF ConfirmUpload
      <3> QED
        BY <1>7, <3>1, <3>2
    <2>3. Decoding' \subseteq {j} /\ j \notin Decoding'
      BY <1>3, <2>1, <2>2, DecodingTypes DEF Decoding
    <2> QED
      BY <2>3 DEF DecodeInv
  <1>8. CASE BrowsePick
    <2>1. Supersede /\ On("Browse")' /\ preview_generation' \in Nat
      BY <1>8, SupersedeType DEF BrowsePick, On, JobInv, TypeOK, AppTypeOK
    <2>2. PICK f \in Files : Submit([kind |-> "Preview", wanted |-> FirstPending(f),
                                     generation |-> preview_generation'])
      BY <1>8 DEF BrowsePick
    <2>3. FirstPending(f) \in PendingType
      BY ChannelsAssumption DEF FirstPending, PendingType, Placements, ChannelsAssumption
    <2>4. PICK j \in JobType :
             /\ Submit(j) /\ j.kind = "Preview" /\ j.generation = preview_generation'
      BY <2>1, <2>2, <2>3, DecodeJobType
    <2>5. Decoding' \subseteq Decoding \cup {j}
      BY <1>3, <2>4
    <2>6. Awaited(j)'
      BY <2>1, <2>4 DEF Awaited
    <2> QED
      BY <2>1, <2>5, <2>6, DecodeSuperseded DEF DecodeInv
  <1>9. CASE ConfirmPlacement
    <2>1. Supersede /\ On("Confirm")' /\ UNCHANGED screen /\ preview_generation' \in Nat
      BY <1>9, SupersedeType DEF ConfirmPlacement, On, JobInv, TypeOK, AppTypeOK
    <2>2. Toggled(screen.pending) \in PendingType
      BY <1>9, ConfirmHolds, ToggledType DEF ConfirmPlacement, JobInv, TypeOK, AppTypeOK
    <2>3. PICK j \in JobType :
             /\ Submit(j) /\ j.kind = "Replan" /\ j.generation = preview_generation'
             /\ j.wanted = Toggled(screen.pending)
      BY <1>9, <2>1, <2>2, DecodeJobType DEF ConfirmPlacement
    <2>4. Decoding' \subseteq Decoding \cup {j}
      BY <1>3, <2>3
    <2>5. Toggled(screen.pending)' = Toggled(screen.pending)
      BY <2>1
    <2>6. Awaited(j)'
      BY <2>1, <2>3, <2>5 DEF Awaited
    <2> QED
      BY <2>1, <2>4, <2>6, DecodeSuperseded DEF DecodeInv
  <1>10. \/ UNCHANGED <<jobs, screen, preview_generation>>
         \/ BrowseLeave \/ ConfirmLeave \/ OpenBrowser \/ ConfirmEdit \/ MenuCommand
         \/ ConfirmUpload \/ BrowsePick \/ ConfirmPlacement
    BY DEF OnKey, PromptYesRunning, PromptYesFinished, PromptNo, ScreenKey, MenuQuit,
           RunningCancel, RunningQuit, NoKey, gateVars
  <1> QED
    BY <1>4, <1>5, <1>6, <1>7, <1>8, <1>9, <1>10

\* An upload that the user is told of leaves no decode in flight, and no confirm screen.
LEMMA ToldLeavesNoDecode ==
    ASSUME JobInv, GaugeInv, NEW i \in 0..Len(updates), Told(i)
    PROVE  Decoding = {} /\ ~On("Confirm")
  <1>1. EndToCome(i)
    BY DEF GaugeInv, ToldIsDone
  <1>2. CASE Uploading
    <2>1. jobs = <<>> /\ ~JobAnswered /\ JobHeld /\ job.kind = "Upload" /\ job_pending
      BY <1>2 DEF Uploading, Uploads, JobInv, OneJob, JobQueued
    <2>2. Items(jobs) = {} /\ \A u \in Items(updates) : u.kind \notin {"Preview", "Replan"}
      BY <2>1 DEF JobAnswered, HasKind, AnswerKinds, Items
    <2>3. ~ReplanQueued /\ ~ReplanHeld /\ ~ReplanAnswered
      BY <2>1, ReplanIsAnswer DEF ReplanQueued, HasKind, ReplanHeld
    <2> QED
      BY <2>1, <2>2, <2>3 DEF Decoding, JobInv, ConfirmGate
  <1>3. ASSUME NEW k \in DOMAIN updates, updates[k].kind = "Finished"
        PROVE  Decoding = {} /\ ~On("Confirm")
    <2>1. JobAnswered /\ jobs = <<>> /\ ~JobHeld /\ job_pending
      BY <1>3 DEF JobAnswered, HasKind, AnswerKinds, JobInv, OneJob, JobQueued
    <2>2. \A u \in Items(updates) : u.kind \notin {"Preview", "Replan"}
      BY <1>3 DEF JobInv, OneJob, AtMostOne, AnswerKinds, Items
    <2>3. Items(jobs) = {} /\ ~ReplanQueued /\ ~ReplanHeld
      BY <2>1 DEF Items, ReplanQueued, HasKind, ReplanHeld
    <2>4. ~ReplanAnswered
      BY <2>2 DEF ReplanAnswered, HasKind, Items
    <2> QED
      BY <2>1, <2>2, <2>3, <2>4 DEF Decoding, JobInv, ConfirmGate
  <1> QED
    BY <1>1, <1>2, <1>3 DEF EndToCome

LEMMA DecodeUpdate ==
    ASSUME JobInv, GaugeInv, DecodeInv, OnUpdate, UNCHANGED <<workerVars, discoveryVars>>
    PROVE  DecodeInv'
  <1> DEFINE u == Head(updates)
  <1>1. /\ UNCHANGED <<jobs, job>> /\ JobHeld' = JobHeld /\ UNCHANGED preview_generation
        /\ \/ OnDevice(u) \/ OnPreview(u) \/ OnReplan(u)
           \/ OnStarted(u) \/ OnProgress(u) \/ OnFinished(u)
    BY DEF OnUpdate, OnDevice, OnPreview, OnReplan, OnStarted, OnProgress, OnFinished,
           workerVars, JobHeld, gateVars
  <1>2. Items(updates) = {u} \cup Items(updates')
    BY Facts, ItemsOf, TailAt DEF OnUpdate
  <1>3. Decoding' \subseteq Decoding
    BY <1>1, <1>2 DEF Decoding
  <1>4. u = updates[1] /\ 1 \in 0..Len(updates)
    BY Facts, TailAt DEF OnUpdate
  <1>5. CASE u.kind \in AnswerKinds
    <2>1. JobAnswered /\ ~JobAnswered'
      BY <1>5, ReadOne DEF JobInv, TypeOK, ChannelsTypeOK, OneJob, OnUpdate
    <2>2. jobs' = <<>> /\ ~JobHeld'
      BY <1>1, <2>1 DEF JobInv, OneJob, JobQueued
    <2>3. Items(jobs') = {} /\ \A d \in Items(updates') : d.kind \notin {"Preview", "Replan"}
      BY <2>1, <2>2 DEF JobAnswered, HasKind, AnswerKinds, Items
    <2>4. Decoding' = {}
      BY <2>2, <2>3 DEF Decoding
    <2> QED
      BY <2>4 DEF DecodeInv
  <1>6. CASE u.kind \in {"Started", "Progress"}
    <2>1. Told(1)
      BY <1>4, <1>6 DEF Told
    <2>2. Decoding' = {}
      BY <1>3, <1>4, <2>1, ToldLeavesNoDecode
    <2> QED
      BY <2>2 DEF DecodeInv
  <1>7. CASE OnDevice(u)
    BY <1>1, <1>3, <1>7, DecodeStays DEF OnDevice
  <1> QED
    BY <1>1, <1>5, <1>6, <1>7
       DEF OnPreview, OnReplan, OnStarted, OnProgress, OnFinished, AnswerKinds

LEMMA AwaitedLike ==
    ASSUME NEW d, NEW e, Awaited(d), e.kind = d.kind, e.wanted = d.wanted,
           e.generation = d.generation
    PROVE  Awaited(e)
  BY DEF Awaited

LEMMA DecodeWorker ==
    ASSUME JobInv, DecodeInv, WorkerNext, UNCHANGED <<appVars, discoveryVars>>
    PROVE  DecodeInv'
  <1>1. UNCHANGED <<screen, preview_generation>>
    BY DEF appVars, gateVars
  <1>2. \A d : Awaited(d)' = Awaited(d)
    BY <1>1 DEF Awaited, On
  <1> USE DEF Step
  <1>3. CASE Take
    <2>1. Items(jobs) = {job'} \cup Items(jobs') /\ UNCHANGED updates
      BY <1>3, Facts, ItemsOf, QueueTypes DEF Take
    <2>2. Decoding' \subseteq Decoding
      BY <2>1 DEF Decoding
    <2> QED
      BY <1>1, <2>2, DecodeStays
  <1>4. CASE SetBusy \/ Reencode \/ Open \/ OpenFails \/ Continue \/ Cancelled \/ ReportFails
             \/ LostFlag \/ Panic
    <2>1. UNCHANGED <<jobs, updates, job>> /\ JobHeld /\ JobHeld'
      BY <1>4 DEF SetBusy, FirstStep, Reencode, Open, OpenFails, Continue, Cancelled,
                  ReportFails, LostFlag, Panic, channels, JobHeld
    <2>2. Decoding' \subseteq Decoding
      BY <2>1 DEF Decoding
    <2> QED
      BY <1>1, <2>2, DecodeStays
  <1>5. ASSUME NEW u \in UpdateType, Send(u), u.kind \notin {"Preview", "Replan"},
               UNCHANGED jobs, JobHeld' => JobHeld /\ UNCHANGED job
        PROVE  DecodeInv'
    <2>1. Items(updates') = Items(updates) \cup {u}
      BY <1>5, Facts, ItemsOf DEF Send
    <2>2. Decoding' \subseteq Decoding
      BY <1>5, <2>1 DEF Decoding
    <2> QED
      BY <1>1, <2>2, DecodeStays
  <1>6. ASSUME NEW u \in UpdateType, Send(u), UNCHANGED jobs, JobHeld, ~JobHeld',
               u.kind = job.kind, u.wanted = job.wanted, u.generation = job.generation
        PROVE  DecodeInv'
    <2>1. Items(updates') = Items(updates) \cup {u}
      BY <1>6, Facts, ItemsOf DEF Send
    <2>2. \A d \in Decoding' : d \in Decoding \/ (d = u /\ job \in Decoding)
      BY <1>6, <2>1 DEF Decoding
    <2>3. job \in Decoding => Awaited(u)
      BY <1>6, AwaitedLike DEF DecodeInv
    <2> QED
      BY <1>2, <2>2, <2>3 DEF DecodeInv
  <1>7. CASE Decode
    <2>1. job.kind \in {"Preview", "Replan"} /\ job \in JobType /\ UNCHANGED jobs /\ JobHeld
      BY <1>7, JobKinds, Facts DEF Decode, WorkerShape, JobHeld
    <2>2. PICK ok \in BOOLEAN :
             Send([kind |-> job.kind, ok |-> ok, wanted |-> job.wanted,
                   generation |-> job.generation])
      BY <1>7 DEF Decode
    <2>3. [kind |-> job.kind, ok |-> ok, wanted |-> job.wanted,
           generation |-> job.generation] \in UpdateType
      BY <2>1, JobKinds, UpdateTypes
    <2>4. ~JobHeld'
      BY <1>7, Facts DEF Decode, JobHeld, WorkerShape
    <2> QED
      BY <1>6, <2>1, <2>2, <2>3, <2>4
  <1>8. CASE Start
    <2>1. /\ Send([kind |-> "Started"]) /\ [kind |-> "Started"] \in UpdateType
          /\ UNCHANGED <<jobs, job>> /\ JobHeld
      BY <1>8, UpdateTypes DEF Start, JobHeld
    <2> QED
      BY <1>5, <2>1
  <1>9. CASE Report
    <2>1. UNCHANGED <<jobs, job>> /\ JobHeld /\ sent + 1 \in Nat
      BY <1>9, Facts DEF Report, JobHeld
    <2>2. CASE Uploads
      <3>1. /\ Send([kind |-> "Progress", done |-> sent + 1])
            /\ [kind |-> "Progress", done |-> sent + 1] \in UpdateType
        BY <1>9, <2>1, <2>2, UpdateTypes DEF Report
      <3> QED
        BY <1>5, <2>1, <3>1
    <2>3. CASE ~Uploads
      <3>1. UNCHANGED updates
        BY <1>9, <2>3 DEF Report
      <3>2. Decoding' \subseteq Decoding
        BY <2>1, <3>1 DEF Decoding
      <3> QED
        BY <1>1, <3>2, DecodeStays
    <2> QED
      BY <2>2, <2>3
  <1>10. CASE LostUpdate
    <2>1. /\ Send([kind |-> "Device", device |-> "NotFound"])
          /\ [kind |-> "Device", device |-> "NotFound"] \in UpdateType
          /\ UNCHANGED <<jobs, job>> /\ JobHeld
      BY <1>10, UpdateTypes DEF LostUpdate, JobHeld, DeviceStates
    <2> QED
      BY <1>5, <2>1
  <1>11. CASE Release
    <2>1. UNCHANGED <<jobs, updates>> /\ (JobHeld' => JobHeld /\ UNCHANGED job)
      BY <1>11 DEF Release, Rest, JobHeld
    <2>2. Decoding' \subseteq Decoding
      BY <2>1 DEF Decoding
    <2> QED
      BY <1>1, <2>2, DecodeStays
  <1>12. CASE Answer
    <2>1. job \in JobType /\ outcome \in Outcomes
      BY <1>12, Facts DEF Answer, JobInv, TypeOK, WorkerTypeOK, WorkerShape
    <2>2. Send(AnswerUpdate) /\ UNCHANGED jobs /\ JobHeld /\ ~JobHeld'
      BY <1>12 DEF Answer, Rest, JobHeld
    <2>3. AnswerUpdate \in UpdateType
      BY <2>1, JobKinds, UpdateTypes DEF AnswerUpdate
    <2>4. CASE outcome = "panic" /\ job.kind = "Replan"
      BY <1>6, <2>2, <2>3, <2>4 DEF AnswerUpdate
    <2>5. CASE ~(outcome = "panic" /\ job.kind = "Replan")
      BY <1>5, <2>2, <2>3, <2>5 DEF AnswerUpdate
    <2> QED
      BY <2>4, <2>5
  <1> QED
    BY <1>3, <1>4, <1>7, <1>8, <1>9, <1>10, <1>11, <1>12 DEF WorkerNext

LEMMA DecodeStep == JobInv /\ GaugeInv /\ DecodeInv /\ [Next]_vars => DecodeInv'
  <1> SUFFICES ASSUME JobInv, GaugeInv, DecodeInv, [Next]_vars PROVE DecodeInv'
    OBVIOUS
  <1>1. ASSUME UNCHANGED <<jobs, updates, screen, preview_generation, workerVars>>
        PROVE  DecodeInv'
    <2>1. Decoding' = Decoding
      BY <1>1 DEF Decoding, JobHeld, workerVars
    <2> QED
      BY <1>1, <2>1, DecodeStays
  <1>2. CASE Interface
    BY <1>1, <1>2, DecodeKey, DecodeUpdate
       DEF Interface, AppNext, CheckQuit, GiveUpWaiting, channels, gateVars
  <1>3. CASE WorkerStep
    BY <1>3, DecodeWorker DEF WorkerStep
  <1>4. CASE DiscoveryStep
    <2>1. UNCHANGED <<jobs, screen, preview_generation, workerVars>>
      BY <1>4 DEF DiscoveryStep, DiscoveryNext, Wake, LoadBusy, LoadReady, FindDevice,
                  OpenAndDrain, StoreReady, Tell, channels, appVars, gateVars
    <2>2. CASE Tell
      <3> DEFINE u == [kind |-> "Device", device |-> found]
      <3>1. Send(u) /\ u \in UpdateType /\ u.kind = "Device"
        BY <2>2, UpdateTypes DEF Tell, JobInv, TypeOK, DiscoveryTypeOK
      <3> HIDE DEF u
      <3>2. Items(updates') = Items(updates) \cup {u}
        BY <3>1, Facts, ItemsOf DEF Send
      <3>3. Decoding' \subseteq Decoding
        BY <2>1, <3>1, <3>2 DEF Decoding, JobHeld, workerVars
      <3> QED
        BY <2>1, <3>3, DecodeStays
    <2>3. CASE ~Tell
      <3>1. UNCHANGED updates
        BY <1>4, <2>3 DEF DiscoveryStep, DiscoveryNext, Wake, LoadBusy, LoadReady, FindDevice,
                          OpenAndDrain, StoreReady, channels
      <3> QED
        BY <1>1, <2>1, <3>1
    <2> QED
      BY <2>2, <2>3
  <1>5. CASE Replug
    BY <1>1, <1>5 DEF Replug, appVars, gateVars
  <1>6. CASE UNCHANGED vars
    BY <1>1, <1>6 DEF vars, channels, appVars, gateVars
  <1> QED
    BY <1>2, <1>3, <1>4, <1>5, <1>6 DEF Next, Exited

LEMMA DecodeInit == Init => DecodeInv
  <1> SUFFICES ASSUME Init PROVE Decoding = {}
    BY DEF DecodeInv
  <1>1. jobs = <<>> /\ updates = <<>> /\ worker = "idle"
    BY DEF Init, ChannelsInit, WorkerInit
  <1> QED
    BY <1>1 DEF Decoding, Items, JobHeld

LEMMA DecodeSafe == Spec => [](JobInv /\ GaugeInv /\ DecodeInv)
  BY GaugeInit, GaugeStep, DecodeInit, DecodeStep, JobInvariant, PTL DEF Spec

(***************************************************************************)
(* What a turn of the loop may do to a confirm screen.                     *)
(***************************************************************************)
ScreenStep ==
    /\ ~On("Confirm") /\ On("Confirm")' => On("Browse")
    /\ On("Confirm") /\ ~On("Confirm")' => ui = "key"
    /\ On("Confirm") /\ On("Confirm")' /\ ui = "drain" /\ screen' # screen
          => screen'.pending = Toggled(screen.pending)

LEMMA ScreenStepHolds ==
    JobInv /\ GaugeInv /\ DecodeInv /\ [Next]_vars => ScreenStep
  <1> SUFFICES ASSUME JobInv, GaugeInv, DecodeInv, [Next]_vars PROVE ScreenStep
    OBVIOUS
  <1> USE DEF On
  <1>1. ASSUME UNCHANGED screen PROVE ScreenStep
    BY <1>1 DEF ScreenStep
  <1>2. CASE OnKey
    <2>1. ui = "key" /\ (On("Confirm")' => On("Confirm"))
      BY <1>2 DEF OnKey, PromptYesRunning, PromptYesFinished, PromptNo, ScreenKey, MenuQuit,
                  MenuCommand, OpenBrowser, BrowseLeave, BrowsePick, ConfirmLeave, ConfirmEdit,
                  ConfirmPlacement, ConfirmUpload, RunningCancel, RunningQuit, NoKey, Show,
                  Menu, Browse
    <2> QED
      BY <2>1 DEF ScreenStep
  <1>3. CASE OnUpdate
    <2> DEFINE u == Head(updates)
    <2>1. u = updates[1] /\ 1 \in DOMAIN updates /\ 1 \in 0..Len(updates)
      BY <1>3, Facts, TailAt DEF OnUpdate
    <2>2. u \in Items(updates)
      BY <2>1 DEF Items
    <2>3. \/ OnDevice(u) \/ OnPreview(u) \/ OnReplan(u)
          \/ OnStarted(u) \/ OnProgress(u) \/ OnFinished(u)
      BY <1>3 DEF OnUpdate
    <2>4. u.kind \in {"Preview", "Replan"} => Awaited(u)
      BY <2>2 DEF DecodeInv, Decoding
    <2>5. u.kind \in {"Started", "Progress", "Finished"} => ~On("Confirm")
      <3>1. u.kind \in {"Started", "Progress"} => Told(1)
        BY <2>1 DEF Told
      <3>2. ASSUME u.kind = "Finished" PROVE ~On("Confirm")
        <4>1. JobAnswered /\ (ReplanAnswered => u.kind = "Replan")
          BY <1>3, <3>2, ReadOne
             DEF OnUpdate, JobInv, TypeOK, ChannelsTypeOK, OneJob, AnswerKinds
        <4>2. job_pending /\ ~ReplanAnswered /\ ~ReplanQueued /\ ~ReplanHeld
          BY <3>2, <4>1 DEF JobInv, OneJob, JobQueued, ReplanQueued, ReplanHeld, HasKind
        <4> QED
          BY <4>2 DEF JobInv, ConfirmGate
      <3> QED
        BY <2>1, <3>1, <3>2, ToldLeavesNoDecode
    <2> HIDE DEF u
    <2>6. CASE OnPreview(u)
      BY <2>4, <2>6 DEF OnPreview, Awaited, Show, Confirm, ScreenStep
    <2>7. CASE OnReplan(u)
      BY <2>4, <2>7 DEF OnReplan, Awaited, Show, Confirm, ScreenStep
    <2>8. CASE OnStarted(u) \/ OnProgress(u) \/ OnFinished(u)
      BY <2>5, <2>8 DEF OnStarted, OnProgress, OnFinished, Show, Running, Menu, ScreenStep
    <2> QED
      BY <1>1, <2>3, <2>6, <2>7, <2>8 DEF OnDevice
  <1>4. CASE ~OnKey /\ ~OnUpdate
    BY <1>1, <1>4 DEF Next, Interface, AppNext, CheckQuit, GiveUpWaiting, WorkerStep,
                      DiscoveryStep, Replug, Exited, vars, appVars
  <1> QED
    BY <1>2, <1>3, <1>4

(***************************************************************************)
(* No decode opens a confirm screen the user has turned away from, however *)
(* late its answer comes.                                                  *)
(***************************************************************************)
THEOREM OpensFromBrowser == Spec => ConfirmOpensFromBrowser
  <1>1. [ScreenStep]_vars => [~On("Confirm") /\ On("Confirm")' => On("Browse")]_vars
    BY DEF ScreenStep
  <1> QED
    BY <1>1, DecodeSafe, ScreenStepHolds, PTL DEF Spec, ConfirmOpensFromBrowser

\* No answer takes a confirm screen away: only its user leaves it.
THEOREM LeftByKey == Spec => ConfirmLeftByKey
  <1>1. [ScreenStep]_vars => [On("Confirm") /\ ~On("Confirm")' => ui = "key"]_vars
    BY DEF ScreenStep
  <1> QED
    BY <1>1, DecodeSafe, ScreenStepHolds, PTL DEF Spec, ConfirmLeftByKey

\* What a replan brings back is what is on the screen, under the other placement.
THEOREM ReplanKeepsThem == Spec => ReplanKeepsChoices
  <1>1. [ScreenStep]_vars =>
           [On("Confirm") /\ On("Confirm")' /\ ui = "drain" /\ screen' # screen
              => screen'.pending = Toggled(screen.pending)]_vars
    BY DEF ScreenStep
  <1> QED
    BY <1>1, DecodeSafe, ScreenStepHolds, PTL DEF Spec, ReplanKeepsChoices

--------------------------------------------------------------------------------
(***************************************************************************)
(* The job slot.  Every step of the threads is a step of JobSlot or leaves *)
(* the slot alone.                                                         *)
(***************************************************************************)
LEMMA SlotIs ==
    ASSUME JobInv
    PROVE  /\ ~job_pending => slot = "free"
           /\ JobQueued => slot = "queued"
           /\ JobHeld => slot = "running"
           /\ JobAnswered => slot = "answered"
           /\ job_pending \in BOOLEAN /\ (job_pending => JobQueued \/ JobHeld \/ JobAnswered)
  BY Facts DEF slot, JobInv, OneJob

LEMMA SlotKey ==
    ASSUME JobInv, JobInv', OnKey, UNCHANGED <<workerVars, discoveryVars>>
    PROVE  slot' = slot \/ (slot = "free" /\ slot' = "queued")
  <1>1. JobHeld' = JobHeld
    BY DEF OnKey, workerVars, JobHeld
  <1>2. CASE UNCHANGED <<jobs, job_pending>>
    BY <1>1, <1>2 DEF slot, JobQueued
  <1>3. CASE ~job_pending /\ \E j : Submit(j)
    <2>1. slot = "free" /\ job_pending' /\ ~JobHeld
      BY <1>3, SlotIs DEF Submit, JobInv, OneJob
    <2>2. jobs' # <<>>
      <3>1. PICK j : jobs' = Append(jobs, j)
        BY <1>3 DEF Submit
      <3> QED
        BY <3>1, Facts
    <2> QED
      BY <2>1, <2>2 DEF slot, JobQueued
  <1>4. ConfirmPlacement => ~job_pending
    BY DEF ConfirmPlacement, JobInv, ConfirmGate
  <1> QED
    BY <1>2, <1>3, <1>4
       DEF OnKey, PromptYesRunning, PromptYesFinished, PromptNo, ScreenKey, MenuQuit, MenuCommand,
           OpenBrowser, BrowseLeave, BrowsePick, ConfirmLeave, ConfirmEdit, ConfirmPlacement,
           ConfirmUpload, RunningCancel, RunningQuit, NoKey, gateVars

LEMMA SlotUpdate ==
    ASSUME JobInv, JobInv', OnUpdate, UNCHANGED <<workerVars, discoveryVars>>
    PROVE  slot' = slot \/ (slot = "answered" /\ slot' = "free")
  <1> DEFINE u == Head(updates)
  <1>1. JobHeld' = JobHeld /\ UNCHANGED jobs
    BY DEF OnUpdate, workerVars, JobHeld
  <1>2. \/ OnDevice(u) \/ OnPreview(u) \/ OnReplan(u)
        \/ OnStarted(u) \/ OnProgress(u) \/ OnFinished(u)
    BY DEF OnUpdate
  <1>3. CASE u.kind \in AnswerKinds
    <2>1. JobAnswered
      BY <1>3, ReadOne DEF JobInv, TypeOK, ChannelsTypeOK, OneJob, OnUpdate
    <2>2. ~job_pending'
      BY <1>2, <1>3 DEF OnDevice, OnPreview, OnReplan, OnStarted, OnProgress, OnFinished,
                        AnswerKinds
    <2> QED
      BY <2>1, <2>2, SlotIs DEF slot
  <1>4. CASE u.kind \notin AnswerKinds
    <2>1. UNCHANGED job_pending
      BY <1>2, <1>4 DEF OnDevice, OnPreview, OnReplan, OnStarted, OnProgress, OnFinished,
                        AnswerKinds, gateVars
    <2> QED
      BY <1>1, <2>1 DEF slot, JobQueued
  <1> QED
    BY <1>3, <1>4

LEMMA SlotWorker ==
    ASSUME JobInv, JobInv', WorkerNext, UNCHANGED <<appVars, discoveryVars>>
    PROVE  \/ slot' = slot \/ (slot = "queued" /\ slot' = "running")
           \/ slot = "running" /\ slot' = "answered"
  <1>1. UNCHANGED job_pending
    BY DEF appVars, gateVars
  <1> USE DEF Step
  <1>2. CASE Take
    <2>1. JobQueued /\ worker = "idle" /\ worker' = "taken"
      BY <1>2 DEF Take, JobQueued
    <2>2. JobHeld' /\ slot = "queued" /\ job_pending'
      BY <1>1, <2>1, SlotIs DEF JobHeld, JobInv, OneJob
    <2>3. ~JobQueued'
      BY <2>2 DEF JobInv, OneJob
    <2> QED
      BY <2>2, <2>3 DEF slot
  <1>3. CASE Decode \/ Answer
    <2>1. JobHeld /\ ~JobHeld' /\ UNCHANGED jobs
      BY <1>3, Facts DEF Decode, Answer, Rest, JobHeld, WorkerShape
    <2>2. slot = "running" /\ job_pending /\ ~JobQueued
      BY <2>1, SlotIs DEF JobInv, OneJob
    <2> QED
      BY <1>1, <2>1, <2>2 DEF slot, JobQueued
  <1>4. CASE SetBusy \/ Reencode \/ Open \/ OpenFails \/ Start \/ Continue \/ Cancelled
             \/ Report \/ ReportFails \/ LostFlag \/ LostUpdate \/ Panic \/ Release
    <2>1. UNCHANGED jobs /\ (JobHeld' <=> JobHeld)
      BY <1>4, Facts
         DEF SetBusy, FirstStep, Reencode, Open, OpenFails, Start, Continue, Cancelled, Report,
             ReportFails, LostFlag, LostUpdate, Panic, Release, Rest, channels, JobHeld,
             WorkerShape
    <2> QED
      BY <1>1, <2>1 DEF slot, JobQueued
  <1> QED
    BY <1>2, <1>3, <1>4 DEF WorkerNext

LEMMA SlotStep ==
    ASSUME JobInv, JobInv', [Next]_vars
    PROVE  [Slot!Next]_(Slot!slotVars)
  <1> USE DEF Slot!Next, Slot!slotVars, Slot!Turn, Slot!HandOver, Slot!Take, Slot!Answer,
              Slot!Collect, Slot!End
  <1>1. ASSUME ui # "exited", UNCHANGED slot PROVE [Slot!Next]_(Slot!slotVars)
    BY <1>1
  <1>2. ASSUME UNCHANGED <<jobs, job_pending, worker, outcome>> PROVE UNCHANGED slot
    BY <1>2 DEF slot, JobQueued, JobHeld
  <1>3. CASE Interface
    <2>1. CASE OnKey
      <3>1. ui # "exited" /\ ui' # "exited"
        BY <2>1 DEF OnKey
      <3> QED
        BY <1>3, <2>1, <3>1, SlotKey DEF Interface
    <2>2. CASE OnUpdate
      <3>1. ui # "exited" /\ ui' # "exited"
        BY <2>2 DEF OnUpdate, loopVars
      <3> QED
        BY <1>3, <2>2, <3>1, SlotUpdate DEF Interface
    <2>3. CASE CheckQuit \/ GiveUpWaiting
      <3>1. ui # "exited" /\ UNCHANGED <<jobs, job_pending, worker, outcome>>
        BY <1>3, <2>3 DEF Interface, CheckQuit, GiveUpWaiting, channels, gateVars, workerVars
      <3> QED
        BY <1>1, <1>2, <3>1
    <2> QED
      BY <1>3, <2>1, <2>2, <2>3 DEF Interface, AppNext
  <1>4. CASE WorkerStep
    <2>1. ui # "exited" /\ ui' # "exited"
      BY <1>4 DEF WorkerStep, appVars, loopVars
    <2> QED
      BY <1>4, <2>1, SlotWorker DEF WorkerStep
  <1>5. CASE DiscoveryStep \/ Replug
    <2>1. ui # "exited" /\ UNCHANGED <<jobs, job_pending, worker, outcome>>
      BY <1>5 DEF DiscoveryStep, DiscoveryNext, Wake, LoadBusy, LoadReady, FindDevice,
                  OpenAndDrain, StoreReady, Tell, Replug, channels, appVars, gateVars, workerVars
    <2> QED
      BY <1>1, <1>2, <2>1
  <1>6. CASE UNCHANGED vars
    BY <1>2, <1>6 DEF vars, channels, appVars, gateVars, loopVars, workerVars
  <1> QED
    BY <1>3, <1>4, <1>5, <1>6 DEF Next, Exited

LEMMA SlotInit == Init => Slot!Init
  BY DEF Init, AppInit, Slot!Init, slot

(***************************************************************************)
(* The safety half of ImplementsJobSlot: whatever the interleaving, a job  *)
(* is handed over, taken, answered and collected, in that order.           *)
(***************************************************************************)
THEOREM JobSlotSafety == Spec => Slot!Spec
  <1>1. JobInv /\ JobInv' /\ [Next]_vars => [Slot!Next]_(Slot!slotVars)
    BY SlotStep
  <1> QED
    BY <1>1, SlotInit, JobInvariant, PTL DEF Spec, Slot!Spec
================================================================================
