----------------------------- MODULE ProgramProofs -----------------------------
(***************************************************************************)
(* Proofs about Program: the terminal for any depth of alternate screens,  *)
(* anything it may refuse and any number of panics; the command line for   *)
(* any requests, any buses and any number of reports.                      *)
(***************************************************************************)
EXTENDS Program, FiniteSetTheorems, TLAPS

USE TerminalAssumption DEF TerminalAssumption

--------------------------------------------------------------------------------
(***************************************************************************)
(* The terminal.  It is the user's, the interface's, or on its way back,   *)
(* and where the drawing thread is tells which.                            *)
(***************************************************************************)
Users == ~raw /\ alt = Before /\ ~stuck

Ours == raw /\ alt = Before + 1 /\ ~stuck

\* Left behind only if the terminal refused to let go.
AltIsOver == alt = Before \/ (stuck /\ alt = Before + 1)

GivenBack == ~raw /\ AltIsOver

HeldOrGivenBack == (~restored /\ Ours) \/ (restored /\ GivenBack)

TerminalInv ==
    /\ ui \in {"absent", "start"} => Users /\ ~restored
    /\ ui = "raw" => raw /\ alt = Before /\ ~stuck /\ ~restored
    /\ ui \in {"guarded", "draw", "key"} => Ours /\ ~restored
    /\ ui = "hook" => HeldOrGivenBack
    /\ ui = "swap" => HeldOrGivenBack /\ then \in {"report", "main"} /\ (then = "main" => restored)
    /\ ui \in {"leave", "cook"} => restored /\ raw /\ then = "report"
    /\ ui = "leave" => Ours
    /\ ui = "cook" => AltIsOver
    /\ ui \in {"report", "drop"} => restored /\ GivenBack
    /\ ui \in {"main", "dead"} => GivenBack
    /\ Running \/ ui \in {"absent", "dead"}
    /\ LastWordsAreReadable

LEMMA TerminalProperties ==
    ASSUME TerminalTypeOK, TerminalInv
    PROVE  DrawsOnItsOwnScreen /\ LeftAsFound /\ LastWordsAreReadable
  BY DEF TerminalTypeOK, TerminalInv, UiStates, Users, Ours, AltIsOver, GivenBack,
         HeldOrGivenBack, DrawsOnItsOwnScreen, LeftAsFound, Running

LEMMA TerminalInitInv ==
    ASSUME NEW here \in BOOLEAN, TerminalInit(here), status = None
    PROVE  TerminalTypeOK /\ TerminalInv
  <1>1. /\ ui \in {"absent", "start"} /\ then = "dead" /\ (ui = "start" => here)
        /\ result = "none" /\ raw = FALSE /\ alt = Before /\ stuck = FALSE
        /\ restored = FALSE /\ said = {}
        /\ worker = "absent" /\ panics = 0
    BY DEF TerminalInit
  <1>2. TerminalTypeOK
    <2>1. said \in SUBSET Words
      BY <1>1
    <2>2. panics \in 0..MaxPanics
      BY <1>1
    <2>3. /\ ui \in UiStates /\ then \in UiStates /\ result \in Results
          /\ worker \in {"absent", "idle", "job", "hook", "say"}
      BY <1>1 DEF UiStates, Results
    <2> QED
      BY <1>1, <2>1, <2>2, <2>3 DEF TerminalTypeOK
  <1> QED
    BY <1>1, <1>2 DEF TerminalInv, Users, Running, LastWordsAreReadable

\* Saying something where it can be read.
LEMMA Says ==
    ASSUME NEW who \in {"interface", "worker", "command"}, TerminalTypeOK, Say(who),
           LastWordsAreReadable, UNCHANGED stuck,
           who = "interface" => GivenBack
    PROVE  said' \in SUBSET Words /\ LastWordsAreReadable'
  BY DEF Say, TerminalTypeOK, Words, LastWordsAreReadable, GivenBack, AltIsOver

LEMMA InterfaceInv ==
    ASSUME TerminalTypeOK, TerminalInv, InterfaceNext
    PROVE  TerminalTypeOK' /\ TerminalInv'
  <1> USE DEF TerminalTypeOK, TerminalInv, Step, UiStates, Results, Users, Ours, AltIsOver,
          GivenBack, HeldOrGivenBack, Running, LastWordsAreReadable, workerVars, modeVars
  <1>1. CASE EnableRaw
    BY <1>1 DEF EnableRaw
  <1>2. CASE EnableRawFails
    BY <1>2 DEF EnableRawFails
  <1>3. CASE EnterAlt
    BY <1>3 DEF EnterAlt
  <1>4. CASE EnterAltFails
    BY <1>4 DEF EnterAltFails
  <1>5. CASE InstallPanicHook
    BY <1>5 DEF InstallPanicHook
  <1>6. CASE Draw \/ WaitForKey
    BY <1>6 DEF Draw, WaitForKey
  <1>7. CASE LoopEnds
    BY <1>7 DEF LoopEnds
  <1>8. CASE InterfacePanics
    BY <1>8 DEF InterfacePanics
  <1>9. CASE Swap
    BY <1>9 DEF Swap
  <1>10. CASE LeaveAlternateScreen
    <2>1. Ours /\ restored /\ then = "report" /\ ui' = "cook" /\ status = None
      BY <1>10 DEF LeaveAlternateScreen
    <2>2. UNCHANGED <<then, result, restored, raw, worker, panics, said, status>>
      BY <1>10 DEF LeaveAlternateScreen
    <2>3. \/ alt' = Before /\ UNCHANGED stuck
          \/ stuck' = TRUE /\ alt' = Before + 1
      BY <1>10, <2>1 DEF LeaveAlternateScreen, LeaveAlt
    <2> QED
      BY <2>1, <2>2, <2>3
  <1>11. CASE LeaveRawMode
    BY <1>11 DEF LeaveRawMode
  <1>12. CASE HookOnInterface
    BY <1>12 DEF HookOnInterface, OwnsTheTerminal
  <1>13. CASE Report
    BY <1>13, Says DEF Report
  <1>14. CASE DropGuard
    BY <1>14 DEF DropGuard
  <1>15. CASE Leave
    BY <1>15, Says DEF Leave, Exit
  <1> QED
    BY <1>1, <1>2, <1>3, <1>4, <1>5, <1>6, <1>7, <1>8, <1>9, <1>10, <1>11, <1>12, <1>13,
       <1>14, <1>15 DEF InterfaceNext

\* A panic of a job is nothing to the terminal.
LEMMA WorkerInv ==
    ASSUME TerminalTypeOK, TerminalInv, WorkerNext
    PROVE  TerminalTypeOK' /\ TerminalInv'
  <1> USE DEF TerminalTypeOK, TerminalInv, WorkerMoves, Users, Ours, AltIsOver,
          GivenBack, HeldOrGivenBack, Running, modeVars
  <1>1. CASE TakeJob \/ JobEnds \/ JobPanics
    BY <1>1 DEF TakeJob, JobEnds, JobPanics, LastWordsAreReadable
  <1>2. CASE HookOnWorker
    BY <1>2 DEF HookOnWorker, OwnsTheTerminal, LastWordsAreReadable
  <1>3. CASE PanicIsCaught
    BY <1>3, Says DEF PanicIsCaught
  <1> QED
    BY <1>1, <1>2, <1>3 DEF WorkerNext

--------------------------------------------------------------------------------
(***************************************************************************)
(* The command line.  What is known of the request, the node, the reports  *)
(* and the error at each step of a command.                                *)
(***************************************************************************)
BeforeFinding == {"absent", "parse", "plan", "notes", "find"}
Connected == {"drain", "snapshot", "send", "await", "sent"}

Untouched == opened = NoNode /\ written = 0 /\ confirmed = 0 /\ clock = NoClock

Suited ==
    Parses(request) /\ (request.command \in Uploads => request.file = "good" /\ ~request.dryRun)

RequestInv ==
    /\ at \in {"plan", "notes", "open"} \cup Connected \cup {"find"} => Parses(request)
    /\ at \in {"plan", "notes"} => request.command \in Uploads
    /\ at = "notes" => request.file = "good"
    /\ at \in {"find", "open"} \cup Connected => Suited
    /\ opened # NoNode => Suited

NodeInv ==
    /\ at \in BeforeFinding => path = None /\ ~moved
    /\ at = "open" => path \in Names /\ (moved \/ Matches(bus.nodes[path]))
    /\ at \in BeforeFinding \cup {"open"} => Untouched
    /\ at \in Connected => opened # NoNode
    /\ opened # NoNode => path \in Names
    /\ OnlyTheConfigChannel

ReportsInv ==
    /\ at \in {"drain", "snapshot"} => written = 0 /\ confirmed = 0
    /\ at = "send" => written = confirmed /\ confirmed < Reports
    /\ at = "await" => written = confirmed + 1
    /\ at = "sent" => written = Reports /\ confirmed = Reports
    /\ at = "failed" => confirmed < Reports

ErrorInv ==
    /\ at \notin {"failed", "over"} => failure = NoError /\ claimed = {}
    /\ at = "failed" => failure # NoError /\ claimed \subseteq {"not contacted"}
    /\ at = "over" =>
          \/ /\ status = 0 /\ failure = NoError /\ claimed = {"not contacted"}
             /\ opened = NoNode /\ confirmed = 0
          \/ /\ status = 0 /\ failure = NoError /\ claimed = {"sent"}
             /\ opened # NoNode /\ confirmed = Reports
          \/ /\ status \in {1, 2} /\ failure # NoError /\ claimed \subseteq {"not contacted"}
             /\ confirmed < Reports
    /\ "not contacted" \in claimed => opened = NoNode
    /\ HalfDoneIsAdmitted

ClockInv ==
    /\ at \in BeforeFinding \cup {"open", "drain"} => clock = NoClock
    /\ ClockHasShownIt

CommandInv == RequestInv /\ NodeInv /\ ReportsInv /\ ErrorInv /\ ClockInv

LEMMA HoursInNat == Hours \in Nat
  <1>1. DayLength \in Nat /\ Midnights \in Nat
    BY CommandLineAssumption DEF CommandLineAssumption
  <1> QED
    BY <1>1 DEF Hours

LEMMA Distinct == ~(0 > 0) /\ 1 # 0 /\ 2 # 0
  OBVIOUS

LEMMA Numbers ==
    ASSUME CommandTypeOK
    PROVE  /\ now \in Nat /\ readySince \in Nat /\ readySince <= now /\ now <= Hours
           /\ written \in Nat /\ confirmed \in Nat /\ confirmed <= written
           /\ written <= confirmed + 1 /\ written <= Reports /\ Reports \in Nat /\ Reports > 0
  <1>1. Reports \in Nat /\ Reports > 0
    BY CommandLineAssumption DEF CommandLineAssumption
  <1>2. now \in 0..Hours /\ readySince \in 0..now
    BY DEF CommandTypeOK
  <1>3. written \in 0..Reports /\ confirmed \in 0..written /\ written <= confirmed + 1
    BY DEF CommandTypeOK
  <1> QED
    BY <1>1, <1>2, <1>3, HoursInNat

LEMMA BusIsListed ==
    ASSUME CommandTypeOK, NEW name \in Names
    PROVE  /\ DOMAIN bus.nodes = Names
           /\ bus.nodes[name] \in NodeType \cup {NoNode}
  <1>1. bus \in BusType
    BY CommandLineAssumption DEF CommandTypeOK, CommandLineAssumption
  <1> QED
    BY <1>1 DEF BusType

\* What was found is what matched, by a name that is in the listing.
LEMMA FoundMatches ==
    ASSUME CommandTypeOK, FindDevice
    PROVE  path' \in Names /\ Matches(bus.nodes[path'])
  <1>1. Candidates # {}
    BY FS_EmptySet DEF FindDevice
  <1>2. path' \in Candidates
    BY <1>1 DEF FindDevice
  <1>3. bus \in BusType
    BY CommandLineAssumption DEF CommandTypeOK, CommandLineAssumption
  <1> QED
    BY <1>2, <1>3 DEF Candidates, BusType

LEMMA CommandProperties ==
    ASSUME CommandTypeOK, CommandInv
    PROVE  HalfDoneIsAdmitted /\ StatusIsTrue /\ OnlyTheConfigChannel /\ ClockHasShownIt
  <1>0. ~(Reports < Reports) /\ Reports # 0
    BY Numbers
  <1> USE DEF CommandInv, ErrorInv, NodeInv, ClockInv
  <1>1. ASSUME at = "over"
        PROVE  /\ status = 0 <=>
                     confirmed = Reports \/ ("not contacted" \in claimed /\ failure = NoError)
               /\ "sent" \in claimed <=> confirmed = Reports
               /\ status # 0 <=> failure # NoError
    <2>2. CASE status = 0 /\ claimed = {"not contacted"} /\ failure = NoError /\ confirmed = 0
      BY <1>0, <2>2
    <2>3. CASE status = 0 /\ claimed = {"sent"} /\ failure = NoError /\ confirmed = Reports
      BY <2>3
    <2>4. CASE status \in {1, 2} /\ failure # NoError /\ claimed \subseteq {"not contacted"}
               /\ confirmed < Reports
      <3>1. status # 0 /\ "sent" \notin claimed
        <4>1. status \in {1, 2} /\ claimed \subseteq {"not contacted"}
          BY <2>4
        <4>2. status # 0
          BY <4>1, Distinct, Zenon
        <4>3. "sent" \notin claimed
          BY <4>1
        <4> QED
          BY <4>2, <4>3
      <3>2. confirmed # Reports
        BY <2>4, <1>0
      <3> QED
        BY <2>4, <3>1, <3>2
    <2> QED
      BY <1>1, <2>2, <2>3, <2>4
  <1>2. "not contacted" \in claimed => opened = NoNode /\ at \in {"failed", "over"}
    OBVIOUS
  <1>3. opened # NoNode =>
          /\ Parses(request)
          /\ request.command \in Uploads => request.file = "good" /\ ~request.dryRun
    BY DEF RequestInv, Suited
  <1>4. StatusIsTrue
    BY <1>1, <1>2, <1>3 DEF StatusIsTrue
  <1> QED
    BY <1>4

LEMMA CommandInitInv ==
    ASSUME NEW here \in BOOLEAN, CommandInit(here), status = None
    PROVE  CommandTypeOK /\ CommandInv
  <1>1. request \in Requests /\ bus \in Buses
    BY CommandLineAssumption DEF CommandInit, CommandLineAssumption
  <1>2. /\ at \in {"absent", "parse"} /\ path = None /\ moved = FALSE /\ gone = FALSE
        /\ opened = NoNode /\ now = 0 /\ readySince = 0 /\ clock = NoClock
        /\ written = 0 /\ confirmed = 0 /\ failure = NoError /\ claimed = {}
    BY DEF CommandInit
  <1>3. now \in 0..Hours /\ readySince \in 0..now
    BY <1>2, HoursInNat
  <1>4. written \in 0..Reports /\ confirmed \in 0..written /\ written <= confirmed + 1
    BY <1>2, CommandLineAssumption DEF CommandLineAssumption
  <1>5. failure.kind = "none"
    BY <1>2 DEF NoError, Error
  <1>6. CommandTypeOK
    BY <1>1, <1>2, <1>3, <1>4, <1>5 DEF CommandTypeOK, Phases
  <1> QED
    BY <1>2, <1>6
       DEF CommandInv, RequestInv, NodeInv, ReportsInv, ErrorInv, ClockInv, BeforeFinding,
           Connected, Untouched, OnlyTheConfigChannel, HalfDoneIsAdmitted, ClockHasShownIt

--------------------------------------------------------------------------------
(***************************************************************************)
(* Every step of a command, one part of the invariant at a time.           *)
(***************************************************************************)
\* What a step may do to the clock,
LEMMA TimeMoves ==
    ASSUME CommandNext
    PROVE  \/ UNCHANGED <<now, readySince, clock>>
           \/ at = "drain" /\ readySince' = now /\ UNCHANGED <<now, clock>>
           \/ at = "snapshot" /\ clock' = Fields(now) /\ UNCHANGED <<now, readySince>>
           \/ now < Hours /\ now' = now + 1 /\ UNCHANGED <<at, readySince, clock>>
  BY DEF Parse, UsageError, Plan, PlanFails, DryRun, NotDry, FindDevice, FindFails, Open,
         OpenFails, Drain, DrainFails, Snapshot, WriteReport, Acknowledged, SendFails, Finish,
         Replug, Tick, CommandNext, Go, Fail, busVars, timeVars, sendVars

\* to the reports,
LEMMA ReportsMove ==
    ASSUME CommandNext
    PROVE  \/ UNCHANGED <<written, confirmed>>
           \/ at = "send" /\ written < Reports /\ at' = "await"
              /\ written' = written + 1 /\ UNCHANGED confirmed
           \/ at = "await" /\ at' = (IF written = Reports THEN "sent" ELSE "send")
              /\ confirmed' = written /\ UNCHANGED written
  BY DEF Parse, UsageError, Plan, PlanFails, DryRun, NotDry, FindDevice, FindFails, Open,
         OpenFails, Drain, DrainFails, Snapshot, WriteReport, Acknowledged, SendFails, Finish,
         Replug, Tick, CommandNext, Go, Fail, busVars, timeVars, sendVars

\* and to the error.
LEMMA FailureMoves ==
    ASSUME CommandNext
    PROVE  \/ UNCHANGED failure
           \/ /\ at' = "failed"
              /\ at \in {"parse", "plan", "find", "open"}
              /\ \E k \in {"usage", "media", "no device", "many", "denied", "io"} :
                    failure' = Error(k)
           \/ at' = "failed" /\ at = "drain" /\ failure' = WithReconnectHint(Error("io"))
           \/ /\ at' = "failed" /\ at \in {"send", "await"}
              /\ failure' = IF request.command \in Uploads
                            THEN WithNote(WithReconnectHint(Error("io")))
                            ELSE WithReconnectHint(Error("io"))
  BY DEF Parse, UsageError, Plan, PlanFails, DryRun, NotDry, FindDevice, FindFails, Open,
         OpenFails, Drain, DrainFails, Snapshot, WriteReport, Acknowledged, SendFails, Finish,
         Replug, Tick, CommandNext, Go, Fail, busVars, timeVars, sendVars

Hinted == WithReconnectHint(Error("io"))

LEMMA ErrorFields ==
    ASSUME NEW k
    PROVE  /\ Error(k).hint = FALSE /\ Error(k).note = FALSE
           /\ k # "none" => Error(k) # NoError
  <1>1. Error(k).kind = k /\ NoError.kind = "none"
    BY DEF Error, NoError
  <1> QED
    BY <1>1 DEF Error

LEMMA HintedFields ==
    /\ Hinted.hint = TRUE /\ Hinted.note = FALSE /\ Hinted # NoError
    /\ WithNote(Hinted).hint = TRUE /\ WithNote(Hinted).note = TRUE /\ WithNote(Hinted) # NoError
  <1>1. /\ Hinted = [kind |-> "io", hint |-> TRUE, note |-> FALSE]
        /\ WithNote(Hinted) = [kind |-> "io", hint |-> TRUE, note |-> TRUE]
    BY DEF Hinted, Error, WithReconnectHint, WithNote
  <1>2. NoError.kind = "none"
    BY DEF Error, NoError
  <1> QED
    BY <1>1, <1>2

LEMMA FailsEarly ==
    ASSUME opened = NoNode, written = 0, claimed' \subseteq {"not contacted"}, at' = "failed",
           NEW k, k # "none", failure' = Error(k), UNCHANGED <<opened, written>>
    PROVE  ErrorInv'
  <1>1. /\ failure' # NoError /\ failure'.note = FALSE /\ failure'.hint = FALSE
        /\ opened' = NoNode /\ written' = 0
    BY ErrorFields
  <1>3. HalfDoneIsAdmitted'
    BY <1>1, Distinct, Zenon DEF HalfDoneIsAdmitted
  <1> QED
    BY <1>1, <1>3 DEF ErrorInv

LEMMA CommandTypeStep ==
    ASSUME CommandTypeOK, CommandInv, CommandNext
    PROVE  CommandTypeOK'
  <1>1. at' \in Phases
    BY DEF CommandTypeOK, Phases, Uploads, FirstPhase, Parse, UsageError, Plan, PlanFails, DryRun, NotDry, FindDevice, FindFails, Open,
         OpenFails, Drain, DrainFails, Snapshot, WriteReport, Acknowledged, SendFails, Finish,
         Replug, Tick, CommandNext, Go, Fail, busVars, timeVars, sendVars
  <1>2. request' \in Requests /\ bus' \in Buses
    BY DEF CommandTypeOK, Parse, UsageError, Plan, PlanFails, DryRun, NotDry, FindDevice, FindFails, Open,
         OpenFails, Drain, DrainFails, Snapshot, WriteReport, Acknowledged, SendFails, Finish,
         Replug, Tick, CommandNext, Go, Fail, busVars, timeVars, sendVars
  <1>3. path' \in Names \cup {None}
    BY FoundMatches DEF CommandTypeOK, Parse, UsageError, Plan, PlanFails, DryRun, NotDry, FindDevice, FindFails, Open,
         OpenFails, Drain, DrainFails, Snapshot, WriteReport, Acknowledged, SendFails, Finish,
         Replug, Tick, CommandNext, Go, Fail, busVars, timeVars, sendVars
  <1>4. moved' \in BOOLEAN
    BY DEF CommandTypeOK, Parse, UsageError, Plan, PlanFails, DryRun, NotDry, FindDevice, FindFails, Open,
         OpenFails, Drain, DrainFails, Snapshot, WriteReport, Acknowledged, SendFails, Finish,
         Replug, Tick, CommandNext, Go, Fail, busVars, timeVars, sendVars
  <1>5. gone' \in BOOLEAN
    BY DEF CommandTypeOK, Parse, UsageError, Plan, PlanFails, DryRun, NotDry, FindDevice, FindFails, Open,
         OpenFails, Drain, DrainFails, Snapshot, WriteReport, Acknowledged, SendFails, Finish,
         Replug, Tick, CommandNext, Go, Fail, busVars, timeVars, sendVars
  <1>6. opened' \in NodeType \cup {NoNode}
    <2>1. CASE Open
      BY <2>1, BusIsListed DEF CommandInv, NodeInv, Open, Go
    <2>2. CASE ~Open
      BY <2>2 DEF CommandTypeOK, Parse, UsageError, Plan, PlanFails, DryRun, NotDry, FindDevice, FindFails, Open,
         OpenFails, Drain, DrainFails, Snapshot, WriteReport, Acknowledged, SendFails, Finish,
         Replug, Tick, CommandNext, Go, Fail, busVars, timeVars, sendVars
    <2> QED
      BY <2>1, <2>2
  <1>7. now' \in 0..Hours /\ readySince' \in 0..now'
    BY TimeMoves, Numbers, HoursInNat
  <1>8. written' \in 0..Reports /\ confirmed' \in 0..written' /\ written' <= confirmed' + 1
    BY ReportsMove, Numbers DEF CommandInv, ReportsInv
  <1>9. failure'.kind \in {"none", "usage", "media", "no device", "many", "denied", "io"}
    <2>1. CASE UNCHANGED failure
      BY <2>1 DEF CommandTypeOK
    <2>2. ASSUME NEW k \in {"usage", "media", "no device", "many", "denied", "io"},
                 failure' = Error(k)
          PROVE  failure'.kind = k
      BY <2>2 DEF Error
    <2>3. CASE failure' \in {WithReconnectHint(Error("io")),
                             WithNote(WithReconnectHint(Error("io")))}
      BY <2>3 DEF Error, WithReconnectHint, WithNote
    <2> QED
      BY <2>1, <2>2, <2>3, FailureMoves
  <1>10. claimed' \subseteq {"not contacted", "sent"}
    BY DEF CommandTypeOK, Parse, UsageError, Plan, PlanFails, DryRun, NotDry, FindDevice, FindFails, Open,
         OpenFails, Drain, DrainFails, Snapshot, WriteReport, Acknowledged, SendFails, Finish,
         Replug, Tick, CommandNext, Go, Fail, busVars, timeVars, sendVars
  <1> QED
    BY <1>1, <1>2, <1>3, <1>4, <1>5, <1>6, <1>7, <1>8, <1>9, <1>10 DEF CommandTypeOK

LEMMA RequestStep ==
    ASSUME CommandTypeOK, RequestInv, NodeInv, CommandNext
    PROVE  RequestInv'
  <1>1. request' = request
    BY DEF Parse, UsageError, Plan, PlanFails, DryRun, NotDry, FindDevice, FindFails, Open,
         OpenFails, Drain, DrainFails, Snapshot, WriteReport, Acknowledged, SendFails, Finish,
         Replug, Tick, CommandNext, Go, Fail, busVars, timeVars, sendVars
  <1> QED
    BY <1>1 DEF RequestInv, NodeInv, Suited, BeforeFinding, Connected, Untouched, FirstPhase, Parse, UsageError, Plan, PlanFails, DryRun, NotDry, FindDevice, FindFails, Open,
         OpenFails, Drain, DrainFails, Snapshot, WriteReport, Acknowledged, SendFails, Finish,
         Replug, Tick, CommandNext, Go, Fail, busVars, timeVars, sendVars

LEMMA NodeStep ==
    ASSUME CommandTypeOK, NodeInv, CommandNext
    PROVE  NodeInv'
  <1> USE DEF NodeInv, BeforeFinding, Connected, Untouched, OnlyTheConfigChannel
  <1>1. CASE FindDevice
    BY <1>1, FoundMatches DEF FindDevice, Go, timeVars, sendVars
  <1>2. CASE Open
    BY <1>2 DEF Open, Go, There, Matches, timeVars, sendVars
  <1>3. CASE Replug
    BY <1>3, CommandLineAssumption DEF Replug, timeVars, sendVars, CommandLineAssumption
  <1>4. CASE ~FindDevice /\ ~Open /\ ~Replug
    <2>1. UNCHANGED <<bus, path, moved, opened>>
      BY <1>4 DEF Parse, UsageError, Plan, PlanFails, DryRun, NotDry, FindDevice, FindFails, Open,
         OpenFails, Drain, DrainFails, Snapshot, WriteReport, Acknowledged, SendFails, Finish,
         Replug, Tick, CommandNext, Go, Fail, busVars, timeVars, sendVars
    <2>2. /\ at' \in BeforeFinding => at \in BeforeFinding
          /\ at' \in Connected => at \in Connected
          /\ at' = "open" => at = "open"
          /\ at' \in BeforeFinding \cup {"open"} => UNCHANGED <<written, confirmed, clock>>
      BY <1>4 DEF FirstPhase, Parse, UsageError, Plan, PlanFails, DryRun, NotDry, FindDevice, FindFails, Open,
         OpenFails, Drain, DrainFails, Snapshot, WriteReport, Acknowledged, SendFails, Finish,
         Replug, Tick, CommandNext, Go, Fail, busVars, timeVars, sendVars
    <2> QED
      BY <2>1, <2>2 DEF Matches
  <1> QED
    BY <1>1, <1>2, <1>3, <1>4

LEMMA ReportsStep ==
    ASSUME CommandTypeOK, NodeInv, ReportsInv, CommandNext
    PROVE  ReportsInv'
  <1>1. CASE WriteReport
    BY <1>1, Numbers DEF WriteReport, Go, ReportsInv
  <1>2. CASE Acknowledged
    BY <1>2, Numbers DEF Acknowledged, Go, ReportsInv
  <1>3. CASE ~WriteReport /\ ~Acknowledged
    <2>1. UNCHANGED <<written, confirmed>>
      BY <1>3 DEF Parse, UsageError, Plan, PlanFails, DryRun, NotDry, FindDevice, FindFails, Open,
         OpenFails, Drain, DrainFails, Snapshot, WriteReport, Acknowledged, SendFails, Finish,
         Replug, Tick, CommandNext, Go, Fail, busVars, timeVars, sendVars
    <2>2. /\ at' = "drain" => at \in {"open", "drain"}
          /\ at' = "snapshot" => at \in {"drain", "snapshot"}
          /\ at' = "send" => at \in {"drain", "snapshot", "send"}
          /\ at' = "await" => at = "await"
          /\ at' = "sent" => at = "sent"
          /\ at' = "failed" =>
                at \in BeforeFinding \cup {"open", "drain", "send", "await", "failed"}
      BY <1>3 DEF BeforeFinding, FirstPhase, Parse, UsageError, Plan, PlanFails, DryRun, NotDry, FindDevice, FindFails, Open,
         OpenFails, Drain, DrainFails, Snapshot, WriteReport, Acknowledged, SendFails, Finish,
         Replug, Tick, CommandNext, Go, Fail, busVars, timeVars, sendVars
    <2> QED
      BY <2>1, <2>2, Numbers DEF ReportsInv, NodeInv, BeforeFinding, Untouched
  <1> QED
    BY <1>1, <1>2, <1>3

LEMMA ClockStep ==
    ASSUME CommandTypeOK, ClockInv, CommandNext
    PROVE  ClockInv'
  <1>1. at' \in BeforeFinding \cup {"open", "drain"} =>
            at \in BeforeFinding \cup {"open", "drain"} /\ UNCHANGED clock
    BY DEF BeforeFinding, FirstPhase, Parse, UsageError, Plan, PlanFails, DryRun, NotDry, FindDevice, FindFails, Open,
         OpenFails, Drain, DrainFails, Snapshot, WriteReport, Acknowledged, SendFails, Finish,
         Replug, Tick, CommandNext, Go, Fail, busVars, timeVars, sendVars
  <1>2. ClockHasShownIt'
    <2>1. CASE UNCHANGED <<now, readySince, clock>>
      BY <2>1 DEF ClockInv, ClockHasShownIt, Fields
    <2>2. CASE at = "drain" /\ readySince' = now /\ UNCHANGED <<now, clock>>
      BY <2>2 DEF ClockInv, ClockHasShownIt
    <2>3. CASE at = "snapshot" /\ clock' = Fields(now) /\ UNCHANGED <<now, readySince>>
      <3>1. now \in readySince..now
        BY Numbers
      <3> QED
        BY <2>3, <3>1 DEF ClockHasShownIt, Fields
    <2>4. CASE now' = now + 1 /\ UNCHANGED <<at, readySince, clock>>
      <3>1. readySince..now \subseteq readySince..(now + 1)
        BY Numbers
      <3> QED
        BY <2>4, <3>1 DEF ClockInv, ClockHasShownIt, Fields
    <2> QED
      BY <2>1, <2>2, <2>3, <2>4, TimeMoves
  <1> QED
    BY <1>1, <1>2 DEF ClockInv

LEMMA ErrorStep ==
    ASSUME CommandTypeOK, RequestInv, NodeInv, ReportsInv, ErrorInv, CommandNext
    PROVE  ErrorInv'
  <1>1. CASE at' \notin {"failed", "over"}
    <2>1. at \notin {"failed", "over"} /\ UNCHANGED <<failure, claimed>>
      BY <1>1 DEF Parse, UsageError, Plan, PlanFails, DryRun, NotDry, FindDevice, FindFails, Open,
         OpenFails, Drain, DrainFails, Snapshot, WriteReport, Acknowledged, SendFails, Finish,
         Replug, Tick, CommandNext, Go, Fail, busVars, timeVars, sendVars
    <2> QED
      BY <1>1, <2>1 DEF ErrorInv, HalfDoneIsAdmitted
  <1>2. CASE UsageError
    BY <1>2, FailsEarly
       DEF UsageError, Fail, busVars, sendVars, ErrorInv, NodeInv, BeforeFinding, Untouched
  <1>3. CASE PlanFails
    BY <1>3, FailsEarly
       DEF PlanFails, Fail, busVars, sendVars, ErrorInv, NodeInv, BeforeFinding, Untouched
  <1>4. CASE FindFails \/ OpenFails
    <2>1. \E k \in {"io", "no device", "many", "denied"} : failure' = Error(k)
      BY <1>4 DEF FindFails, OpenFails, Fail
    <2>2. /\ at' = "failed" /\ at \in {"find", "open"}
          /\ UNCHANGED <<opened, written, claimed>>
      BY <1>4 DEF FindFails, OpenFails, Fail, busVars, sendVars
    <2> QED
      BY <2>1, <2>2, FailsEarly DEF ErrorInv, NodeInv, BeforeFinding, Untouched
  <1>5. CASE DrainFails
    <2>1. /\ at = "drain" /\ at' = "failed" /\ failure' = Hinted
          /\ UNCHANGED <<opened, written, claimed>>
      BY <1>5 DEF DrainFails, Fail, busVars, sendVars, Hinted
    <2>2. opened # NoNode /\ written = 0 /\ claimed = {}
      BY <2>1 DEF ErrorInv, NodeInv, Connected, ReportsInv
    <2> QED
      BY <2>1, <2>2, HintedFields DEF ErrorInv, HalfDoneIsAdmitted
  <1>6. CASE SendFails
    <2>1. /\ at \in {"send", "await"} /\ at' = "failed"
          /\ failure' = IF request.command \in Uploads THEN WithNote(Hinted) ELSE Hinted
          /\ UNCHANGED <<request, opened, written, claimed>>
      BY <1>6 DEF SendFails, Fail, busVars, sendVars, Hinted
    <2>2. opened # NoNode /\ claimed = {}
      BY <2>1 DEF ErrorInv, NodeInv, Connected
    <2> QED
      BY <2>1, <2>2, HintedFields DEF ErrorInv, HalfDoneIsAdmitted
  <1>7. CASE at' = "failed" /\ at = "failed"
    <2>1. UNCHANGED <<at, request, opened, written, failure, claimed>>
      BY <1>7 DEF Parse, UsageError, Plan, PlanFails, DryRun, NotDry, FindDevice, FindFails, Open,
         OpenFails, Drain, DrainFails, Snapshot, WriteReport, Acknowledged, SendFails, Finish,
         Replug, Tick, CommandNext, Go, Fail, busVars, timeVars, sendVars
    <2> QED
      BY <1>7, <2>1 DEF ErrorInv, HalfDoneIsAdmitted
  <1>8. CASE DryRun
    BY <1>8 DEF DryRun, Go, busVars, sendVars, ErrorInv, NodeInv, BeforeFinding, Untouched,
                HalfDoneIsAdmitted
  <1>9. CASE Finish
    <2>1. CASE at = "sent"
      BY <1>9, <2>1 DEF Finish, busVars, sendVars, ErrorInv, NodeInv, Connected, ReportsInv,
                        HalfDoneIsAdmitted
    <2>2. CASE at = "failed"
      BY <1>9, <2>2 DEF Finish, busVars, sendVars, ErrorInv, ReportsInv, HalfDoneIsAdmitted
    <2> QED
      BY <1>9, <2>1, <2>2 DEF Finish
  <1> QED
    <2>1. CASE \/ Parse \/ Plan \/ NotDry \/ FindDevice \/ Open \/ Drain \/ Snapshot
               \/ WriteReport \/ Acknowledged
      BY <2>1, <1>1 DEF Parse, FirstPhase, Plan, NotDry, FindDevice, Open, Drain, Snapshot,
                        WriteReport, Acknowledged, Go
    <2>2. CASE Replug \/ Tick
      BY <2>2, <1>1, <1>7 DEF Replug, Tick
    <2> QED
      BY <2>1, <2>2, <1>2, <1>3, <1>4, <1>5, <1>6, <1>8, <1>9 DEF CommandNext

LEMMA CommandStepInv ==
    ASSUME CommandTypeOK, CommandInv, CommandNext
    PROVE  CommandTypeOK' /\ CommandInv'
  BY CommandTypeStep, RequestStep, NodeStep, ReportsStep, ClockStep, ErrorStep DEF CommandInv

--------------------------------------------------------------------------------
(***************************************************************************)
(* main: a process is one of the two, so a command's exit status is never  *)
(* mistaken for the interface's.                                           *)
(***************************************************************************)
OneOfTheTwo ==
    /\ mode # "interface" => ui = "absent"
    /\ at # "absent" => mode = "command"

Inv == TypeOK /\ TerminalInv /\ CommandInv /\ OneOfTheTwo

LEMMA InitInv == Init => Inv
  <1> SUFFICES ASSUME Init PROVE Inv
    OBVIOUS
  <1>1. TerminalTypeOK /\ TerminalInv
    BY TerminalInitInv DEF Init
  <1>2. CommandTypeOK /\ CommandInv
    BY CommandInitInv DEF Init
  <1>3. OneOfTheTwo
    BY DEF Init, OneOfTheTwo, TerminalInit, CommandInit
  <1> QED
    BY <1>1, <1>2, <1>3 DEF Inv, TypeOK, Init, StatusOK

LEMMA CommandUnchanged ==
    ASSUME CommandTypeOK, CommandInv, UNCHANGED commandVars, at = "over" => UNCHANGED status
    PROVE  CommandTypeOK' /\ CommandInv'
  <1> USE DEF commandVars, busVars, timeVars, sendVars
  <1>1. CommandTypeOK'
    BY DEF CommandTypeOK
  <1>2. RequestInv' /\ NodeInv' /\ ReportsInv'
    BY DEF CommandInv, RequestInv, NodeInv, ReportsInv, Suited, Untouched, OnlyTheConfigChannel,
           Matches
  <1>3. ErrorInv' /\ ClockInv'
    BY DEF CommandInv, ErrorInv, HalfDoneIsAdmitted, ClockInv, ClockHasShownIt
  <1> QED
    BY <1>1, <1>2, <1>3 DEF CommandInv

LEMMA TerminalUnchanged ==
    ASSUME TerminalTypeOK, TerminalInv, UNCHANGED terminalVars,
           ui = "absent" \/ UNCHANGED status
    PROVE  TerminalTypeOK' /\ TerminalInv'
  BY DEF TerminalTypeOK, TerminalInv, Users, Ours, AltIsOver, GivenBack, HeldOrGivenBack,
         Running, LastWordsAreReadable, terminalVars, interfaceVars, workerVars, modeVars

LEMMA OverIsOver ==
    ASSUME CommandInv, at = "over"
    PROVE  ~Running
  <1>1. status \in {0, 1, 2}
    BY DEF CommandInv, ErrorInv
  <1> QED
    BY <1>1 DEF Running, None

\* The interface moves only while the process runs, and never out of nothing.
LEMMA InterfaceMoves ==
    ASSUME TerminalNext
    PROVE  /\ Running
           /\ ui = "absent" => UNCHANGED ui
           /\ status' \in {None, 0, 1, 101}
  <1>1. CASE WorkerNext
    BY <1>1 DEF WorkerNext, TakeJob, JobEnds, JobPanics, HookOnWorker, PanicIsCaught,
                WorkerMoves, Running
  <1>2. CASE InterfaceNext
    BY <1>2 DEF InterfaceNext, Running, EnableRaw, EnableRawFails, EnterAlt, EnterAltFails, InstallPanicHook,
         Draw, WaitForKey, LoopEnds, InterfacePanics, Swap, LeaveAlternateScreen, LeaveRawMode,
         HookOnInterface, Report, DropGuard, Leave, Step, Exit
  <1> QED
    BY <1>1, <1>2 DEF TerminalNext

LEMMA CommandMoves ==
    ASSUME CommandNext
    PROVE  at # "absent" /\ (UNCHANGED status \/ status' \in {0, 1, 2})
  BY DEF Parse, UsageError, Plan, PlanFails, DryRun, NotDry, FindDevice, FindFails, Open,
         OpenFails, Drain, DrainFails, Snapshot, WriteReport, Acknowledged, SendFails, Finish,
         Replug, Tick, CommandNext, Go, Fail

LEMMA StepInv == Inv /\ [Next]_vars => Inv'
  <1> SUFFICES ASSUME Inv, [Next]_vars PROVE Inv'
    OBVIOUS
  <1> USE DEF Inv, TypeOK
  <1>1. CASE RefuseToDraw
    <2>1. ui = "absent" /\ at = "absent" /\ status' = 2
      BY <1>1 DEF RefuseToDraw, OneOfTheTwo
    <2>2. /\ UNCHANGED <<interfaceVars, workerVars, modeVars, commandVars, mode>>
          /\ Say("command")
      BY <1>1 DEF RefuseToDraw
    <2>3. said' \in SUBSET Words /\ LastWordsAreReadable'
      BY <2>2, Says DEF modeVars, TerminalInv
    <2>4. TerminalTypeOK' /\ TerminalInv'
      BY <2>1, <2>2, <2>3 DEF TerminalTypeOK, TerminalInv, interfaceVars, workerVars, modeVars,
                              Users
    <2>5. CommandTypeOK' /\ CommandInv'
      BY <2>1, <2>2, CommandUnchanged
    <2> QED
      BY <2>1, <2>2, <2>4, <2>5 DEF OneOfTheTwo, StatusOK, interfaceVars, commandVars
  <1>2. CASE Interface
    <2>1. TerminalTypeOK' /\ TerminalInv'
      BY <1>2, InterfaceInv, WorkerInv DEF Interface, TerminalNext
    <2>2. CommandTypeOK' /\ CommandInv'
      BY <1>2, CommandUnchanged, OverIsOver, InterfaceMoves DEF Interface
    <2>3. OneOfTheTwo' /\ StatusOK' /\ mode' \in Modes
      BY <1>2, InterfaceMoves DEF Interface, OneOfTheTwo, StatusOK, commandVars
    <2> QED
      BY <2>1, <2>2, <2>3
  <1>3. CASE Command
    <2>1. CommandTypeOK' /\ CommandInv'
      BY <1>3, CommandStepInv DEF Command
    <2>2. ui = "absent" /\ mode = "command"
      BY <1>3, CommandMoves DEF Command, OneOfTheTwo, Modes
    <2>3. TerminalTypeOK' /\ TerminalInv'
      BY <1>3, <2>2, TerminalUnchanged DEF Command
    <2>4. OneOfTheTwo' /\ StatusOK' /\ mode' \in Modes
      BY <1>3, <2>2, CommandMoves DEF Command, OneOfTheTwo, StatusOK, terminalVars, interfaceVars
    <2> QED
      BY <2>1, <2>3, <2>4
  <1>4. CASE Over \/ UNCHANGED vars
    <2>1. UNCHANGED vars
      BY <1>4 DEF Over
    <2>2. CommandTypeOK' /\ CommandInv' /\ TerminalTypeOK' /\ TerminalInv'
      BY <2>1, CommandUnchanged, TerminalUnchanged DEF vars
    <2> QED
      BY <2>1, <2>2 DEF vars, OneOfTheTwo, StatusOK, terminalVars, interfaceVars, commandVars
  <1> QED
    BY <1>1, <1>2, <1>3, <1>4 DEF Next

LEMMA Invariance == Spec => []Inv
  BY InitInv, StepInv, PTL DEF Spec

(***************************************************************************)
(* Every state of the process is of its type.                              *)
(***************************************************************************)
THEOREM TypeCorrect == Spec => []TypeOK
  <1>1. Inv => TypeOK
    BY DEF Inv
  <1> QED
    BY <1>1, Invariance, PTL

(***************************************************************************)
(* run_loop draws on the alternate screen Guard::new entered, in raw mode: *)
(* a job that panics on the worker runs the hook and takes neither away.   *)
(***************************************************************************)
THEOREM DrawsAlone == Spec => []DrawsOnItsOwnScreen
  <1>1. Inv => DrawsOnItsOwnScreen
    BY TerminalProperties DEF Inv, TypeOK
  <1> QED
    BY <1>1, Invariance, PTL

(***************************************************************************)
(* Guard, its drop and install_panic_hook: whatever the terminal refuses   *)
(* and wherever the interface or a job panics, the shell gets it back.     *)
(***************************************************************************)
THEOREM TerminalGivenBack == Spec => []LeftAsFound
  <1>1. Inv => LeftAsFound
    BY TerminalProperties DEF Inv, TypeOK
  <1> QED
    BY <1>1, Invariance, PTL

(***************************************************************************)
(* What tui::run and main print after the interface, and the message of a  *)
(* panic that ended it, is written where the user can read it.             *)
(***************************************************************************)
THEOREM WordsAreRead == Spec => []LastWordsAreReadable
  <1>1. Inv => LastWordsAreReadable
    BY TerminalProperties DEF Inv, TypeOK
  <1> QED
    BY <1>1, Invariance, PTL

(***************************************************************************)
(* The run_ functions of main.rs: for any arguments, any bus and any       *)
(* number of reports, the exit status and the last line are true.          *)
(***************************************************************************)
THEOREM StatusTold == Spec => []StatusIsTrue
  <1>1. Inv => StatusIsTrue
    BY CommandProperties DEF Inv, TypeOK
  <1> QED
    BY <1>1, Invariance, PTL

(***************************************************************************)
(* with_interrupted_note and with_reconnect_hint: an upload that stopped   *)
(* half way says so, and no other command does.                            *)
(***************************************************************************)
THEOREM HalfDoneTold == Spec => []HalfDoneIsAdmitted
  <1>1. Inv => HalfDoneIsAdmitted
    BY CommandProperties DEF Inv, TypeOK
  <1> QED
    BY <1>1, Invariance, PTL

(***************************************************************************)
(* discover and open of device.rs: what is written to is the configuration *)
(* channel, unless the names moved between the two.                        *)
(***************************************************************************)
THEOREM ConfigChannelOnly == Spec => []OnlyTheConfigChannel
  <1>1. Inv => OnlyTheConfigChannel
    BY CommandProperties DEF Inv, TypeOK
  <1> QED
    BY <1>1, Invariance, PTL

(***************************************************************************)
(* run_set_time: the time sent is one the clock showed once the keyboard   *)
(* was ready, for any number of days.                                      *)
(***************************************************************************)
THEOREM TimeWasShown == Spec => []ClockHasShownIt
  <1>1. Inv => ClockHasShownIt
    BY CommandProperties DEF Inv, TypeOK
  <1> QED
    BY <1>1, Invariance, PTL
================================================================================
