-------------------------------- MODULE Terminal --------------------------------
(***************************************************************************)
(* Who holds the terminal: tui::run with its guard and panic hook, on the  *)
(* thread that draws, and the worker, whose panics run the same hook.      *)
(* Giving the terminal back is two steps, and a panic may come first.      *)
(***************************************************************************)
EXTENDS ExitStatus

CONSTANTS
    Before,      \* alternate screens the user was in already
    Refusals,    \* what the terminal may refuse: "raw", "enter", "leave", "draw"
    MaxPanics    \* bound: panics of jobs

ASSUME TerminalAssumption ==
    /\ Before \in Nat /\ MaxPanics \in Nat
    /\ Refusals \subseteq {"raw", "enter", "leave", "draw"}

VARIABLES
    ui,         \* where the drawing thread is
    then,       \* where it goes once the terminal is restored
    result,     \* how the event loop ended
    raw,        \* whether the terminal is in raw mode
    alt,        \* alternate screens entered and not left
    stuck,      \* whether the terminal refused to leave one
    restored,   \* the flag the guard and the hook share
    worker,     \* where the worker is
    panics,     \* how many jobs have panicked
    said        \* what was written outside the drawing, and what it was written to

interfaceVars == <<ui, then, result, restored>>
workerVars == <<worker, panics>>
modeVars == <<raw, alt, stuck>>
terminalVars == <<interfaceVars, workerVars, modeVars, said>>

UiStates ==
    {"absent", "start", "raw", "guarded", "draw", "key", "swap", "leave", "cook",
     "hook", "report", "drop", "main", "dead"}

Results == {"none", "quiet", "message", "error", "panic"}

Words == [who : {"interface", "worker", "command"}, screen : Nat, raw : BOOLEAN]

TerminalTypeOK ==
    /\ ui \in UiStates /\ then \in UiStates
    /\ result \in Results
    /\ raw \in BOOLEAN /\ alt \in Nat /\ stuck \in BOOLEAN /\ restored \in BOOLEAN
    /\ worker \in {"absent", "idle", "job", "hook", "say"}
    /\ panics \in 0..MaxPanics
    /\ said \in SUBSET Words

TerminalInit(here) ==
    /\ ui = (IF here THEN "start" ELSE "absent") /\ then = "dead"
    /\ result = "none"
    /\ raw = FALSE /\ alt = Before /\ stuck = FALSE /\ restored = FALSE
    /\ worker = "absent" /\ panics = 0
    /\ said = {}

May(what) == what \in Refusals
Step(from, to) == Running /\ ui = from /\ ui' = to

Say(who) == said' = said \cup {[who |-> who, screen |-> alt, raw |-> raw]}

LeaveAlt == alt' = IF alt > 0 THEN alt - 1 ELSE 0

Exit(code) == status' = code

--------------------------------------------------------------------------------
(***************************************************************************)
(* Guard::new.                                                             *)
(***************************************************************************)
EnableRaw ==
    /\ Step("start", "raw")
    /\ raw' = TRUE
    /\ UNCHANGED <<then, result, restored, alt, stuck, workerVars, said, status>>

EnableRawFails ==
    /\ May("raw") /\ Step("start", "main")
    /\ result' = "error"
    /\ UNCHANGED <<then, restored, modeVars, workerVars, said, status>>

EnterAlt ==
    /\ Step("raw", "guarded")
    /\ alt' = alt + 1
    /\ UNCHANGED <<then, result, restored, raw, stuck, workerVars, said, status>>

EnterAltFails ==
    /\ May("enter") /\ Step("raw", "main")
    /\ raw' = FALSE
    /\ result' = "error"
    /\ UNCHANGED <<then, restored, alt, stuck, workerVars, said, status>>

\* The hook is installed and the worker is spawned before the first draw.
InstallPanicHook ==
    /\ Step("guarded", "draw")
    /\ worker' = "idle"
    /\ UNCHANGED <<then, result, restored, modeVars, panics, said, status>>

--------------------------------------------------------------------------------
(***************************************************************************)
(* The event loop, as far as the terminal is concerned.                    *)
(***************************************************************************)
Draw ==
    /\ Step("draw", "key")
    /\ UNCHANGED <<then, result, restored, modeVars, workerVars, said, status>>

WaitForKey ==
    /\ Step("key", "draw")
    /\ UNCHANGED <<then, result, restored, modeVars, workerVars, said, status>>

LoopEnds ==
    /\ \/ Step("key", "swap") /\ result' \in {"quiet", "message"}
       \/ May("draw") /\ (Step("draw", "swap") \/ Step("key", "swap")) /\ result' = "error"
    /\ then' = "report"
    /\ UNCHANGED <<restored, modeVars, workerVars, said, status>>

\* The drawing thread panics: while it draws, or because its words cannot be written.
InterfacePanics ==
    /\ Step("draw", "hook") \/ (Step("report", "hook") /\ result = "message")
    /\ result' = "panic"
    /\ UNCHANGED <<then, restored, modeVars, workerVars, said, status>>

--------------------------------------------------------------------------------
(***************************************************************************)
(* Restoring: swap the flag, leave the alternate screen, leave raw mode.   *)
(* The guard and the hook do the same three things.                        *)
(***************************************************************************)
\* Mutant: the hook has a flag of its own, which nobody else sees.
SwapUnshared ==
    /\ Running /\ ui = "swap"
    /\ ui' = IF restored THEN then ELSE "leave"
    /\ restored' = (restored \/ result # "panic")
    /\ UNCHANGED <<then, result, modeVars, workerVars, said, status>>

Swap ==
    /\ Running /\ ui = "swap"
    /\ ui' = IF restored THEN then ELSE "leave"
    /\ restored' = TRUE
    /\ UNCHANGED <<then, result, modeVars, workerVars, said, status>>

\* An error of leave_alt is dropped: raw mode is left all the same.
LeaveAlternateScreen ==
    /\ Step("leave", "cook")
    /\ \/ LeaveAlt /\ UNCHANGED stuck
       \/ May("leave") /\ stuck' = TRUE /\ UNCHANGED alt
    /\ UNCHANGED <<then, result, restored, raw, workerVars, said, status>>

LeaveRawMode ==
    /\ Running /\ ui = "cook" /\ ui' = then
    /\ raw' = FALSE
    /\ UNCHANGED <<then, result, restored, alt, stuck, workerVars, said, status>>

\* Mutant: whichever thread panics gives the terminal back.
OwnedByAll(thread) == thread \in {"interface", "worker"}

OwnsTheTerminal(thread) == thread = "interface"

\* Mutant: the message is printed first, and the terminal given back by the guard.
PanicSpeaksFirst ==
    /\ Step("hook", "swap") /\ result = "panic"
    /\ Say("interface")
    /\ then' = "drop"
    /\ UNCHANGED <<result, restored, modeVars, workerVars, status>>

\* The hook restores, then lets the previous hook print.
HookOnInterface ==
    /\ Step("hook", IF OwnsTheTerminal("interface") THEN "swap" ELSE "report")
    /\ then' = "report"
    /\ UNCHANGED <<result, restored, modeVars, workerVars, said, status>>

\* What there is to say on the normal screen: the panic, the final message.
Report ==
    /\ Step("report", "drop")
    /\ IF result \in {"panic", "message"} THEN Say("interface") ELSE UNCHANGED said
    /\ UNCHANGED <<then, result, restored, modeVars, workerVars, status>>

\* The guard is dropped, at the end of run or by unwinding.
DropGuard ==
    /\ Step("drop", "swap")
    /\ then' = "main"
    /\ UNCHANGED <<result, restored, modeVars, workerVars, said, status>>

\* main prints an error run returned; the process ends, and its threads with it.
Leave ==
    /\ Step("main", "dead")
    /\ IF result = "error" THEN Say("interface") ELSE UNCHANGED said
    /\ Exit(CASE result = "panic" -> 101 [] result = "error" -> 1 [] OTHER -> 0)
    /\ UNCHANGED <<then, result, restored, modeVars, workerVars>>

InterfaceNext ==
    \/ EnableRaw \/ EnableRawFails \/ EnterAlt \/ EnterAltFails \/ InstallPanicHook
    \/ Draw \/ WaitForKey \/ LoopEnds \/ InterfacePanics
    \/ Swap \/ LeaveAlternateScreen \/ LeaveRawMode
    \/ HookOnInterface \/ Report \/ DropGuard \/ Leave

--------------------------------------------------------------------------------
(***************************************************************************)
(* The worker: its panics run the hook, are caught, and it goes on.        *)
(***************************************************************************)
WorkerMoves(from, to) ==
    /\ Running /\ worker = from /\ worker' = to
    /\ UNCHANGED <<ui, then, result, status>>

TakeJob == WorkerMoves("idle", "job") /\ UNCHANGED <<restored, modeVars, panics, said>>

JobEnds == WorkerMoves("job", "idle") /\ UNCHANGED <<restored, modeVars, panics, said>>

JobPanics ==
    /\ panics < MaxPanics
    /\ WorkerMoves("job", "hook")
    /\ panics' = panics + 1
    /\ UNCHANGED <<restored, modeVars, said>>

HookOnWorker ==
    /\ WorkerMoves("hook", "say")
    /\ IF OwnsTheTerminal("worker") /\ ~restored
       THEN restored' = TRUE /\ LeaveAlt /\ raw' = FALSE /\ UNCHANGED stuck
       ELSE UNCHANGED <<restored, modeVars>>
    /\ UNCHANGED <<panics, said>>

PanicIsCaught ==
    /\ WorkerMoves("say", "idle")
    /\ Say("worker")
    /\ UNCHANGED <<restored, modeVars, panics>>

WorkerNext == TakeJob \/ JobEnds \/ JobPanics \/ HookOnWorker \/ PanicIsCaught

TerminalNext == InterfaceNext \/ WorkerNext

--------------------------------------------------------------------------------
(***************************************************************************)
(* While the interface draws, the terminal is its own, whatever panics     *)
(* elsewhere: raw, and on the alternate screen it entered.                 *)
(***************************************************************************)
DrawsOnItsOwnScreen ==
    ui \in {"draw", "key"} => raw /\ alt = Before + 1 /\ ~restored

(***************************************************************************)
(* The shell gets its terminal back: never raw, however the program ended, *)
(* and on the user's screen unless the terminal refused to leave its own.  *)
(* An alternate screen the user was already in is never left: the hook,    *)
(* the explicit restore and the drop of the guard pop one between them.    *)
(***************************************************************************)
LeftAsFound ==
    /\ alt >= Before
    /\ status # None => ~raw /\ (~stuck => alt = Before)

(***************************************************************************)
(* The last words of the interface, a panic, the warning of a cancelled    *)
(* upload or an error, land where they can be read.                        *)
(***************************************************************************)
LastWordsAreReadable ==
    \A w \in said : w.who = "interface" =>
        ~w.raw /\ (~stuck => w.screen = Before)
================================================================================
