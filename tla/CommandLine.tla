------------------------------- MODULE CommandLine -------------------------------
(***************************************************************************)
(* One command of the command line, from its arguments to its exit status: *)
(* run_set_time, run_switch_page, run_clear_picture, run_clear_gif,        *)
(* run_set_picture and run_set_gif of main.rs, with device.rs finding the  *)
(* keyboard.  Sending is kept to how many reports were confirmed: Upload   *)
(* has the rest.  Meanwhile the clock runs and cables are pulled.  What    *)
(* is printed finds a reader: the panic of println! on a closed pipe is    *)
(* left out.                                                               *)
(***************************************************************************)
EXTENDS ExitStatus, Integers, FiniteSets

CONSTANTS
    Requests,    \* what may be asked for, see RequestType
    Names,       \* of nodes under /sys/class/hidraw
    Buses,       \* how it may look there, see BusType
    Reports,     \* reports in the command's sequence
    GifMaxFrames, FpsMin, FpsMax,
    DayLength,   \* bound: hours in a day
    Midnights    \* bound: days the clock runs

\* A node's uevent, its report descriptor, and whether it may be opened.
NodeType == [uevent : {"ours", "other", "garbled", "unreadable"},
             descriptor : {"ours", "other", "unreadable"},
             permitted : BOOLEAN]

Uploads == {"set-picture", "set-gif"}
Commands == Uploads \cup {"set-time", "switch-page", "clear-picture", "clear-gif"}

\* The numbers are what was typed; a tint is a hundredth, and None is no flag.
RequestType == [command : Commands, fps : Nat, frames : Nat, tint : Int,
                file : {"good", "bad"}, dryRun : BOOLEAN]

\* No node by a name, and whether the names can be listed.
NoNode == [uevent |-> "none", descriptor |-> "none", permitted |-> FALSE]

BusType == [listed : BOOLEAN, nodes : [Names -> NodeType \cup {NoNode}]]

Hours == DayLength * Midnights

ASSUME CommandLineAssumption ==
    /\ Requests \subseteq RequestType /\ Requests # {} /\ Buses \subseteq BusType /\ Buses # {}
    /\ IsFiniteSet(Names) /\ None \notin Names
    /\ Reports \in Nat \ {0} /\ GifMaxFrames \in Nat /\ FpsMin \in Nat /\ FpsMax \in Nat
    /\ DayLength \in Nat \ {0} /\ Midnights \in Nat

VARIABLES
    at,         \* where the command is
    request,    \* one of Requests
    bus,        \* what is plugged in
    path,       \* the node that was found
    moved,      \* whether the bus changed after that and before it was opened
    opened,     \* the node behind the open file, or NoNode
    gone,       \* whether it was unplugged since
    now,        \* the wall clock, in hours
    readySince, \* when the keyboard was found quiet
    clock,      \* the snapshot of set-time
    written,    \* reports written
    confirmed,  \* reports acknowledged
    failure,    \* the error that ended the command
    claimed     \* what was printed about the keyboard

busVars == <<bus, path, moved, opened, gone>>
timeVars == <<now, readySince, clock>>
sendVars == <<written, confirmed>>
commandVars == <<at, request, busVars, timeVars, sendVars, failure, claimed>>

NoClock == [hour |-> None, date |-> None]

\* An error: its kind, and whether the hint to look again and the note about what is
\* left on the keyboard were added to it.
Error(kind) == [kind |-> kind, hint |-> FALSE, note |-> FALSE]
NoError == Error("none")

Phases == {"absent", "parse", "plan", "notes", "find", "open", "drain", "snapshot", "send",
           "await", "sent", "failed", "over"}

CommandTypeOK ==
    /\ at \in Phases
    /\ request \in Requests
    /\ bus \in Buses /\ path \in Names \cup {None}
    /\ moved \in BOOLEAN /\ gone \in BOOLEAN
    /\ opened \in NodeType \cup {NoNode}
    /\ now \in 0..Hours /\ readySince \in 0..now
    /\ written \in 0..Reports /\ confirmed \in 0..written /\ written <= confirmed + 1
    /\ failure.kind \in {"none", "usage", "media", "no device", "many", "denied", "io"}
    /\ claimed \subseteq {"not contacted", "sent"}

CommandInit(here) ==
    /\ at = (IF here THEN "parse" ELSE "absent")
    /\ IF here THEN request \in Requests /\ bus \in Buses
       ELSE request = (CHOOSE r \in Requests : TRUE) /\ bus = (CHOOSE b \in Buses : TRUE)
    /\ path = None /\ moved = FALSE /\ opened = NoNode /\ gone = FALSE
    /\ now = 0 /\ readySince = 0 /\ clock = NoClock
    /\ written = 0 /\ confirmed = 0
    /\ failure = NoError /\ claimed = {}

Go(from, to) == at = from /\ at' = to

Fail(e) == at' = "failed" /\ failure' = e

--------------------------------------------------------------------------------
(***************************************************************************)
(* Arguments.                                                              *)
(***************************************************************************)
ParseFps(v) == v = None \/ v \in FpsMin..FpsMax
ParseMaxFrames(v) == v = None \/ v \in 1..GifMaxFrames
ParseUnit(v) == v = None \/ v \in -100..100

Parses(r) == ParseFps(r.fps) /\ ParseMaxFrames(r.frames) /\ ParseUnit(r.tint)

\* Mutant: the keyboard first, the file when there is somewhere to send it.
DeviceFirst(r) == "find"

FirstPhase(r) == IF r.command \in Uploads THEN "plan" ELSE "find"

Parse ==
    /\ at = "parse" /\ Parses(request)
    /\ at' = FirstPhase(request)
    /\ UNCHANGED <<request, busVars, timeVars, sendVars, failure, claimed, status>>

UsageError ==
    /\ at = "parse" /\ ~Parses(request)
    /\ Fail(Error("usage"))
    /\ UNCHANGED <<request, busVars, timeVars, sendVars, claimed, status>>

--------------------------------------------------------------------------------
(***************************************************************************)
(* The file is read and everything decided before the keyboard is looked   *)
(* for; a dry run ends here.                                               *)
(***************************************************************************)
Plan ==
    /\ request.file = "good" /\ Go("plan", "notes")
    /\ UNCHANGED <<request, busVars, timeVars, sendVars, failure, claimed, status>>

PlanFails ==
    /\ request.file = "bad" /\ at = "plan"
    /\ Fail(Error("media"))
    /\ claimed' = claimed \cup {"not contacted"}
    /\ UNCHANGED <<request, busVars, timeVars, sendVars, status>>

DryRun ==
    /\ request.dryRun /\ Go("notes", "over")
    /\ claimed' = claimed \cup {"not contacted"}
    /\ status' = 0
    /\ UNCHANGED <<request, busVars, timeVars, sendVars, failure>>

NotDry ==
    /\ ~request.dryRun /\ Go("notes", "find")
    /\ UNCHANGED <<request, busVars, timeVars, sendVars, failure, claimed, status>>

--------------------------------------------------------------------------------
(***************************************************************************)
(* Finding the one node that is the keyboard's configuration channel.      *)
(***************************************************************************)
\* Mutant: the descriptor is not compared.
MatchesById(node) == node.uevent = "ours" /\ node.descriptor # "unreadable"

Matches(node) == node.uevent = "ours" /\ node.descriptor = "ours"

Candidates == {name \in DOMAIN bus.nodes : Matches(bus.nodes[name])}

\* The names are read one after the other; here the bus stands still meanwhile.
FindDevice ==
    /\ bus.listed /\ Cardinality(Candidates) = 1
    /\ Go("find", "open")
    /\ path' = CHOOSE name \in Candidates : TRUE
    /\ UNCHANGED <<request, bus, moved, opened, gone, timeVars, sendVars, failure, claimed,
                   status>>

FindFails ==
    /\ at = "find"
    /\ \/ ~bus.listed /\ Fail(Error("io"))
       \/ bus.listed /\ Cardinality(Candidates) = 0 /\ Fail(Error("no device"))
       \/ bus.listed /\ Cardinality(Candidates) > 1 /\ Fail(Error("many"))
    /\ UNCHANGED <<request, busVars, timeVars, sendVars, claimed, status>>

There == bus.nodes[path] # NoNode

\* The node is opened by its name, whatever now has that name.
Open ==
    /\ Go("open", "drain")
    /\ There /\ bus.nodes[path].permitted
    /\ opened' = bus.nodes[path]
    /\ UNCHANGED <<request, bus, path, moved, gone, timeVars, sendVars, failure, claimed, status>>

OpenFails ==
    /\ at = "open"
    /\ \/ There /\ ~bus.nodes[path].permitted /\ Fail(Error("denied"))
       \/ ~There /\ Fail(Error("io"))
    /\ UNCHANGED <<request, busVars, timeVars, sendVars, claimed, status>>

--------------------------------------------------------------------------------
(***************************************************************************)
(* Sending.  An I/O error on the open node carries the hint; one of an     *)
(* upload's transfer the note as well, even if nothing had been written.   *)
(***************************************************************************)
WithReconnectHint(e) == IF e.kind = "io" THEN [e EXCEPT !.hint = TRUE] ELSE e

\* Mutant: an error that has its hint is passed on as it is.
WithNoteUnlessHinted(e) == IF e.kind = "io" /\ ~e.hint THEN [e EXCEPT !.note = TRUE] ELSE e

WithNote(e) == IF e.kind = "io" THEN [e EXCEPT !.note = TRUE] ELSE e

Drain ==
    /\ ~gone /\ Go("drain", IF request.command = "set-time" THEN "snapshot" ELSE "send")
    /\ readySince' = now
    /\ UNCHANGED <<request, busVars, now, clock, sendVars, failure, claimed, status>>

\* The node chatters, or is unplugged.
DrainFails ==
    /\ at = "drain"
    /\ Fail(WithReconnectHint(Error("io")))
    /\ UNCHANGED <<request, busVars, timeVars, sendVars, claimed, status>>

\* All fields of the clock are taken from one reading of it.
Fields(t) == [hour |-> t % DayLength, date |-> t \div DayLength]

\* Mutant: the clock is read once for the hour and again for the date.
SnapshotTorn ==
    /\ Go("snapshot", "send")
    /\ \E later \in {now, now + 1} :
          clock' = [hour |-> Fields(now).hour, date |-> Fields(later).date]
    /\ UNCHANGED <<request, busVars, now, readySince, sendVars, failure, claimed, status>>

Snapshot ==
    /\ Go("snapshot", "send")
    /\ clock' = Fields(now)
    /\ UNCHANGED <<request, busVars, now, readySince, sendVars, failure, claimed, status>>

WriteReport ==
    /\ ~gone /\ written < Reports /\ Go("send", "await")
    /\ written' = written + 1
    /\ UNCHANGED <<request, busVars, timeVars, confirmed, failure, claimed, status>>

\* Mutant: acknowledgements are counted, the second one of a report as well.
AcknowledgedTwice ==
    /\ Go("await", IF written = Reports THEN "sent" ELSE "send")
    /\ confirmed' \in {confirmed + 1, confirmed + 2}
    /\ UNCHANGED <<request, busVars, timeVars, written, failure, claimed, status>>

Acknowledged ==
    /\ Go("await", IF written = Reports THEN "sent" ELSE "send")
    /\ confirmed' = written
    /\ UNCHANGED <<request, busVars, timeVars, written, failure, claimed, status>>

SendFails ==
    /\ at \in {"send", "await"}
    /\ LET e == WithReconnectHint(Error("io")) IN
          Fail(IF request.command \in Uploads THEN WithNote(e) ELSE e)
    /\ UNCHANGED <<request, busVars, timeVars, sendVars, claimed, status>>

--------------------------------------------------------------------------------
\* clap exits with 2, main with 1 after printing the error.
Finish ==
    /\ at \in {"sent", "failed"} /\ at' = "over"
    /\ claimed' = IF at = "sent" THEN claimed \cup {"sent"} ELSE claimed
    /\ status' = IF at = "sent" THEN 0 ELSE IF failure.kind = "usage" THEN 2 ELSE 1
    /\ UNCHANGED <<request, busVars, timeVars, sendVars, failure>>

\* Somebody plugs or unplugs: names may be given out anew.
Replug ==
    /\ at \notin {"absent", "over"} /\ ~gone /\ ~moved
    /\ bus' \in Buses \ {bus}
    /\ moved' = (path # None /\ opened = NoNode)
    /\ gone' = (opened # NoNode /\ bus'.nodes[path] # bus.nodes[path])
    /\ UNCHANGED <<at, request, path, opened, timeVars, sendVars, failure, claimed, status>>

Tick ==
    /\ at \notin {"absent", "over"} /\ request.command = "set-time"
    /\ now < Hours
    /\ now' = now + 1
    /\ UNCHANGED <<at, request, busVars, readySince, clock, sendVars, failure, claimed, status>>

CommandNext ==
    \/ Parse \/ UsageError \/ Plan \/ PlanFails \/ DryRun \/ NotDry
    \/ FindDevice \/ FindFails \/ Open \/ OpenFails \/ Drain \/ DrainFails \/ Snapshot
    \/ WriteReport \/ Acknowledged \/ SendFails \/ Finish \/ Replug \/ Tick

--------------------------------------------------------------------------------
(***************************************************************************)
(* An upload that may have left half of itself behind says so, and a       *)
(* command that never got as far as sending does not.                      *)
(***************************************************************************)
HalfDoneIsAdmitted ==
    at \in {"failed", "over"} /\ failure # NoError =>
        /\ request.command \in Uploads /\ written > 0 => failure.note
        /\ failure.note => opened # NoNode /\ request.command \in Uploads
        /\ failure.hint <=> opened # NoNode

(***************************************************************************)
(* The exit status and the last line tell the truth: 0 is a dry run or all *)
(* of the sequence acknowledged, and nothing else.  "The keyboard was not  *)
(* contacted" is said only if no node was opened and none will be: a bad   *)
(* file or a dry run leaves the keyboard alone, and so does a command line *)
(* that asks for what cannot be done.                                      *)
(***************************************************************************)
StatusIsTrue ==
    /\ at = "over" =>
          /\ status = 0 <=>
                confirmed = Reports \/ ("not contacted" \in claimed /\ failure = NoError)
          /\ "sent" \in claimed <=> confirmed = Reports
          /\ status # 0 <=> failure # NoError
    /\ "not contacted" \in claimed => opened = NoNode /\ at \in {"failed", "over"}
    /\ opened # NoNode =>
          /\ Parses(request)
          /\ request.command \in Uploads => request.file = "good" /\ ~request.dryRun

(***************************************************************************)
(* What is written to is the keyboard's configuration channel, never its   *)
(* typing interface or another device, unless names were given out anew in *)
(* the instant between finding the node and opening it.                    *)
(***************************************************************************)
OnlyTheConfigChannel ==
    opened # NoNode /\ ~moved => opened.uevent = "ours" /\ opened.descriptor = "ours"

(***************************************************************************)
(* The time that is set is one the clock has shown, all fields at once,    *)
(* and since the keyboard was ready for it.                                *)
(***************************************************************************)
ClockHasShownIt ==
    clock # NoClock => \E t \in readySince..now : clock = Fields(t)
================================================================================
