-------------------------------- MODULE Program --------------------------------
(***************************************************************************)
(* main: without a command and with a terminal on both ends, the interface *)
(* (here what it does to the terminal); without either, a refusal; with a  *)
(* command, that command.                                                  *)
(***************************************************************************)
EXTENDS Terminal, CommandLine

VARIABLE mode

vars == <<terminalVars, commandVars, status, mode>>

Modes == {"interface", "no terminal", "command"}

TypeOK == TerminalTypeOK /\ CommandTypeOK /\ StatusOK /\ mode \in Modes

Init ==
    /\ mode \in Modes
    /\ TerminalInit(mode = "interface") /\ CommandInit(mode = "command")
    /\ status = None

\* Nobody there to be interactive with.
RefuseToDraw ==
    /\ mode = "no terminal" /\ status = None
    /\ status' = 2
    /\ Say("command")
    /\ UNCHANGED <<interfaceVars, workerVars, modeVars, commandVars, mode>>

Interface == TerminalNext /\ UNCHANGED <<commandVars, mode>>

Command == CommandNext /\ UNCHANGED <<terminalVars, mode>>

Over == status # None /\ UNCHANGED vars

Next == RefuseToDraw \/ Interface \/ Command \/ Over

Spec == Init /\ [][Next]_vars
================================================================================
