--------------------------------- MODULE MCTui ---------------------------------
(***************************************************************************)
(* Small instances of Tui for TLC.                                         *)
(***************************************************************************)
EXTENDS Tui

MCCommandReports == [c \in Commands |-> 2]
================================================================================
