------------------------------- MODULE MCPlanner -------------------------------
(***************************************************************************)
(* A small instance of Planner for TLC: uniform GIFs of every length up to *)
(* three times what may be stored, some with delays that differ, a torn    *)
(* one and one that cannot be opened.  The delays sit on both sides of     *)
(* each bound of the rate.                                                 *)
(***************************************************************************)
EXTENDS Planner

CONSTANTS Delays, Longest

Intact(delays) == [delays |-> delays, fault |-> "none"]

MCFiles ==
    {Intact([i \in 1..n |-> d]) : n \in 0..Longest, d \in Delays}
        \cup {Intact([i \in 1..n |-> IF i = n THEN 0 ELSE 100]) : n \in 2..Longest}
        \cup {[delays |-> <<100, 100>>, fault |-> fault] : fault \in {"unreadable", "torn"}}

MCAsked == [fps : {0, 24}, max : 0..MaxStored]
================================================================================
