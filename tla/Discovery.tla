------------------------------- MODULE Discovery -------------------------------
(***************************************************************************)
(* The discovery thread: every RESCAN, if the worker is idle and the       *)
(* keyboard is not known to be there, look for it, open it and drain it.   *)
(***************************************************************************)
EXTENDS Channels

CONSTANT QueueBound   \* bound: updates the interface may leave unread before a rescan

VARIABLES
    discovery,   \* where the thread is
    found        \* what the probe in progress has found

discoveryVars == <<discovery, found>>

DiscoveryStates == {"asleep", "awake", "not busy", "find", "drain", "store", "tell"}

DiscoveryTypeOK ==
    /\ discovery \in DiscoveryStates
    /\ found \in DeviceStates

DiscoveryInit ==
    /\ discovery = "asleep"
    /\ found = "NotFound"

Move(from, to) == discovery = from /\ discovery' = to

Wake ==
    /\ Len(updates) < QueueBound
    /\ Move("asleep", "awake")
    /\ UNCHANGED <<found, channels>>

\* The two flags are two loads, the second only if the first allows it.
LoadBusy ==
    /\ Move("awake", IF busy THEN "asleep" ELSE "not busy")
    /\ UNCHANGED <<found, channels>>

LoadReady ==
    /\ Move("not busy", IF ready THEN "asleep" ELSE "find")
    /\ UNCHANGED <<found, channels>>

\* A node that cannot be opened is still found: only open and drain can tell.
HasNode == keyboard \in {"Ready", "PermissionDenied"}

FindDevice ==
    /\ Move("find", IF HasNode THEN "drain" ELSE "store")
    /\ found' = keyboard
    /\ UNCHANGED channels

\* The keyboard may have changed since it was found.
OpenAndDrain ==
    /\ Move("drain", "store")
    /\ found' \in CASE HasNode               -> {keyboard}
                   [] keyboard = "NotFound" -> {"ScanFailed"}
                   [] OTHER                 -> {"Ready", "ScanFailed"}
    /\ UNCHANGED channels

StoreReady ==
    /\ Move("store", "tell")
    /\ ready' = (found = "Ready")
    /\ UNCHANGED <<found, jobs, updates, busy, cancel, keyboard>>

Tell ==
    /\ Move("tell", "asleep")
    /\ Send([kind |-> "Device", device |-> found])
    /\ found' = "NotFound"
    /\ UNCHANGED <<jobs, busy, ready, cancel, keyboard>>

DiscoveryNext ==
    Wake \/ LoadBusy \/ LoadReady \/ FindDevice \/ OpenAndDrain \/ StoreReady \/ Tell
================================================================================
