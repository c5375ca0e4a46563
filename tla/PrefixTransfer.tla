---------------------------- MODULE PrefixTransfer ----------------------------
(***************************************************************************)
(* What a transfer promises, whatever the keyboard does: the reports that  *)
(* take effect are a prefix of the plan; "ok" means all of them; after a   *)
(* cancel nothing more lands, after an error at most the one in doubt.     *)
(***************************************************************************)
EXTENDS Naturals

VARIABLES total, written, verdict, doubt

transferVars == <<total, written, verdict, doubt>>

Init == total \in Nat /\ written = 0 /\ verdict = "none" /\ doubt = FALSE

Land ==
    /\ verdict = "none" /\ written < total
    /\ written' = written + 1
    /\ UNCHANGED <<total, verdict, doubt>>

Succeed ==
    /\ verdict = "none" /\ written = total
    /\ verdict' = "ok"
    /\ UNCHANGED <<total, written, doubt>>

Stop ==
    /\ verdict = "none"
    /\ verdict' = "cancelled"
    /\ UNCHANGED <<total, written, doubt>>

Fail ==
    /\ verdict = "none"
    /\ verdict' = "error"
    /\ doubt' \in BOOLEAN
    /\ UNCHANGED <<total, written>>

Settle ==
    /\ doubt
    /\ doubt' = FALSE
    /\ written < total /\ written' \in {written, written + 1}
    /\ UNCHANGED <<total, verdict>>

Next == Land \/ Succeed \/ Stop \/ Fail \/ Settle

Spec == Init /\ [][Next]_transferVars
===============================================================================
