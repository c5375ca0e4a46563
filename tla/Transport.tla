------------------------------- MODULE Transport -------------------------------
(***************************************************************************)
(* One open hidraw node and the send-and-acknowledge exchange over it,     *)
(* with the keyboard at the other end.  An acknowledgement is the report   *)
(* itself with its status byte flipped, so it is modelled by the report.   *)
(***************************************************************************)
EXTENDS Choreography

CONSTANTS
    DrainMax,   \* DRAIN_MAX_ITERATIONS
    Patience,   \* ACK_TIMEOUT, in steps of a wait that a signal or an event cuts short
    Faults,     \* what the keyboard and the cable may do wrong
    AirBound    \* bound: input reports under way or unread before more noise

ASSUME TransportAssumption ==
    /\ DrainMax \in Nat \ {0} /\ Patience \in Nat \ {0}
    /\ Faults \subseteq {"lose", "mute", "duplicate", "noise", "full", "io"}

VARIABLES
    phase,     \* where the host is
    current,   \* the report being sent, or the last one sent
    drained,   \* reports read by the drain in progress
    left,      \* until the deadline of the write or the wait in progress
    failure,   \* why the exchange failed
    session,   \* how often the node has been opened
    inbox,     \* input reports the kernel holds for this open file
    wire,      \* reports written, not yet acted on by the keyboard
    air,       \* input reports the keyboard has sent, not yet at the kernel
    landed     \* how many reports of this session the keyboard has acted on

hostVars == <<phase, current, drained, left, failure, session>>
cableVars == <<inbox, wire, air, landed>>
transportVars == <<hostVars, cableVars>>

Failures == {"none", "noisy", "timeout", "mismatch", "io"}

TransportTypeOK ==
    /\ phase \in {"closed", "drain", "ready", "write", "full", "await", "failed"}
    /\ current \in ReportType
    /\ drained \in 0..DrainMax /\ left \in 0..Patience
    /\ failure \in Failures
    /\ failure # "none" <=> phase = "failed"
    /\ session \in Nat
    /\ inbox \in Seq(ReportType)
    /\ air \in Seq(ReportType)
    /\ wire \in Seq([report : ReportType, session : Nat])
    /\ landed \in Nat

TransportInit ==
    /\ phase = "closed"
    /\ current = NoReport
    /\ drained = 0 /\ left = 0
    /\ failure = "none"
    /\ session = 0
    /\ inbox = <<>>
    /\ wire = <<>>
    /\ air = <<>>
    /\ landed = 0

Go(from, to) == phase = from /\ phase' = to

Fail(why) == phase' = "failed" /\ failure' = why

--------------------------------------------------------------------------------
(***************************************************************************)
(* The host.  A freshly opened node starts with nothing to read; it is     *)
(* drained once before anything is sent, and again before every report.    *)
(***************************************************************************)
Open ==
    /\ Go("closed", "drain")
    /\ current' = NoReport
    /\ drained' = 0
    /\ session' = session + 1
    /\ inbox' = <<>>
    /\ landed' = 0
    /\ UNCHANGED <<left, failure, wire, air>>

BeginSend(r) ==
    /\ Go("ready", "drain")
    /\ current' = r
    /\ drained' = 0
    /\ UNCHANGED <<left, failure, session, cableVars>>

\* Mutant: one read too many before the loop is over.
DrainOneMore ==
    /\ phase = "drain" /\ inbox # <<>>
    /\ inbox' = Tail(inbox)
    /\ drained' = drained + 1
    /\ IF drained' > DrainMax THEN Fail("noisy") ELSE UNCHANGED <<phase, failure>>
    /\ UNCHANGED <<current, left, session, wire, air, landed>>

\* The loop is over after DrainMax reads, whether or not more is there.
DrainRead ==
    /\ phase = "drain" /\ inbox # <<>>
    /\ inbox' = Tail(inbox)
    /\ drained' = drained + 1
    /\ IF drained' = DrainMax THEN Fail("noisy") ELSE UNCHANGED <<phase, failure>>
    /\ UNCHANGED <<current, left, session, wire, air, landed>>

Drained ==
    /\ inbox = <<>>
    /\ Go("drain", IF current = NoReport THEN "ready" ELSE "write")
    /\ left' = IF current = NoReport THEN left ELSE Patience
    /\ UNCHANGED <<current, drained, failure, session, cableVars>>

Write ==
    /\ Go("write", "await")
    /\ wire' = Append(wire, [report |-> current, session |-> session])
    /\ left' = Patience
    /\ UNCHANGED <<current, drained, failure, session, inbox, air, landed>>

\* EAGAIN: the kernel's send queue is full, so wait for room and try again.
WriteBlocks ==
    /\ "full" \in Faults
    /\ Go("write", "full")
    /\ UNCHANGED <<current, drained, left, failure, session, cableVars>>

RoomAgain ==
    /\ left > 0 /\ left' = left - 1
    /\ Go("full", "write")
    /\ UNCHANGED <<current, drained, failure, session, cableVars>>

\* Mutant: a signal starts the wait over, with the whole timeout.
WaitAnew ==
    /\ phase \in {"full", "await"} /\ left > 0
    /\ left' = Patience
    /\ UNCHANGED <<phase, current, drained, failure, session, cableVars>>

\* A signal interrupts the wait, which goes on for the time that remains.
WaitOn ==
    /\ phase \in {"full", "await"} /\ left > 0
    /\ left' = left - 1
    /\ UNCHANGED <<phase, current, drained, failure, session, cableVars>>

\* Mutant: any input report counts as the acknowledgement.
TakeAnything ==
    /\ inbox # <<>>
    /\ Go("await", "ready")
    /\ inbox' = Tail(inbox)
    /\ UNCHANGED <<current, drained, left, failure, session, wire, air, landed>>

TakeAck ==
    /\ inbox # <<>> /\ Head(inbox) = current
    /\ Go("await", "ready")
    /\ inbox' = Tail(inbox)
    /\ UNCHANGED <<current, drained, left, failure, session, wire, air, landed>>

RefuseAck ==
    /\ phase = "await" /\ inbox # <<>> /\ Head(inbox) # current
    /\ Fail("mismatch")
    /\ inbox' = Tail(inbox)
    /\ UNCHANGED <<current, drained, left, session, wire, air, landed>>

\* ACK_TIMEOUT runs out, whatever is still on its way.
GiveUp ==
    /\ phase = "await" /\ left = 0
    /\ Fail("timeout")
    /\ UNCHANGED <<current, drained, left, session, cableVars>>

GiveUpWriting ==
    /\ phase = "full" /\ left = 0
    /\ Fail("io")
    /\ UNCHANGED <<current, drained, left, session, cableVars>>

\* A short read or write, an unplugged node.
IoFails ==
    /\ "io" \in Faults
    /\ phase \in {"drain", "write", "full", "await"}
    /\ Fail("io")
    /\ UNCHANGED <<current, drained, left, session, cableVars>>

Close ==
    /\ phase \in {"ready", "failed"}
    /\ phase' = "closed"
    /\ failure' = "none"
    /\ inbox' = <<>>
    /\ UNCHANGED <<current, drained, left, session, wire, air, landed>>

--------------------------------------------------------------------------------
(***************************************************************************)
(* The keyboard and the cable.  Each report it acts on is answered, as a   *)
(* rule once; what reaches the host while no file is open is lost.         *)
(***************************************************************************)
Answers ==
    {1} \cup (IF "mute" \in Faults THEN {0} ELSE {})
        \cup (IF "duplicate" \in Faults THEN {2} ELSE {})

Act ==
    /\ wire # <<>>
    /\ wire' = Tail(wire)
    /\ landed' = IF Head(wire).session = session THEN landed + 1 ELSE landed
    /\ \E n \in Answers : air' = air \o [i \in 1..n |-> Head(wire).report]
    /\ UNCHANGED <<hostVars, inbox>>

Lose ==
    /\ "lose" \in Faults
    /\ wire # <<>>
    /\ wire' = Tail(wire)
    /\ UNCHANGED <<hostVars, inbox, air, landed>>

Noise ==
    /\ "noise" \in Faults
    /\ Len(air) + Len(inbox) < AirBound
    /\ air' = Append(air, Junk)
    /\ UNCHANGED <<hostVars, inbox, wire, landed>>

Deliver ==
    /\ air # <<>>
    /\ air' = Tail(air)
    /\ inbox' = IF phase = "closed" THEN inbox ELSE Append(inbox, Head(air))
    /\ UNCHANGED <<hostVars, wire, landed>>

Keyboard == Act \/ Lose \/ Noise \/ Deliver
================================================================================
