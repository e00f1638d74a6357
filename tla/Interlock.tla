----------------------------- MODULE Interlock -----------------------------
(***************************************************************************)
(* What the rest of the controller may rely on: the safety state machine    *)
(* seen from its outputs.  Which person stood where and which pan was hot    *)
(* is left out; a controller fault, the reset and the latch are kept.  The  *)
(* detailed machine (Safety.tla) is shown to implement this one, and        *)
(* Outputs.tla is driven by it.                                             *)
(***************************************************************************)
EXTENDS Integers

CONSTANTS
    Limits    \* the settings of fault_shutdown_timeout_ms offered, 0 for never

VARIABLES
    phase,    \* not checked yet, protecting, out of order, or the gas cut
    age,      \* how long the machine has been out of order
    limit     \* how long it may be before it cuts

ivars == <<phase, age, limit>>

Phases == {"starting", "on", "fault", "cut"}

TypeOK ==
    /\ phase \in Phases
    /\ age \in Nat
    /\ limit \in Limits

Init ==
    /\ phase = "starting"
    /\ age = 0
    /\ limit \in Limits

\* Where a step that cleared the latch comes to rest.
Cleared(fault) == IF fault THEN "fault" ELSE "on"

\* The self-test is awaited, for a time.
Boot(fault) ==
    /\ phase = "starting"
    /\ phase' \in IF fault THEN {"starting", "fault"} ELSE {"on"}
    /\ age' = 0

\* Nothing but a fault stops the watch, and the gas is cut through it or not.
Watch(fault) ==
    /\ phase = "on"
    /\ phase' \in IF fault THEN {"fault", "cut"} ELSE {"on", "cut"}
    /\ age' = 0

Overdue(gap) == limit > 0 /\ age + gap >= limit

\* A fault that lasts cuts the gas.
OutOfOrder(fault, gap) ==
    /\ phase = "fault"
    /\ phase' \in IF ~fault THEN {"on", "cut"}
                  ELSE IF Overdue(gap) THEN {"cut"} ELSE {"fault", "cut"}
    /\ age' = IF phase' = "fault" THEN age + gap ELSE 0

\* The latch is left by the operator alone.
Latched(fault, reset) ==
    /\ phase = "cut"
    /\ phase' = IF reset THEN Cleared(fault) ELSE "cut"
    /\ age' = 0

\* The gas was due to be cut, and a reset came in the same step.
CutAndReset(fault, reset) ==
    /\ phase \in {"on", "fault"} /\ reset
    /\ phase' = Cleared(fault)
    /\ age' = 0

\* One safety step: fault is a controller fault or a self-test not passed.
Step(fault, reset, gap) ==
    /\ \/ Boot(fault)
       \/ Watch(fault)
       \/ OutOfOrder(fault, gap)
       \/ Latched(fault, reset)
       \/ CutAndReset(fault, reset)
    /\ UNCHANGED limit

SetLimit ==
    /\ limit' \in Limits
    /\ UNCHANGED <<phase, age>>
=============================================================================
