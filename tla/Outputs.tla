------------------------------ MODULE Outputs ------------------------------
(***************************************************************************)
(* The way from the safety state to the gas: the relay driver               *)
(* (shutdown_output.c) over its I2C port expander (tca9554.c), applied,      *)
(* checked and turned into a fault by rb_outputs.c, and the fault read back  *)
(* into the state machine by the hooks of rb_app_faults.c.                   *)
(*                                                                         *)
(* One loop of the safety task is Decide, Command, Verify; each transfer on  *)
(* the bus is a step of its own, so the expander can lose its registers, and *)
(* the bus its life, between any two.  The state machine is its interlock.   *)
(* The expander is external: two registers, the power-on defaults of which   *)
(* are all inputs, pulled high.                                             *)
(***************************************************************************)
EXTENDS Naturals

CONSTANTS
    EnergiseToShutDown,   \* the polarity of the relay
    RelayActiveHigh,      \* the level that energises it
    BootActive,           \* the gas is off until the controller runs
    Period,               \* loops between two checks of the relay
    Limits                \* the settings of the fault shutdown time, in loops

ASSUME OutputsAssumption ==
    /\ EnergiseToShutDown \in BOOLEAN /\ RelayActiveHigh \in BOOLEAN /\ BootActive \in BOOLEAN
    /\ Period \in Nat \ {0} /\ Limits \subseteq Nat

VARIABLES
    phase, age, limit,  \* the state machine, as its interlock
    chip,               \* the channel's bits of the expander: level and direction
    bus,                \* how the bus answers
    cached,             \* t->output, what the driver believes the level to be
    active,             \* s_active, what the driver believes it commanded
    relay_ok, relay_fault,  \* s_relay_ok, s_relay_fault
    unverified,         \* loops since the last check, up to Period
    pc,                 \* where the safety task is in its loop
    reset,              \* the last loop took an operator's reset
    calm                \* loops since something last went wrong on the board

machine == <<phase, age, limit>>
driver == <<cached, active, relay_ok, relay_fault, unverified>>
ovars == <<machine, chip, bus, driver, pc, reset, calm>>

Machine == INSTANCE Interlock

\* Loops after which no property tells a longer calm apart.
CalmMax == Period + 2

Chip == [high : BOOLEAN, output : BOOLEAN]

PCs == {"boot", "decide", "command", "verify", "restore", "direct"}
Buses == {"works", "flaky", "dead"}

TypeOK ==
    /\ phase \in Machine!Phases /\ age \in Nat /\ limit \in Limits
    /\ chip \in Chip /\ bus \in Buses
    /\ cached \in BOOLEAN /\ active \in BOOLEAN
    /\ relay_ok \in BOOLEAN /\ relay_fault \in BOOLEAN /\ reset \in BOOLEAN
    /\ unverified \in 0..Period /\ calm \in 0..CalmMax
    /\ pc \in PCs

Level(shutdown) == ((shutdown = EnergiseToShutDown) = RelayActiveHigh)

PowerOn == [high |-> TRUE, output |-> FALSE]

\* A pin that is an input is pulled high.
Energised == ((chip.high \/ ~chip.output) = RelayActiveHigh)
GasCut == (Energised = EnergiseToShutDown)

\* What a transfer may do: report success, and take effect.  On a flaky bus a
\* write may take effect and still be reported as failed.
Transfers ==
    {t \in [ok : BOOLEAN, done : BOOLEAN] :
        /\ t.ok => t.done
        /\ bus = "works" => t.ok
        /\ bus = "dead" => ~t.done}

Init ==
    /\ Machine!Init
    /\ chip = PowerOn /\ bus \in Buses
    /\ cached = FALSE /\ active = FALSE
    /\ relay_ok = FALSE /\ relay_fault = FALSE
    /\ unverified = Period /\ pc = "boot"
    /\ reset = FALSE /\ calm = 0

-----------------------------------------------------------------------------
(* The safety task. *)

\* What rb_outputs_init leaves of the chip when a write of it fails: the level
\* is written first, then the direction.
HalfWritten == {chip, [chip EXCEPT !.high = Level(BootActive)],
                [high |-> Level(BootActive), output |-> TRUE]}

\* rb_outputs_init: the boot state is written and read back, once.
Boot ==
    /\ pc = "boot"
    /\ active' = BootActive /\ cached' = Level(BootActive)
    /\ \E t \in Transfers :
          /\ chip' \in IF t.ok THEN {[high |-> Level(BootActive), output |-> TRUE]}
                       ELSE IF t.done THEN HalfWritten ELSE {chip}
          /\ relay_ok' = t.ok /\ relay_fault' = ~t.ok
    /\ pc' = "decide"
    /\ UNCHANGED <<machine, bus, unverified, reset, calm>>

\* The time since the last check, as far as the period tells it apart.
Waited(n) == IF n < Period THEN n + 1 ELSE Period

\* A mutant: a relay that failed at boot is not held against the self-test.
SystemFaultMutant == relay_ok /\ relay_fault

\* The tick and self-test hooks raise what rb_outputs_fault says.
SystemFault == relay_fault

\* safety_step, with the operator's reset.  A relay that failed at boot is
\* never driven.
Decide ==
    /\ pc = "decide"
    /\ reset' \in BOOLEAN /\ Machine!Step(SystemFault, reset', 1)
    /\ pc' = IF relay_ok THEN "command" ELSE "decide"
    /\ unverified' = Waited(unverified)
    /\ calm' = IF bus # "works" THEN 0 ELSE IF calm < CalmMax THEN calm + 1 ELSE CalmMax
    /\ UNCHANGED <<chip, bus, cached, active, relay_ok, relay_fault>>

\* set(shutdown): what the driver believes follows a write that succeeded; one
\* that failed is the fault of this loop, and ends it.
Written(shutdown) ==
    \E t \in Transfers :
       /\ chip' = IF t.done THEN [chip EXCEPT !.high = Level(shutdown)] ELSE chip
       /\ active' = IF t.ok THEN shutdown ELSE active
       /\ cached' = IF t.ok THEN Level(shutdown) ELSE cached
       /\ pc' = IF t.ok THEN "verify" ELSE "decide"
       /\ relay_fault' = IF t.ok THEN relay_fault ELSE TRUE

\* shutdown_activate or shutdown_release: no transfer when nothing changes.
Command ==
    /\ pc = "command"
    /\ LET shutdown == (phase = "cut")
       IN  IF shutdown # active THEN Written(shutdown)
           ELSE pc' = "verify" /\ UNCHANGED <<chip, active, cached, relay_fault>>
    /\ UNCHANGED <<machine, bus, relay_ok, unverified, reset, calm>>

\* A mutant: the level is compared, the direction is not.
MismatchMutant == chip.high # Level(active)

\* shutdown_verify compares with the command.
Mismatch == ~chip.output \/ chip.high # Level(active)

\* The check, when it is due: the loop ends with the fault it found, or none.
Verify ==
    /\ pc = "verify"
    /\ IF unverified < Period
       THEN relay_fault' = FALSE /\ pc' = "decide" /\ UNCHANGED unverified
       ELSE /\ unverified' = 0
            /\ \E t \in Transfers :
                  /\ relay_fault' = (~t.ok \/ Mismatch)
                  /\ pc' = IF t.ok /\ Mismatch THEN "restore" ELSE "decide"
    /\ UNCHANGED <<machine, chip, bus, cached, active, relay_ok, reset, calm>>

\* Mutants: the level is restored from the chip's own register; it is the one
\* the driver started with.
RestoredMutant == chip.high
RestoredBootMutant == Level(BootActive)

Restored == cached

\* tca9554_restore: the level, then the direction.
Restore ==
    /\ pc = "restore"
    /\ \E t \in Transfers :
          /\ chip' = IF t.done THEN [chip EXCEPT !.high = Restored] ELSE chip
          /\ pc' = IF t.ok THEN "direct" ELSE "decide"
    /\ UNCHANGED <<machine, bus, driver, reset, calm>>

Direct ==
    /\ pc = "direct"
    /\ \E t \in Transfers : chip' = IF t.done THEN [chip EXCEPT !.output = TRUE] ELSE chip
    /\ pc' = "decide"
    /\ UNCHANGED <<machine, bus, driver, reset, calm>>

Task == Boot \/ Decide \/ Command \/ Verify \/ Restore \/ Direct

-----------------------------------------------------------------------------
(* The board and the operator. *)

\* The expander loses its registers.
Brownout ==
    /\ chip' = PowerOn
    /\ calm' = 0
    /\ UNCHANGED <<machine, bus, driver, pc, reset>>

BusChanges ==
    /\ bus' \in Buses \ {bus}
    /\ calm' = 0
    /\ UNCHANGED <<machine, chip, driver, pc, reset>>

\* The controller restarts; the expander keeps its power and its registers.
Reboot ==
    /\ pc' = "boot"
    /\ phase' = "starting" /\ age' = 0
    /\ relay_ok' = FALSE /\ relay_fault' = FALSE /\ unverified' = Period
    /\ UNCHANGED <<limit, chip, bus, cached, active, reset, calm>>

ChangeLimit ==
    /\ pc = "decide" /\ Machine!SetLimit
    /\ UNCHANGED <<chip, bus, driver, pc, reset, calm>>

Next == Task \/ Brownout \/ BusChanges \/ Reboot \/ ChangeLimit

\* The safety task keeps running, whatever the board does.
Spec == Init /\ [][Next]_ovars /\ WF_ovars(Task)

-----------------------------------------------------------------------------
\* Once the board has been calm for a period and a loop, the gas is where the
\* state machine wants it, whatever writes were lost, half done or taken back
\* by a brownout before; until its first decision after a boot, where the boot
\* put it.
RelayFollows ==
    pc = "decide" /\ relay_ok /\ calm > Period + 1 =>
        \/ GasCut = (phase = "cut")
        \/ phase = "starting" /\ GasCut = BootActive

\* And the fault it left behind is gone: a board that works does not keep the
\* controller out of order.
FaultPasses ==
    pc = "decide" /\ relay_ok /\ calm > Period + 1 => ~relay_fault

\* A controller that cannot drive its relay never claims to protect.
NeverOnWithoutRelay == pc = "decide" /\ ~relay_ok => phase # "on"

\* With the fail-safe wiring the gas, once cut, stays cut until an operator's
\* reset or a reboot: no lost write, brownout or restoration gives it back.
StaysCut ==
    [][phase = "cut" /\ phase' = "cut" /\ GasCut => GasCut']_ovars
=============================================================================
