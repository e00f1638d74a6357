---------------------------- MODULE OutputsProofs ----------------------------
(***************************************************************************)
(* What the way to the gas keeps for every period, limit and wiring: the    *)
(* types, that a controller without its relay never claims to protect, that *)
(* the relay follows the state machine and its fault passes, and that the   *)
(* gas, once cut, stays cut where the wiring is fail-safe.  Then the buzzer: *)
(* what is heard, however its two tasks interleave.                          *)
(***************************************************************************)
EXTENDS Outputs, Buzzer, TLAPS

LEMMA LevelType == \A s \in BOOLEAN : Level(s) \in BOOLEAN
  BY DEF Level

LEMMA TransferType ==
    \A t \in Transfers : /\ t \in [ok : BOOLEAN, done : BOOLEAN]
                         /\ t.ok => t.done
  BY DEF Transfers

LEMMA StepType ==
    ASSUME TypeOK, NEW f, NEW r, Machine!Step(f, r, 1)
    PROVE  /\ phase' \in Machine!Phases /\ age' \in Nat /\ limit' = limit
  BY DEF TypeOK, Machine!Step, Machine!Boot, Machine!Watch, Machine!OutOfOrder,
         Machine!Latched, Machine!CutAndReset, Machine!Cleared, Machine!Phases

LEMMA TypeInit == Init => TypeOK
  <1> SUFFICES ASSUME Init PROVE TypeOK
    OBVIOUS
  <1>1. phase \in Machine!Phases /\ age \in Nat /\ limit \in Limits
    BY DEF Init, Machine!Init, Machine!Phases
  <1>2. chip \in Chip /\ bus \in Buses /\ pc \in PCs
    BY DEF Init, Chip, PowerOn, PCs
  <1>3. unverified \in 0..Period /\ calm \in 0..CalmMax
    BY OutputsAssumption DEF Init, CalmMax
  <1> QED
    BY <1>1, <1>2, <1>3 DEF Init, TypeOK

LEMMA TypeStep == TypeOK /\ [Next]_ovars => TypeOK'
  <1> SUFFICES ASSUME TypeOK, [Next]_ovars PROVE TypeOK'
    OBVIOUS
  <1> USE OutputsAssumption
  <1>1. CASE Boot
    <2>1. Level(BootActive) \in BOOLEAN
      BY LevelType
    <2>2. PICK t \in Transfers :
            /\ chip' \in IF t.ok THEN {[high |-> Level(BootActive), output |-> TRUE]}
                         ELSE IF t.done THEN HalfWritten ELSE {chip}
            /\ relay_ok' = t.ok /\ relay_fault' = ~t.ok
      BY <1>1 DEF Boot
    <2>3. t \in [ok : BOOLEAN, done : BOOLEAN]
      BY TransferType
    <2>4. chip' \in Chip
      <3>1. chip \in Chip /\ [high |-> Level(BootActive), output |-> TRUE] \in Chip
        BY <2>1 DEF Chip, TypeOK
      <3>2. HalfWritten \subseteq Chip
        BY <2>1, <3>1 DEF HalfWritten, Chip
      <3> QED
        BY <2>2, <3>1, <3>2
    <2>5. t.ok \in BOOLEAN
      BY <2>3
    <2>7. relay_ok' \in BOOLEAN /\ relay_fault' \in BOOLEAN
      BY <2>2, <2>5, Zenon
    <2>6. cached' \in BOOLEAN /\ active' \in BOOLEAN
      BY <1>1, <2>1 DEF Boot
    <2> QED
      BY <1>1, <2>4, <2>7, <2>6 DEF Boot, TypeOK, machine, PCs
  <1>2. CASE Decide
    <2>1. phase' \in Machine!Phases /\ age' \in Nat /\ limit' = limit
      BY <1>2, StepType DEF Decide
    <2>2. unverified' \in 0..Period /\ calm' \in 0..CalmMax
      BY <1>2 DEF Decide, TypeOK, Waited, CalmMax
    <2> QED
      BY <1>2, <2>1, <2>2 DEF Decide, TypeOK, PCs
  <1>3. CASE Command
    <2> DEFINE shutdown == (phase = "cut")
    <2>1. CASE shutdown = active
      BY <1>3, <2>1 DEF Command, TypeOK, machine, PCs
    <2>2. CASE shutdown # active
      <3>1. Level(shutdown) \in BOOLEAN
        BY LevelType
      <3>2. PICK t \in Transfers :
              /\ chip' = IF t.done THEN [chip EXCEPT !.high = Level(shutdown)] ELSE chip
              /\ active' = IF t.ok THEN shutdown ELSE active
              /\ cached' = IF t.ok THEN Level(shutdown) ELSE cached
              /\ pc' = IF t.ok THEN "verify" ELSE "decide"
              /\ relay_fault' = IF t.ok THEN relay_fault ELSE TRUE
        BY <1>3, <2>2 DEF Command, Written
      <3>3. chip' \in Chip
        BY <3>1, <3>2 DEF TypeOK, Chip
      <3>4. active' \in BOOLEAN /\ cached' \in BOOLEAN /\ relay_fault' \in BOOLEAN
        BY <3>1, <3>2 DEF TypeOK
      <3> QED
        BY <1>3, <3>2, <3>3, <3>4 DEF Command, TypeOK, machine, PCs
    <2> QED
      BY <2>1, <2>2
  <1>4. CASE Verify
    <2>1. pc' \in PCs /\ unverified' \in 0..Period
      BY <1>4 DEF Verify, TypeOK, PCs
    <2>2. relay_fault' \in BOOLEAN
      <3>1. CASE unverified < Period
        BY <1>4, <3>1 DEF Verify
      <3>2. CASE ~(unverified < Period)
        <4>1. PICK t \in Transfers : relay_fault' = (~t.ok \/ Mismatch)
          BY <1>4, <3>2 DEF Verify
        <4>2. (~t.ok \/ Mismatch) \in BOOLEAN
          BY Zenon
        <4> QED
          BY <4>1, <4>2, Zenon
      <3> QED
        BY <3>1, <3>2
    <2> QED
      BY <1>4, <2>1, <2>2 DEF Verify, TypeOK, machine
  <1>5. CASE Restore
    BY <1>5 DEF Restore, Restored, TypeOK, machine, driver, Chip, PCs
  <1>6. CASE Direct
    BY <1>6 DEF Direct, TypeOK, machine, driver, Chip, PCs
  <1>7. CASE Brownout
    BY <1>7 DEF Brownout, TypeOK, machine, driver, Chip, PowerOn, CalmMax
  <1>8. CASE BusChanges
    BY <1>8 DEF BusChanges, TypeOK, machine, driver, CalmMax
  <1>9. CASE Reboot
    <2>1. phase' \in Machine!Phases /\ age' \in Nat /\ pc' \in PCs
      BY <1>9 DEF Reboot, PCs, Machine!Phases
    <2>2. unverified' \in 0..Period
      BY <1>9 DEF Reboot
    <2> QED
      BY <1>9, <2>1, <2>2 DEF Reboot, TypeOK
  <1>10. CASE ChangeLimit
    BY <1>10 DEF ChangeLimit, TypeOK, driver, Machine!SetLimit
  <1>11. CASE UNCHANGED ovars
    BY <1>11 DEF TypeOK, ovars, machine, driver
  <1> QED
    BY <1>1, <1>2, <1>3, <1>4, <1>5, <1>6, <1>7, <1>8, <1>9, <1>10, <1>11 DEF Next, Task

\* Whatever is lost on the bus or restarted, the types hold.
THEOREM TypesKept == Spec => []TypeOK
  BY TypeInit, TypeStep, PTL DEF Spec

-----------------------------------------------------------------------------
(* A controller that cannot drive its relay. *)

\* Why it never protects: the fault of a failed boot stays, and the loop of
\* such a controller ends with its decision.
BootInv ==
    /\ pc = "boot" => phase = "starting"
    /\ pc = "decide" /\ ~relay_ok => relay_fault /\ phase # "on"
    /\ pc \notin {"boot", "decide"} => relay_ok

LEMMA BootStep == BootInv /\ [Next]_ovars => BootInv'
  <1> SUFFICES ASSUME BootInv, [Next]_ovars PROVE BootInv'
    OBVIOUS
  <1>1. CASE Boot
    BY <1>1 DEF Boot, BootInv, machine
  <1>2. CASE Decide
    <2>1. CASE relay_ok
      BY <1>2, <2>1 DEF Decide, BootInv
    <2>2. CASE ~relay_ok
      <3>1. relay_fault /\ phase # "on"
        BY <1>2, <2>2 DEF Decide, BootInv
      <3>2. phase' # "on"
        BY <1>2, <3>1
        DEF Decide, SystemFault, Machine!Step, Machine!Boot, Machine!Watch,
            Machine!OutOfOrder, Machine!Latched, Machine!CutAndReset, Machine!Cleared
      <3> QED
        BY <1>2, <2>2, <3>1, <3>2 DEF Decide, BootInv
    <2> QED
      BY <2>1, <2>2
  <1>3. CASE Command
    BY <1>3 DEF Command, Written, BootInv, machine
  <1>4. CASE Verify
    BY <1>4 DEF Verify, BootInv, machine
  <1>5. CASE Restore \/ Direct
    BY <1>5 DEF Restore, Direct, BootInv, machine, driver
  <1>6. CASE Brownout \/ BusChanges \/ ChangeLimit
    BY <1>6 DEF Brownout, BusChanges, ChangeLimit, Machine!SetLimit, BootInv, machine, driver
  <1>7. CASE Reboot
    BY <1>7 DEF Reboot, BootInv
  <1>8. CASE UNCHANGED ovars
    BY <1>8 DEF BootInv, ovars, machine, driver
  <1> QED
    BY <1>1, <1>2, <1>3, <1>4, <1>5, <1>6, <1>7, <1>8 DEF Next, Task

\* A controller whose relay failed at boot is never in a protecting state,
\* whatever the limits and however the operator resets it.
THEOREM OffWithoutRelay == Spec => []NeverOnWithoutRelay
  <1>1. Init => BootInv
    BY DEF Init, Machine!Init, BootInv
  <1>2. BootInv => NeverOnWithoutRelay
    BY DEF BootInv, NeverOnWithoutRelay
  <1> QED
    BY <1>1, <1>2, BootStep, PTL DEF Spec

-----------------------------------------------------------------------------
(* The gas stays cut. *)

\* A relay that rests, or is found pulled high, with the gas cut.
FailSafe == EnergiseToShutDown = RelayActiveHigh

LEMMA FailSafeLevel ==
    ASSUME FailSafe, TypeOK
    PROVE  /\ Level(TRUE) = TRUE
           /\ GasCut <=> (chip.high \/ ~chip.output)
  <1>1. chip.high \in BOOLEAN /\ chip.output \in BOOLEAN
    BY DEF TypeOK, Chip
  <1>2. EnergiseToShutDown \in BOOLEAN /\ RelayActiveHigh \in BOOLEAN
    BY OutputsAssumption
  <1>3. Level(TRUE) = TRUE
    BY <1>2, Zenon DEF FailSafe, Level
  <1>4. GasCut <=> (chip.high \/ ~chip.output)
    <2>1. CASE RelayActiveHigh
      BY <1>1, <1>2, <2>1 DEF FailSafe, GasCut, Energised
    <2>2. CASE ~RelayActiveHigh
      BY <1>1, <1>2, <2>2 DEF FailSafe, GasCut, Energised
    <2> QED
      BY <2>1, <2>2
  <1> QED
    BY <1>3, <1>4

\* What the driver believes: its level is the one of its command, past the
\* command the two agree with the machine, and a chip about to be made an
\* output holds the level it was given or the one a brownout left.
DriverInv ==
    /\ pc = "boot" => phase = "starting"
    /\ pc # "boot" => cached = Level(active)
    /\ pc \in {"verify", "restore", "direct"} => active = (phase = "cut")
    /\ pc = "direct" => chip.high = cached \/ chip.high = TRUE

LEMMA DriverStep == TypeOK /\ DriverInv /\ [Next]_ovars => DriverInv'
  <1> SUFFICES ASSUME TypeOK, DriverInv, [Next]_ovars PROVE DriverInv'
    OBVIOUS
  <1>1. CASE Boot
    BY <1>1 DEF Boot, DriverInv, Level
  <1>2. CASE Decide
    BY <1>2 DEF Decide, DriverInv, Level
  <1>3. CASE Command
    <2> DEFINE shutdown == (phase = "cut")
    <2>1. CASE shutdown = active
      BY <1>3, <2>1 DEF Command, DriverInv, Level, machine
    <2>2. CASE shutdown # active
      <3>1. PICK t \in Transfers :
              /\ active' = IF t.ok THEN shutdown ELSE active
              /\ cached' = IF t.ok THEN Level(shutdown) ELSE cached
              /\ pc' = IF t.ok THEN "verify" ELSE "decide"
        BY <1>3, <2>2 DEF Command, Written
      <3> QED
        BY <1>3, <3>1 DEF Command, DriverInv, Level, machine
    <2> QED
      BY <2>1, <2>2
  <1>4. CASE Verify
    BY <1>4 DEF Verify, DriverInv, Level, machine
  <1>5. CASE Restore
    <2>1. PICK t \in Transfers :
            /\ chip' = IF t.done THEN [chip EXCEPT !.high = Restored] ELSE chip
            /\ pc' = IF t.ok THEN "direct" ELSE "decide"
      BY <1>5 DEF Restore
    <2>2. t.ok => t.done
      BY TransferType
    <2>3. pc' = "direct" => chip'.high = cached
      BY <2>1, <2>2 DEF Restored, TypeOK, Chip
    <2> QED
      BY <1>5, <2>1, <2>3 DEF Restore, DriverInv, Level, machine, driver
  <1>6. CASE Direct
    BY <1>6 DEF Direct, DriverInv, Level, machine, driver
  <1>7. CASE Brownout
    BY <1>7 DEF Brownout, PowerOn, DriverInv, Level, machine, driver
  <1>8. CASE BusChanges \/ ChangeLimit
    BY <1>8 DEF BusChanges, ChangeLimit, Machine!SetLimit, DriverInv, Level, machine, driver
  <1>9. CASE Reboot
    BY <1>9 DEF Reboot, DriverInv
  <1>10. CASE UNCHANGED ovars
    BY <1>10 DEF DriverInv, Level, ovars, machine, driver
  <1> QED
    BY <1>1, <1>2, <1>3, <1>4, <1>5, <1>6, <1>7, <1>8, <1>9, <1>10 DEF Next, Task

Kept == phase = "cut" /\ phase' = "cut" /\ GasCut => GasCut'

LEMMA CutStep ==
    ASSUME FailSafe, TypeOK, TypeOK', DriverInv, [Next]_ovars
    PROVE  Kept
  <1> SUFFICES ASSUME phase = "cut", phase' = "cut", GasCut PROVE GasCut'
    BY DEF Kept
  <1> DEFINE Shut == chip.high \/ ~chip.output
  <1>1. Shut /\ Level(TRUE) = TRUE
    BY FailSafeLevel
  <1>2. GasCut' <=> Shut'
    <2>1. chip'.high \in BOOLEAN /\ chip'.output \in BOOLEAN
      BY DEF TypeOK, Chip
    <2>2. EnergiseToShutDown \in BOOLEAN /\ RelayActiveHigh \in BOOLEAN
      BY OutputsAssumption
    <2>3. CASE RelayActiveHigh
      BY <2>1, <2>2, <2>3 DEF FailSafe, GasCut, Energised
    <2>4. CASE ~RelayActiveHigh
      BY <2>1, <2>2, <2>4 DEF FailSafe, GasCut, Energised
    <2> QED
      BY <2>3, <2>4
  <1>3. Shut'
    <2>1. CASE Boot
      BY <2>1 DEF Boot, DriverInv
    <2>2. CASE Command
      <3>1. (phase = "cut") = TRUE
        OBVIOUS
      <3>2. Level(phase = "cut") = TRUE
        BY <1>1, <3>1
      <3>3. chip' = chip \/ chip' = [chip EXCEPT !.high = Level(phase = "cut")]
        BY <2>2 DEF Command, Written
      <3> QED
        BY <1>1, <3>2, <3>3 DEF TypeOK, Chip
    <2>3. CASE Restore
      <3>1. cached = TRUE
        BY <1>1, <2>3 DEF Restore, DriverInv
      <3>2. chip' = chip \/ chip' = [chip EXCEPT !.high = cached]
        BY <2>3 DEF Restore, Restored
      <3> QED
        BY <1>1, <3>1, <3>2 DEF TypeOK, Chip
    <2>4. CASE Direct
      <3>1. chip.high = TRUE
        BY <1>1, <2>4 DEF Direct, DriverInv
      <3>2. chip' = chip \/ chip' = [chip EXCEPT !.output = TRUE]
        BY <2>4 DEF Direct
      <3> QED
        BY <1>1, <3>1, <3>2 DEF TypeOK, Chip
    <2>5. CASE Brownout
      BY <2>5 DEF Brownout, PowerOn
    <2>6. CASE Reboot
      BY <2>6 DEF Reboot
    <2>7. CASE Decide \/ Verify \/ BusChanges \/ ChangeLimit \/ UNCHANGED ovars
      BY <1>1, <2>7 DEF Decide, Verify, BusChanges, ChangeLimit, ovars
    <2> QED
      BY <2>1, <2>2, <2>3, <2>4, <2>5, <2>6, <2>7 DEF Next, Task
  <1> QED
    BY <1>2, <1>3

\* Fail-safe wiring: once cut, the gas stays cut until the machine lets go of
\* it, whatever the bus loses and however often the expander browns out.
THEOREM GasStaysCut ==
    ASSUME FailSafe
    PROVE  Spec => StaysCut
  <1>1. Init => DriverInv
    BY DEF Init, Machine!Init, DriverInv
  <1>2. TypeOK /\ TypeOK' /\ DriverInv /\ [Next]_ovars => [Kept]_ovars
    BY CutStep
  <1>3. StaysCut <=> [][Kept]_ovars
    BY DEF StaysCut, Kept
  <1> QED
    BY <1>1, <1>2, <1>3, TypesKept, DriverStep, PTL DEF Spec
-----------------------------------------------------------------------------
(* The relay follows. *)

\* The chip does what the driver was last asked for.
Obeys == chip.output /\ chip.high = Level(active)

LEMMA ObeysCut ==
    ASSUME TypeOK, Obeys
    PROVE  GasCut = active
  <1>1. /\ active \in BOOLEAN /\ EnergiseToShutDown \in BOOLEAN /\ RelayActiveHigh \in BOOLEAN
        /\ chip.high \in BOOLEAN /\ chip.output = TRUE
    BY OutputsAssumption DEF TypeOK, Chip, Obeys
  <1>2. chip.high = ((active = EnergiseToShutDown) = RelayActiveHigh)
    BY DEF Obeys, Level
  <1>3. GasCut = (((chip.high \/ FALSE) = RelayActiveHigh) = EnergiseToShutDown)
    BY <1>1 DEF GasCut, Energised
  <1>4. CASE RelayActiveHigh = TRUE
    BY <1>1, <1>2, <1>3, <1>4
  <1>5. CASE RelayActiveHigh = FALSE
    BY <1>1, <1>2, <1>3, <1>5
  <1> QED
    BY <1>1, <1>4, <1>5

\* The board has been calm for a loop at least, and the relay is driven.
Calm == calm >= 1 /\ relay_ok /\ pc # "boot"

\* How long the chip can disobey on a calm board, and a fault stay: until the
\* check that is due by then, and the loop after it.
FollowInv ==
    /\ calm >= 1 => bus = "works"
    /\ Calm =>
         /\ pc = "decide" => /\ Obeys \/ (calm <= unverified /\ unverified < Period)
                             /\ \/ active = (phase = "cut")
                                \/ phase = "starting" /\ active = BootActive
         /\ pc \in {"command", "verify"} => Obeys \/ calm <= unverified
         /\ pc = "direct" => chip.high = cached
         /\ relay_fault => calm <= (IF pc \in {"command", "verify"} THEN Period + 1 ELSE Period)

LEMMA FollowStep ==
    ASSUME TypeOK, TypeOK', DriverInv, FollowInv, [Next]_ovars
    PROVE  FollowInv'
  <1> USE OutputsAssumption
  <1>1. CASE Boot
    <2>1. PICK t \in Transfers :
            /\ chip' \in IF t.ok THEN {[high |-> Level(BootActive), output |-> TRUE]}
                         ELSE IF t.done THEN HalfWritten ELSE {chip}
            /\ relay_ok' = t.ok /\ relay_fault' = ~t.ok
      BY <1>1 DEF Boot
    <2>2. /\ bus' = bus /\ calm' = calm /\ phase' = phase /\ active' = BootActive
          /\ pc = "boot" /\ pc' = "decide"
      BY <1>1 DEF Boot, machine
    <2>3. t.ok => Obeys'
      BY <2>1, <2>2 DEF Obeys, Level
    <2>4. phase' = "starting"
      BY <2>2 DEF DriverInv
    <2> QED
      BY <2>1, <2>2, <2>3, <2>4 DEF FollowInv, Calm
  <1>2. CASE Decide
    <2>1. /\ bus' = bus /\ relay_ok' = relay_ok /\ relay_fault' = relay_fault
          /\ pc = "decide" /\ pc' = IF relay_ok THEN "command" ELSE "decide"
          /\ unverified' = Waited(unverified)
          /\ calm' = IF bus # "works" THEN 0 ELSE IF calm < CalmMax THEN calm + 1 ELSE CalmMax
          /\ chip' = chip /\ active' = active /\ cached' = cached
      BY <1>2 DEF Decide
    <2>2. calm \in 0..CalmMax /\ unverified \in 0..Period
      BY DEF TypeOK
    <2>3. Obeys' <=> Obeys
      BY <2>1 DEF Obeys, Level
    <2> QED
      BY <2>1, <2>2, <2>3 DEF FollowInv, Calm, Waited, CalmMax
  <1>3. CASE Command
    <2> DEFINE shutdown == (phase = "cut")
    <2>1. /\ bus' = bus /\ relay_ok' = relay_ok /\ calm' = calm /\ unverified' = unverified
          /\ pc = "command" /\ phase' = phase
      BY <1>3 DEF Command, machine
    <2>2. CASE shutdown = active
      <3>1. /\ pc' = "verify" /\ chip' = chip /\ active' = active /\ relay_fault' = relay_fault
        BY <1>3, <2>2 DEF Command
      <3>2. Obeys' <=> Obeys
        BY <3>1 DEF Obeys, Level
      <3> QED
        BY <2>1, <3>1, <3>2 DEF FollowInv, Calm
    <2>3. CASE shutdown # active
      <3>1. PICK t \in Transfers :
              /\ chip' = IF t.done THEN [chip EXCEPT !.high = Level(shutdown)] ELSE chip
              /\ active' = IF t.ok THEN shutdown ELSE active
              /\ pc' = IF t.ok THEN "verify" ELSE "decide"
              /\ relay_fault' = IF t.ok THEN relay_fault ELSE TRUE
        BY <1>3, <2>3 DEF Command, Written
      <3>2. CASE calm = 0
        BY <2>1, <3>2 DEF FollowInv, Calm
      <3>3. CASE calm >= 1
        <4>1. t.ok /\ t.done
          BY <3>3 DEF FollowInv, Transfers
        <4>2. Obeys => Obeys'
          BY <3>1, <4>1 DEF Obeys, Level, TypeOK, Chip
        <4> QED
          BY <2>1, <3>1, <4>1, <4>2 DEF FollowInv, Calm
      <3> QED
        BY <3>2, <3>3 DEF TypeOK
    <2> QED
      BY <2>2, <2>3
  <1>4. CASE Verify
    <2>1. /\ bus' = bus /\ relay_ok' = relay_ok /\ calm' = calm /\ pc = "verify"
          /\ phase' = phase /\ chip' = chip /\ active' = active
      BY <1>4 DEF Verify, machine
    <2>2. active = (phase = "cut")
      BY <2>1 DEF DriverInv
    <2>3. Obeys' <=> Obeys
      BY <2>1 DEF Obeys, Level
    <2>4. CASE unverified < Period
      <3>1. relay_fault' = FALSE /\ pc' = "decide" /\ unverified' = unverified
        BY <1>4, <2>4 DEF Verify
      <3> QED
        BY <2>1, <2>2, <2>3, <2>4, <3>1 DEF FollowInv, Calm
    <2>5. CASE ~(unverified < Period)
      <3>1. PICK t \in Transfers :
              /\ relay_fault' = (~t.ok \/ Mismatch)
              /\ pc' = IF t.ok /\ Mismatch THEN "restore" ELSE "decide"
        BY <1>4, <2>5 DEF Verify
      <3>2. Mismatch <=> ~Obeys
        BY DEF Mismatch, Obeys
      <3>3. unverified \in 0..Period
        BY DEF TypeOK
      <3>4. CASE calm = 0
        BY <2>1, <3>4 DEF FollowInv, Calm
      <3>5. CASE calm >= 1
        <4>1. t.ok
          BY <3>5 DEF FollowInv, Transfers
        <4>2. CASE Obeys
          <5>1. pc' = "decide" /\ ~relay_fault'
            BY <3>1, <3>2, <4>1, <4>2
          <5> QED
            BY <2>1, <2>2, <2>3, <4>2, <5>1 DEF FollowInv, Calm
        <4>3. CASE ~Obeys
          <5>1. pc' = "restore"
            BY <3>1, <3>2, <4>1, <4>3
          <5>2. Calm' => Calm
            BY <2>1 DEF Calm
          <5>3. Calm => calm <= unverified
            BY <2>1, <4>3 DEF FollowInv
          <5>4. Calm' => calm' <= Period
            BY <2>1, <3>3, <5>2, <5>3 DEF TypeOK
          <5> QED
            BY <2>1, <5>1, <5>4 DEF FollowInv, Calm
        <4> QED
          BY <4>2, <4>3
      <3> QED
        BY <3>4, <3>5 DEF TypeOK
    <2> QED
      BY <2>4, <2>5
  <1>5. CASE Restore
    <2>1. PICK t \in Transfers :
            /\ chip' = IF t.done THEN [chip EXCEPT !.high = Restored] ELSE chip
            /\ pc' = IF t.ok THEN "direct" ELSE "decide"
      BY <1>5 DEF Restore
    <2>2. /\ bus' = bus /\ calm' = calm /\ relay_ok' = relay_ok /\ relay_fault' = relay_fault
          /\ cached' = cached /\ pc = "restore"
      BY <1>5 DEF Restore, driver
    <2>3. calm >= 1 => t.ok /\ t.done
      BY DEF FollowInv, Transfers
    <2>4. calm >= 1 => chip'.high = cached
      BY <2>1, <2>3 DEF Restored, TypeOK, Chip
    <2> QED
      BY <2>1, <2>2, <2>3, <2>4 DEF FollowInv, Calm
  <1>6. CASE Direct
    <2>1. PICK t \in Transfers :
            chip' = IF t.done THEN [chip EXCEPT !.output = TRUE] ELSE chip
      BY <1>6 DEF Direct
    <2>2. /\ bus' = bus /\ calm' = calm /\ relay_ok' = relay_ok /\ relay_fault' = relay_fault
          /\ active' = active /\ phase' = phase /\ pc = "direct" /\ pc' = "decide"
      BY <1>6 DEF Direct, driver, machine
    <2>3. active = (phase = "cut") /\ cached = Level(active)
      BY <2>2 DEF DriverInv
    <2>4. Calm => Obeys'
      <3> SUFFICES ASSUME Calm PROVE Obeys'
        OBVIOUS
      <3>1. t.done /\ chip.high = cached
        BY <2>2 DEF Calm, FollowInv, Transfers
      <3> QED
        BY <2>1, <2>2, <2>3, <3>1 DEF Obeys, Level, TypeOK, Chip
    <2> QED
      BY <2>2, <2>3, <2>4 DEF FollowInv, Calm
  <1>7. CASE Brownout \/ BusChanges
    <2>1. calm' = 0
      BY <1>7 DEF Brownout, BusChanges
    <2> QED
      BY <2>1 DEF FollowInv, Calm
  <1>8. CASE Reboot
    BY <1>8 DEF Reboot, FollowInv, Calm
  <1>9. CASE ChangeLimit
    BY <1>9 DEF ChangeLimit, Machine!SetLimit, driver, FollowInv, Calm, Obeys, Level
  <1>10. CASE UNCHANGED ovars
    BY <1>10 DEF ovars, machine, driver, FollowInv, Calm, Obeys, Level
  <1> QED
    BY <1>1, <1>2, <1>3, <1>4, <1>5, <1>6, <1>7, <1>8, <1>9, <1>10 DEF Next, Task

LEMMA Following == Spec => [](TypeOK /\ FollowInv)
  <1>1. Init => DriverInv /\ FollowInv
    BY DEF Init, Machine!Init, DriverInv, FollowInv, Calm
  <1>2. TypeOK /\ TypeOK' /\ DriverInv /\ FollowInv /\ [Next]_ovars => FollowInv'
    BY FollowStep
  <1> QED
    BY <1>1, <1>2, TypesKept, DriverStep, PTL DEF Spec

\* Whatever the wiring and the period: a period and a loop after the last
\* brownout and the last trouble on the bus, the gas is where the machine wants
\* it.
THEOREM GasFollows == Spec => []RelayFollows
  <1>1. TypeOK /\ FollowInv => RelayFollows
    <2> SUFFICES ASSUME TypeOK, FollowInv, pc = "decide", relay_ok, calm > Period + 1
                 PROVE  \/ GasCut = (phase = "cut")
                        \/ phase = "starting" /\ GasCut = BootActive
      BY DEF RelayFollows
    <2>1. Calm /\ ~(calm <= unverified)
      BY OutputsAssumption DEF Calm, TypeOK
    <2>2. Obeys
      BY <2>1 DEF FollowInv
    <2>3. GasCut = active
      BY <2>2, ObeysCut
    <2> QED
      BY <2>1, <2>3 DEF FollowInv
  <1> QED
    BY <1>1, Following, PTL

\* And nothing of it is left in the fault: the check that found the relay wrong
\* is followed by one that clears it.
THEOREM RelayFaultPasses == Spec => []FaultPasses
  <1>1. TypeOK /\ FollowInv => FaultPasses
    <2> SUFFICES ASSUME TypeOK, FollowInv, pc = "decide", relay_ok, calm > Period + 1
                 PROVE  ~relay_fault
      BY DEF FaultPasses
    <2>1. Calm /\ ~(calm <= Period)
      BY OutputsAssumption DEF Calm, TypeOK
    <2> QED
      BY <2>1 DEF FollowInv
  <1> QED
    BY <1>1, Following, PTL

-----------------------------------------------------------------------------
(***************************************************************************)
(* The buzzer, the other output that rb_outputs.c drives.                   *)
(***************************************************************************)
Alarms == {"WARNING", "SHUTDOWN", "FAULT"}

LEMMA PatternsAre == Patterns = Alarms \cup {"OFF"}
  BY DEF Patterns, Steps, Alarms

LEMMA OffSteps == Len(Steps["OFF"]) = 0
  BY DEF Steps

\* The step that is played at s, and the silence that it brings.
Number(p, s) == IF s > Len(Steps[p]) THEN 1 ELSE s
Pause(p, s) == IF Number(p, s) % 2 = 0 THEN Steps[p][Number(p, s)] ELSE 0

\* What the step table says of every alarm.
LEMMA StepTable ==
    ASSUME NEW p \in Alarms, NEW s \in 1..5
    PROVE  LET n == Number(p, s)
           IN  /\ n \in 1..Len(Steps[p]) /\ n + 1 \in 1..5
               /\ Steps[p][n] \in 2..34
               /\ n % 2 = 1 => Steps[p][n] <= 4 /\ Pause(p, s) = 0
               /\ n % 2 # 1 => Pause(p, s) = Steps[p][n] /\ Pause(p, n + 1) = 0
               /\ n <= s
               /\ Pause(p, s) \in 0..34
               /\ s <= 3 => Pause(p, s) <= Steps[p][2]
               /\ Pause(p, 1) = 0
               /\ Steps[p][2] \in 2..16
  <1>1. CASE p = "WARNING"
    <2>1. Steps[p] = <<4, 16>>
      BY <1>1 DEF Steps
    <2>2. Len(Steps[p]) = 2 /\ Steps[p][1] = 4 /\ Steps[p][2] = 16
      BY <2>1
    <2>3. Number(p, s) = IF s = 2 THEN 2 ELSE 1
      BY <2>2 DEF Number
    <2>4. /\ Pause(p, s) = IF s = 2 THEN 16 ELSE 0
          /\ Pause(p, 1) = 0 /\ Pause(p, 2) = 16 /\ Pause(p, 3) = 0
      BY <2>2, <2>3 DEF Number, Pause
    <2> QED
      BY <2>2, <2>3, <2>4
  <1>2. CASE p = "SHUTDOWN"
    <2>1. Steps[p] = <<3, 3>>
      BY <1>2 DEF Steps
    <2>2. Len(Steps[p]) = 2 /\ Steps[p][1] = 3 /\ Steps[p][2] = 3
      BY <2>1
    <2>3. Number(p, s) = IF s = 2 THEN 2 ELSE 1
      BY <2>2 DEF Number
    <2>4. /\ Pause(p, s) = IF s = 2 THEN 3 ELSE 0
          /\ Pause(p, 1) = 0 /\ Pause(p, 2) = 3 /\ Pause(p, 3) = 0
      BY <2>2, <2>3 DEF Number, Pause
    <2> QED
      BY <2>2, <2>3, <2>4
  <1>3. CASE p = "FAULT"
    <2>1. Steps[p] = <<2, 2, 2, 34>>
      BY <1>3 DEF Steps
    <2>2. Len(Steps[p]) = 4
      BY <2>1
    <2>3. /\ Steps[p][1] = 2 /\ Steps[p][2] = 2
          /\ Steps[p][3] = 2 /\ Steps[p][4] = 34
      BY <2>1
    <2>4. /\ Number(p, 1) = 1 /\ Number(p, 2) = 2 /\ Number(p, 3) = 3
          /\ Number(p, 4) = 4 /\ Number(p, 5) = 1
      BY <2>2 DEF Number
    <2>5. /\ Pause(p, 1) = 0 /\ Pause(p, 2) = 2 /\ Pause(p, 3) = 0
          /\ Pause(p, 4) = 34 /\ Pause(p, 5) = 0
      BY <2>3, <2>4 DEF Pause
    <2>6. s = 1 \/ s = 2 \/ s = 3 \/ s = 4 \/ s = 5
      OBVIOUS
    <2> QED
      BY <2>2, <2>3, <2>4, <2>5, <2>6
  <1> QED
    BY <1>1, <1>2, <1>3 DEF Alarms

\* The two tasks: the safety task, which sets, and the timer task, which ticks.
Setter == job["safety"]
Ticker == job["timer"]

LEMMA GotoMoves ==
    ASSUME job \in [Tasks -> Job], NEW k \in Tasks, NEW goal, Goto(k, goal),
           goal \in {"idle", "stop", "play", "drive", "arm", "silence"}
    PROVE  /\ job' \in [Tasks -> Job]
           /\ job'[k] = [pc |-> goal, on |-> job[k].on, time |-> job[k].time]
           /\ \A j \in Tasks \ {k} : job'[j] = job[j]
  <1>1. job[k] \in Job
    OBVIOUS
  <1>2. job' = [job EXCEPT ![k] = [job[k] EXCEPT !.pc = goal]]
    BY DEF Goto
  <1>3. [job[k] EXCEPT !.pc = goal] = [pc |-> goal, on |-> job[k].on, time |-> job[k].time]
    BY <1>1 DEF Job
  <1>4. [pc |-> goal, on |-> job[k].on, time |-> job[k].time] \in Job
    BY <1>1 DEF Job
  <1> QED
    BY <1>2, <1>3, <1>4

LEMMA DoneMoves ==
    ASSUME job \in [Tasks -> Job], NEW k \in Tasks, Done(k)
    PROVE  /\ job' \in [Tasks -> Job] /\ job'[k].pc = "idle"
           /\ \A j \in Tasks \ {k} : job'[j] = job[j]
  BY DEF Done, Idle, Job, LongestOff

\* What a Play does: the next step of an alarm, or the end of OFF.
LEMMA PlayMoves ==
    ASSUME BuzzerTypeOK, NEW k \in Tasks, Play(k)
    PROVE  /\ job' \in [Tasks -> Job]
           /\ \A j \in Tasks \ {k} : job'[j] = job[j]
           /\ pattern = "OFF" => job'[k].pc = "silence" /\ step' = step
           /\ pattern \in Alarms =>
                 LET n == Number(pattern, step)
                 IN  /\ job'[k] = [pc |-> "drive", on |-> n % 2 = 1, time |-> Steps[pattern][n]]
                     /\ step' = n + 1
  <1>1. StepNo = Number(pattern, step)
    BY DEF StepNo, Number
  <1>2. job \in [Tasks -> Job] /\ step \in 1..5
    BY DEF BuzzerTypeOK
  <1>3. CASE pattern = "OFF"
    <2>1. StepNo > Len(Steps[pattern])
      BY <1>2, <1>3, OffSteps DEF StepNo
    <2>2. Goto(k, "silence") /\ step' = step
      BY <2>1 DEF Play, Ended
    <2>3. /\ job' \in [Tasks -> Job]
          /\ job'[k] = [pc |-> "silence", on |-> job[k].on, time |-> job[k].time]
          /\ \A j \in Tasks \ {k} : job'[j] = job[j]
      BY <1>2, <2>2, GotoMoves
    <2>4. pattern \notin Alarms
      BY <1>3 DEF Alarms
    <2> QED
      BY <2>2, <2>3, <2>4
  <1>4. CASE pattern \in Alarms
    <2> DEFINE n == Number(pattern, step)
               j == [pc |-> "drive", on |-> n % 2 = 1, time |-> Steps[pattern][n]]
    <2>1. n \in 1..Len(Steps[pattern]) /\ Steps[pattern][n] \in 2..34
      BY <1>2, <1>4, StepTable
    <2>2. Len(Steps[pattern]) \in Nat
      BY <1>4 DEF Steps, Alarms
    <2> HIDE DEF n
    <2>3. ~(n > Len(Steps[pattern]))
      BY <2>1, <2>2
    <2>4. job' = [job EXCEPT ![k] = j] /\ step' = n + 1
      BY <1>1, <2>3 DEF Play, n
    <2>5. j \in Job
      BY <2>1 DEF Job, LongestOff
    <2> QED
      BY <1>2, <1>4, <2>4, <2>5 DEF Alarms, n
  <1> QED
    BY <1>3, <1>4, PatternsAre DEF BuzzerTypeOK

LEMMA BuzzerTypes ==
    ASSUME TickMax \in Nat \ {0}, BuzzerTypeOK, [BuzzerNext]_bvars
    PROVE  BuzzerTypeOK'
  <1>1. /\ job \in [Tasks -> Job] /\ timer \in [armed : BOOLEAN, left : 0..34]
        /\ step \in 1..5 /\ since \in 0..TickMax /\ amiss \in 0..68
        /\ AmissMax = 68 /\ LongestOff = 34
        /\ Tasks = {"safety", "timer"}
    BY DEF BuzzerTypeOK, AmissMax, LongestOff, Tasks
  <1>2. ASSUME NEW p \in Patterns, SetPattern(p)
        PROVE  BuzzerTypeOK'
    <2>1. job' \in [Tasks -> Job]
      <3>1. Goto("safety", IF p # pattern THEN "stop" ELSE "idle")
        BY <1>2 DEF SetPattern, Goto
      <3> QED
        BY <1>1, <3>1, GotoMoves
    <2> QED
      BY <1>1, <1>2, <2>1 DEF SetPattern, BuzzerTypeOK
  <1>3. CASE Stop
    <2>1. job' \in [Tasks -> Job]
      <3>1. Goto("safety", IF pattern = "OFF" THEN "silence" ELSE "play")
        BY <1>3 DEF Stop
      <3> QED
        BY <1>1, <3>1, GotoMoves
    <2> QED
      BY <1>1, <1>3, <2>1 DEF Stop, BuzzerTypeOK
  <1>4. ASSUME NEW k \in Tasks, Play(k)
        PROVE  BuzzerTypeOK'
    <2>1. job' \in [Tasks -> Job]
      BY <1>4, PlayMoves
    <2>2. step' \in 1..5
      BY <1>1, <1>4, PlayMoves, StepTable, PatternsAre DEF BuzzerTypeOK
    <2> QED
      BY <1>1, <1>4, <2>1, <2>2 DEF Play, BuzzerTypeOK
  <1>5. ASSUME NEW k \in Tasks, Drive(k)
        PROVE  BuzzerTypeOK'
    <2>1. job' \in [Tasks -> Job]
      BY <1>1, <1>5, GotoMoves DEF Drive
    <2> QED
      BY <1>1, <1>5, <2>1 DEF Drive, BuzzerTypeOK, Job
  <1>6. ASSUME NEW k \in Tasks, Arm(k)
        PROVE  BuzzerTypeOK'
    <2>1. job' \in [Tasks -> Job]
      BY <1>1, <1>6, DoneMoves DEF Arm
    <2>2. timer' \in [armed : BOOLEAN, left : 0..34]
      BY <1>1, <1>6 DEF Arm, Job
    <2> QED
      BY <1>1, <1>6, <2>1, <2>2 DEF Arm, BuzzerTypeOK
  <1>7. ASSUME NEW k \in Tasks, Silence(k)
        PROVE  BuzzerTypeOK'
    <2>1. job' \in [Tasks -> Job]
      BY <1>1, <1>7, DoneMoves DEF Silence
    <2> QED
      BY <1>1, <1>7, <2>1 DEF Silence, BuzzerTypeOK
  <1>8. CASE Fire
    <2>1. job' \in [Tasks -> Job]
      BY <1>1, <1>8, GotoMoves DEF Fire
    <2> QED
      BY <1>1, <1>8, <2>1 DEF Fire, BuzzerTypeOK
  <1>9. CASE Pass
    <2>1. since' \in 0..TickMax /\ amiss' \in 0..68
      BY <1>1, <1>9 DEF Pass
    <2>2. timer' \in [armed : BOOLEAN, left : 0..34]
      BY <1>1, <1>9 DEF Pass
    <2> QED
      BY <1>1, <1>9, <2>1, <2>2 DEF Pass, BuzzerTypeOK
  <1>10. CASE UNCHANGED bvars
    BY <1>10 DEF bvars, BuzzerTypeOK
  <1> QED
    BY <1>2, <1>3, <1>4, <1>5, <1>6, <1>7, <1>8, <1>9, <1>10 DEF BuzzerNext, Work

\* Where a task has a step to play.
Playing == {"play", "drive", "arm"}

\* An alarm has its next step on the way.
Alive ==
    pattern \in Alarms =>
        timer.armed \/ Setter.pc \in Playing \cup {"stop"} \/ Ticker.pc \in Playing

\* Where the tasks can be.  No time passes in their code, so what is against the
\* pattern is none while the safety task changes it, and none while the timer it
\* armed runs beside a timer task that has not come to its end.
Places ==
    /\ Setter.pc # "idle" => amiss = 0
    /\ Setter.pc = "silence" => pattern = "OFF"
    /\ Setter.pc \in Playing => pattern \in Alarms
    /\ Ticker.pc # "stop"
    /\ Setter.pc \in {"drive", "arm"} => Setter.time \in 2..34
    /\ Ticker.pc \in {"drive", "arm"} =>
          Ticker.time \in 2..34 /\ (Ticker.on => Ticker.time <= 4)
    /\ Ticker.pc # "idle" /\ timer.armed => timer.left >= 2 /\ amiss = 0
    /\ Setter.pc \in Playing /\ timer.armed => timer.left >= 2

\* Under OFF a beep that the timer task brought along is heard to its end.
Hush ==
    pattern = "OFF" =>
        /\ amiss <= 4
        /\ Setter.pc # "stop" /\ Ticker.pc \in {"drive", "arm"} => ~timer.armed /\ amiss = 0
        /\ Setter.pc = "idle" /\ sounding =>
              /\ Ticker.pc = "arm" => Ticker.on
              /\ Ticker.pc = "idle" => timer.armed /\ amiss + timer.left <= 4

\* The two tasks both play the first steps of a new alarm.
Racing == Setter.pc \in Playing \cup {"stop"} \/ (Ticker.pc # "idle" /\ timer.armed)

\* The steps they can still take together.
Owed ==
    (IF Setter.pc \in {"stop", "play"} THEN 1 ELSE 0)
    + (IF \/ Ticker.pc = "play"
          \/ Ticker.pc = "idle" /\ timer.armed /\ timer.left = 0
       THEN 1 ELSE 0)

Longest == 34 + Steps[pattern][2]

\* A silence that the timer task plays, with the one that follows it.
Due ==
    LET n == amiss + Pause(pattern, step)
    IN  /\ Ticker.pc = "play" => n <= Longest
        /\ Ticker.pc = "drive" => Ticker.on \/ n + Ticker.time <= Longest
        /\ Ticker.pc = "arm" => sounding \/ n + Ticker.time <= Longest
        /\ Ticker.pc = "idle" =>
              IF sounding THEN amiss = 0 \/ timer.left >= 1
              ELSE n + timer.left <= Longest

\* Under an alarm a silence has a step on the way that ends it in time.
Loud ==
    pattern \in Alarms =>
        /\ amiss <= Longest
        /\ Racing => step + Owed <= 3
        /\ ~Racing => Due

BuzzerInv == Alive /\ Places /\ Hush /\ Loud

\* What the steps below read of the types.
LEMMA BuzzerRanges ==
    ASSUME BuzzerTypeOK
    PROVE  /\ job \in [Tasks -> Job] /\ Tasks = {"safety", "timer"}
           /\ pattern \in Alarms \/ pattern = "OFF"
           /\ "OFF" \notin Alarms
           /\ step \in 1..5 /\ sounding \in BOOLEAN
           /\ timer.armed \in BOOLEAN /\ timer.left \in 0..34
           /\ timer = [armed |-> timer.armed, left |-> timer.left]
           /\ amiss \in 0..68
           /\ Ticker \in Job /\ Setter \in Job
           /\ Ticker.pc \in {"idle", "stop", "play", "drive", "arm", "silence"}
           /\ Setter.pc \in {"idle", "stop", "play", "drive", "arm", "silence"}
           /\ Ticker.on \in BOOLEAN /\ Ticker.time \in 0..34 /\ Setter.time \in 0..34
           /\ pattern \in Alarms => Steps[pattern][2] \in 2..16 /\ Pause(pattern, step) \in 0..34
  <1>1. pattern \in Alarms \/ pattern = "OFF"
    BY PatternsAre DEF BuzzerTypeOK
  <1>2. "OFF" \notin Alarms
    BY DEF Alarms
  <1>3. Ticker \in Job /\ Setter \in Job
    BY DEF BuzzerTypeOK, Tasks, Ticker, Setter
  <1>4. step \in 1..5
    BY DEF BuzzerTypeOK
  <1>5. pattern \in Alarms => Steps[pattern][2] \in 2..16 /\ Pause(pattern, step) \in 0..34
    BY <1>4, StepTable
  <1> QED
    BY <1>1, <1>2, <1>3, <1>4, <1>5 DEF BuzzerTypeOK, Tasks, Job, AmissMax, LongestOff

LEMMA SetPatternInv ==
    ASSUME BuzzerTypeOK, BuzzerInv, NEW p \in Patterns, SetPattern(p)
    PROVE  BuzzerInv'
  <1>1. /\ Setter.pc = "idle" /\ pattern' = p /\ step' = 1
        /\ timer' = timer /\ sounding' = sounding
        /\ amiss' = IF p = pattern THEN amiss ELSE 0
    BY DEF SetPattern, At, Setter
  <1>2. Ticker' = Ticker /\ Setter'.pc = IF p # pattern THEN "stop" ELSE "idle"
    <2> DEFINE goal == IF p # pattern THEN "stop" ELSE "idle"
    <2>1. Goto("safety", goal) /\ goal \in {"idle", "stop", "play", "drive", "arm", "silence"}
      BY DEF SetPattern, Goto
    <2> HIDE DEF goal
    <2>2. /\ job'["safety"] = [pc |-> goal, on |-> job["safety"].on, time |-> job["safety"].time]
          /\ job'["timer"] = job["timer"]
      BY <2>1, BuzzerRanges, GotoMoves
    <2> QED
      BY <2>2 DEF Ticker, Setter, goal
  <1>3. p \in Alarms \/ p = "OFF"
    BY PatternsAre
  <1>4. p \in Alarms => Pause(p, 1) = 0 /\ Steps[p][2] \in 2..16
    BY StepTable
  <1>5. CASE p = pattern
    <2>1. /\ pattern' = pattern /\ amiss' = amiss /\ Setter'.pc = Setter.pc
      BY <1>1, <1>2, <1>5
    <2>2. Alive' /\ Places' /\ Hush'
      BY <1>1, <1>2, <2>1 DEF BuzzerInv, Alive, Places, Hush, Playing
    <2>3. Racing' = Racing /\ Owed' = Owed /\ Longest' = Longest
      BY <1>1, <1>2, <2>1 DEF Racing, Owed, Longest
    <2>4. Owed \in 0..2 /\ step >= 1
      BY BuzzerRanges DEF Owed
    <2>5. ASSUME p = "OFF"
          PROVE  Loud'
      <3>1. pattern' \notin Alarms
        BY <1>1, <2>5 DEF Alarms
      <3> QED
        BY <3>1 DEF Loud
    <2>6. ASSUME p \in Alarms
          PROVE  Loud'
      <3>1. Pause(pattern, 1) = 0 /\ Pause(pattern, step) \in 0..34
        BY <1>4, <1>5, <2>6, BuzzerRanges
      <3>2. amiss <= Longest /\ (Racing => step + Owed <= 3) /\ (~Racing => Due)
        BY <1>5, <2>6 DEF BuzzerInv, Loud
      <3>3. Racing' => step' + Owed' <= 3
        BY <1>1, <2>3, <2>4, <3>2, BuzzerRanges
      <3>4. Longest \in Nat
        BY <1>5, <2>6, BuzzerRanges DEF Longest
      <3>5. Pause(pattern', step') = 0
        BY <1>1, <2>1, <3>1
      <3>6. ASSUME Due
            PROVE  Due'
        <4>1. Ticker.time \in Nat /\ timer.left \in Nat /\ amiss \in Nat
          BY BuzzerRanges
        <4>2. /\ Ticker.pc = "play" => amiss <= Longest
              /\ Ticker.pc = "drive" => Ticker.on \/ amiss + Ticker.time <= Longest
              /\ Ticker.pc = "arm" => sounding \/ amiss + Ticker.time <= Longest
              /\ Ticker.pc = "idle" =>
                    IF sounding THEN amiss = 0 \/ timer.left >= 1
                    ELSE amiss + timer.left <= Longest
          BY <3>1, <3>4, <3>6, <4>1 DEF Due
        <4>3. amiss' + Pause(pattern', step') = amiss
          BY <2>1, <3>5, <4>1
        <4> QED
          BY <1>1, <1>2, <2>1, <2>3, <4>2, <4>3 DEF Due
      <3> QED
        BY <2>1, <2>3, <3>2, <3>3, <3>6 DEF Loud
    <2> QED
      BY <1>3, <2>2, <2>5, <2>6 DEF BuzzerInv
  <1>6. CASE p # pattern
    BY <1>1, <1>2, <1>3, <1>4, <1>6, BuzzerRanges
    DEF BuzzerInv, Alive, Places, Hush, Loud, Racing, Owed, Longest, Playing
  <1> QED
    BY <1>5, <1>6

\* What a step on the way reads of the invariant.
LEMMA LoudReads ==
    ASSUME BuzzerTypeOK, BuzzerInv
    PROVE  /\ Owed \in 0..2
           /\ pattern \in Alarms =>
                 /\ Longest \in 36..50 /\ amiss <= Longest
                 /\ Longest = 34 + Steps[pattern][2]
                 /\ Racing => step + Owed <= 3 /\ Pause(pattern, step) <= Steps[pattern][2]
                 /\ ~Racing => Due
  <1>1. Owed \in 0..2
    BY DEF Owed
  <1>2. ASSUME pattern \in Alarms
        PROVE  /\ Longest \in 36..50 /\ amiss <= Longest
               /\ Longest = 34 + Steps[pattern][2]
               /\ Racing => step + Owed <= 3 /\ Pause(pattern, step) <= Steps[pattern][2]
               /\ ~Racing => Due
    <2>1. amiss <= Longest /\ (Racing => step + Owed <= 3) /\ (~Racing => Due)
      BY <1>2 DEF BuzzerInv, Loud
    <2>2. step \in 1..5
      BY BuzzerRanges
    <2>3. step <= 3 => Pause(pattern, step) <= Steps[pattern][2]
      BY <1>2, <2>2, StepTable
    <2>4. Longest \in 36..50 /\ Longest = 34 + Steps[pattern][2]
      BY <1>2, BuzzerRanges DEF Longest
    <2> QED
      BY <1>1, <2>1, <2>2, <2>3, <2>4
  <1> QED
    BY <1>1, <1>2

\* BuzzerInv is kept by every action of the two tasks, and by time.
LEMMA StopInv ==
    ASSUME BuzzerTypeOK, BuzzerInv, Stop
    PROVE  BuzzerInv'
  <1>1. /\ Setter.pc = "stop" /\ pattern' = pattern /\ step' = step
        /\ timer'.armed = FALSE /\ timer'.left = timer.left
        /\ sounding' = sounding /\ amiss' = amiss
    BY BuzzerRanges DEF Stop, At, Setter
  <1>2. Ticker' = Ticker /\ Setter'.pc = IF pattern = "OFF" THEN "silence" ELSE "play"
    <2> DEFINE goal == IF pattern = "OFF" THEN "silence" ELSE "play"
    <2>1. Goto("safety", goal) /\ goal \in {"idle", "stop", "play", "drive", "arm", "silence"}
      BY DEF Stop
    <2> HIDE DEF goal
    <2>2. /\ job'["safety"] = [pc |-> goal, on |-> job["safety"].on, time |-> job["safety"].time]
          /\ job'["timer"] = job["timer"]
      BY <2>1, BuzzerRanges, GotoMoves
    <2> QED
      BY <2>2 DEF Ticker, Setter, goal
  <1>3. Alive' /\ Places' /\ Hush'
    BY <1>1, <1>2, BuzzerRanges DEF BuzzerInv, Alive, Places, Hush, Playing
  <1>4. Loud'
    <2>1. Racing /\ Owed' \in 0..2 /\ Owed' <= Owed
      BY <1>1, <1>2, BuzzerRanges DEF Racing, Owed
    <2>2. pattern \in Alarms => Racing'
      BY <1>2, BuzzerRanges DEF Racing, Playing
    <2>3. pattern \in Alarms => amiss' <= Longest' /\ step' + Owed' <= 3
      BY <1>1, <2>1, LoudReads, BuzzerRanges DEF Longest
    <2> QED
      BY <1>1, <2>2, <2>3 DEF Loud
  <1> QED
    BY <1>3, <1>4 DEF BuzzerInv

LEMMA PlayInv ==
    ASSUME BuzzerTypeOK, BuzzerInv, NEW k \in Tasks, Play(k)
    PROVE  BuzzerInv'
  <1> DEFINE n == Number(pattern, step)
  <1>1. /\ job[k].pc = "play" /\ pattern' = pattern
        /\ timer' = timer /\ sounding' = sounding /\ amiss' = amiss
    BY DEF Play, At
  <1>2. /\ \A j \in Tasks \ {k} : job'[j] = job[j]
        /\ pattern = "OFF" => job'[k].pc = "silence" /\ step' = step
        /\ pattern \in Alarms =>
              /\ job'[k] = [pc |-> "drive", on |-> n % 2 = 1, time |-> Steps[pattern][n]]
              /\ step' = n + 1
    BY PlayMoves
  <1>3. ASSUME pattern \in Alarms
        PROVE  /\ n \in Nat /\ n <= step
               /\ Steps[pattern][n] \in 2..34
               /\ n % 2 = 1 => Steps[pattern][n] <= 4
               /\ n % 2 # 1 => /\ Pause(pattern, step) = Steps[pattern][n]
                               /\ Pause(pattern, n + 1) = 0
    <2>1. step \in 1..5
      BY BuzzerRanges
    <2>2. /\ n + 1 \in 1..5 /\ n <= step /\ n \in 1..Len(Steps[pattern])
          /\ Steps[pattern][n] \in 2..34
          /\ n % 2 = 1 => Steps[pattern][n] <= 4
          /\ n % 2 # 1 => /\ Pause(pattern, step) = Steps[pattern][n]
                          /\ Pause(pattern, n + 1) = 0
      BY <1>3, <2>1, StepTable
    <2> HIDE DEF n
    <2> QED
      BY <2>2
  <1> HIDE DEF n
  <1>4. CASE k = "safety"
    <2>1. Setter.pc = "play" /\ pattern \in Alarms /\ pattern # "OFF" /\ Ticker' = Ticker
      BY <1>1, <1>2, <1>4, BuzzerRanges DEF Setter, Ticker, BuzzerInv, Places, Playing
    <2>2. /\ Setter'.pc = "drive" /\ Setter'.time = Steps[pattern][n]
          /\ step' = n + 1
      BY <1>2, <1>4, <2>1 DEF Setter
    <2>3. Alive' /\ Places' /\ Hush'
      BY <1>1, <1>3, <2>1, <2>2 DEF BuzzerInv, Alive, Places, Hush, Playing
    <2>4. Racing /\ Racing'
      BY <2>1, <2>2 DEF Racing, Playing
    <2>5. Owed = Owed' + 1 /\ Owed' \in Nat
      BY <1>1, <2>1, <2>2 DEF Owed
    <2>6. amiss' <= Longest' /\ step' + Owed' <= 3
      BY <1>1, <1>3, <2>1, <2>2, <2>4, <2>5, LoudReads, BuzzerRanges DEF Longest
    <2>7. Loud'
      BY <2>4, <2>6 DEF Loud
    <2> QED
      BY <2>3, <2>7 DEF BuzzerInv
  <1>5. CASE k = "timer"
    <2>1. Ticker.pc = "play" /\ Setter' = Setter
      BY <1>1, <1>2, <1>5, BuzzerRanges DEF Setter, Ticker
    <2>2. CASE pattern = "OFF"
      <3>1. Ticker'.pc = "silence" /\ step' = step
        BY <1>2, <1>5, <2>2 DEF Ticker
      <3>2. pattern \notin Alarms /\ pattern' \notin Alarms
        BY <1>1, <2>2, BuzzerRanges
      <3>3. Alive' /\ Loud'
        BY <3>2 DEF Alive, Loud
      <3>4. Places' /\ Hush'
        BY <1>1, <2>1, <3>1 DEF BuzzerInv, Places, Hush, Playing
      <3> QED
        BY <3>3, <3>4 DEF BuzzerInv
    <2>3. CASE pattern \in Alarms
      <3>1. /\ Ticker'.pc = "drive" /\ Ticker'.on = (n % 2 = 1)
            /\ Ticker'.time = Steps[pattern][n] /\ step' = n + 1
        <4>1. /\ Ticker' = [pc |-> "drive", on |-> n % 2 = 1, time |-> Steps[pattern][n]]
              /\ step' = n + 1
          BY <1>2, <1>5, <2>3 DEF Ticker
        <4>2. \A r, b, t : r = [pc |-> "drive", on |-> b, time |-> t] =>
                              r.pc = "drive" /\ r.on = b /\ r.time = t
          OBVIOUS
        <4> QED
          BY <4>1, <4>2
      <3>2. pattern # "OFF"
        BY <2>3, BuzzerRanges
      <3>3. Alive' /\ Places' /\ Hush'
        BY <1>1, <1>3, <2>1, <2>3, <3>1, <3>2 DEF BuzzerInv, Alive, Places, Hush, Playing
      <3>4. Racing' = Racing /\ Longest' = Longest
        BY <1>1, <2>1, <3>1 DEF Racing, Longest
      <3>5. Owed = Owed' + 1 /\ Owed' \in Nat
        BY <1>1, <2>1, <3>1 DEF Owed
      <3>6. Racing' => step' + Owed' <= 3
        BY <1>3, <2>3, <3>1, <3>4, <3>5, LoudReads, BuzzerRanges
      <3>7. ASSUME ~Racing
            PROVE  Due'
        <4>1. amiss + Pause(pattern, step) <= Longest
          BY <2>1, <2>3, <3>7, LoudReads DEF Due
        <4>2. CASE n % 2 = 1
          BY <3>1, <4>2 DEF Due
        <4>3. CASE n % 2 # 1
          <5>1. Pause(pattern, step) = Ticker'.time /\ Pause(pattern', step') = 0
            BY <1>1, <1>3, <2>3, <3>1, <4>3
          <5>2. (amiss' + Pause(pattern', step')) + Ticker'.time <= Longest'
            BY <1>1, <2>3, <3>4, <4>1, <5>1, BuzzerRanges
          <5> QED
            BY <3>1, <5>2 DEF Due
        <4> QED
          BY <4>2, <4>3
      <3>8. amiss' <= Longest'
        BY <1>1, <2>3, <3>4, LoudReads
      <3>9. Loud'
        BY <3>4, <3>6, <3>7, <3>8 DEF Loud
      <3> QED
        BY <3>3, <3>9 DEF BuzzerInv
    <2> QED
      BY <2>2, <2>3, BuzzerRanges
  <1> QED
    BY <1>4, <1>5, BuzzerRanges

\* The end of a task's call, and what comes of the other task.
LEMMA TaskDone ==
    ASSUME BuzzerTypeOK, NEW k \in Tasks, Done(k)
    PROVE  /\ k = "safety" => Setter'.pc = "idle" /\ Ticker' = Ticker
           /\ k = "timer" => Ticker'.pc = "idle" /\ Setter' = Setter
  BY BuzzerRanges, DoneMoves DEF Setter, Ticker

LEMMA TaskGoes ==
    ASSUME BuzzerTypeOK, NEW k \in Tasks, NEW goal, Goto(k, goal),
           goal \in {"idle", "stop", "play", "drive", "arm", "silence"}
    PROVE  /\ k = "safety" => /\ Setter' = [pc |-> goal, on |-> Setter.on, time |-> Setter.time]
                              /\ Ticker' = Ticker
           /\ k = "timer" => /\ Ticker' = [pc |-> goal, on |-> Ticker.on, time |-> Ticker.time]
                             /\ Setter' = Setter
  BY BuzzerRanges, GotoMoves DEF Setter, Ticker

LEMMA DriveInv ==
    ASSUME BuzzerTypeOK, BuzzerInv, NEW k \in Tasks, Drive(k)
    PROVE  BuzzerInv'
  <1>1. /\ job[k].pc = "drive" /\ pattern' = pattern /\ step' = step
        /\ timer' = timer /\ sounding' = job[k].on /\ amiss' = amiss
    BY DEF Drive, At
  <1>2. /\ k = "safety" => /\ Setter' = [pc |-> "arm", on |-> Setter.on, time |-> Setter.time]
                           /\ Ticker' = Ticker
        /\ k = "timer" => /\ Ticker' = [pc |-> "arm", on |-> Ticker.on, time |-> Ticker.time]
                          /\ Setter' = Setter
    BY TaskGoes DEF Drive
  <1>3. Longest' = Longest
    BY <1>1 DEF Longest
  <1>4. CASE k = "safety"
    <2>1. /\ Setter.pc = "drive" /\ pattern \in Alarms /\ pattern # "OFF"
          /\ Setter'.pc = "arm" /\ Setter'.time = Setter.time /\ Ticker' = Ticker
      BY <1>1, <1>2, <1>4, BuzzerRanges DEF Setter, BuzzerInv, Places, Playing
    <2>2. Alive' /\ Places' /\ Hush'
      BY <1>1, <2>1 DEF BuzzerInv, Alive, Places, Hush, Playing
    <2>3. Racing /\ Racing' /\ Owed' = Owed
      BY <1>1, <2>1 DEF Racing, Owed, Playing
    <2>4. Loud'
      BY <1>1, <1>3, <2>1, <2>3, LoudReads DEF Loud
    <2> QED
      BY <2>2, <2>4 DEF BuzzerInv
  <1>5. CASE k = "timer"
    <2>1. /\ Ticker.pc = "drive" /\ Ticker'.pc = "arm" /\ Ticker'.on = Ticker.on
          /\ Ticker'.time = Ticker.time /\ Setter' = Setter /\ sounding' = Ticker.on
      BY <1>1, <1>2, <1>5 DEF Ticker
    <2>2. Alive' /\ Places' /\ Hush'
      BY <1>1, <2>1 DEF BuzzerInv, Alive, Places, Hush, Playing
    <2>3. Racing' = Racing /\ Owed' = Owed
      BY <1>1, <2>1 DEF Racing, Owed, Playing
    <2>4. Due => Due'
      BY <1>1, <1>3, <2>1 DEF Due
    <2>5. Loud'
      BY <1>1, <1>3, <2>3, <2>4, LoudReads DEF Loud
    <2> QED
      BY <2>2, <2>5 DEF BuzzerInv
  <1> QED
    BY <1>4, <1>5, BuzzerRanges

LEMMA ArmInv ==
    ASSUME BuzzerTypeOK, BuzzerInv, NEW k \in Tasks, Arm(k)
    PROVE  BuzzerInv'
  <1>1. /\ job[k].pc = "arm" /\ pattern' = pattern /\ step' = step
        /\ sounding' = sounding /\ amiss' = amiss
        /\ timer'.armed = TRUE
        /\ timer'.left = IF timer.armed THEN timer.left ELSE job[k].time
    BY BuzzerRanges DEF Arm, At
  <1>2. /\ k = "safety" => Setter'.pc = "idle" /\ Ticker' = Ticker
        /\ k = "timer" => Ticker'.pc = "idle" /\ Setter' = Setter
    BY TaskDone DEF Arm
  <1>3. Longest' = Longest
    BY <1>1 DEF Longest
  <1>4. Alive'
    BY <1>1 DEF Alive
  <1>5. pattern \in Alarms => Pause(pattern', step') = Pause(pattern, step)
                              /\ Pause(pattern, step) \in Nat
    BY <1>1, BuzzerRanges
  <1>6. CASE k = "safety"
    <2>1. /\ Setter.pc = "arm" /\ pattern \in Alarms /\ pattern # "OFF" /\ amiss = 0
          /\ Setter'.pc = "idle" /\ Ticker' = Ticker /\ timer'.left \in 2..34
      BY <1>1, <1>2, <1>6, BuzzerRanges DEF Setter, BuzzerInv, Places, Playing
    <2>2. Places' /\ Hush'
      BY <1>1, <2>1 DEF BuzzerInv, Places, Hush, Playing
    <2>3. Racing /\ Owed' \in Nat /\ Owed' <= Owed
      BY <1>1, <2>1 DEF Racing, Owed, Playing
    <2>4. step' + Owed' <= 3
      BY <1>1, <2>1, <2>3, LoudReads, BuzzerRanges
    <2>5. ~Racing' => Due'
      <3>1. ~Racing' => Ticker'.pc = "idle"
        BY <1>1, <2>1 DEF Racing
      <3>2. (amiss' + Pause(pattern', step')) + timer'.left <= Longest'
        BY <1>1, <1>3, <1>5, <2>1, <2>3, LoudReads, BuzzerRanges
      <3> QED
        BY <1>1, <2>1, <3>1, <3>2 DEF Due
    <2>6. Loud'
      BY <1>1, <1>3, <2>1, <2>4, <2>5, LoudReads DEF Loud
    <2> QED
      BY <1>4, <2>2, <2>6 DEF BuzzerInv
  <1>7. CASE k = "timer"
    <2>1. /\ Ticker.pc = "arm" /\ Ticker'.pc = "idle" /\ Setter' = Setter
          /\ timer'.left = IF timer.armed THEN timer.left ELSE Ticker.time
          /\ Ticker.time \in 2..34 /\ (Ticker.on => Ticker.time <= 4)
          /\ timer'.left \in 2..34
      BY <1>1, <1>2, <1>7, BuzzerRanges DEF Ticker, BuzzerInv, Places
    <2>2. Places'
      BY <1>1, <2>1 DEF BuzzerInv, Places
    <2>3. Hush'
      BY <1>1, <2>1, BuzzerRanges DEF BuzzerInv, Hush
    <2>4. Owed' \in Nat /\ Owed' <= Owed
      BY <1>1, <2>1 DEF Owed
    <2>5. CASE pattern \notin Alarms
      BY <1>1, <1>4, <2>2, <2>3, <2>5 DEF Loud, BuzzerInv
    <2>6. CASE pattern \in Alarms
      <3>1. Racing' => Racing
        BY <2>1 DEF Racing
      <3>2. Racing' => step' + Owed' <= 3
        BY <1>1, <2>4, <2>6, <3>1, LoudReads, BuzzerRanges
      <3>3. Due'
        <4>1. CASE timer.armed
          <5>1. Racing /\ amiss = 0
            BY <2>1, <4>1 DEF Racing, BuzzerInv, Places
          <5>2. (amiss' + Pause(pattern', step')) + timer'.left <= Longest'
            BY <1>1, <1>3, <1>5, <2>1, <2>6, <5>1, LoudReads, BuzzerRanges
          <5> QED
            BY <1>1, <2>1, <5>1, <5>2 DEF Due
        <4>2. CASE ~timer.armed /\ Racing
          <5>1. Setter.pc # "idle"
            BY <4>2 DEF Racing, Playing
          <5>2. amiss = 0
            BY <5>1 DEF BuzzerInv, Places
          <5>3. (amiss' + Pause(pattern', step')) + timer'.left <= Longest'
            BY <1>1, <1>3, <1>5, <2>1, <2>6, <4>2, <5>2, LoudReads, BuzzerRanges
          <5> QED
            BY <1>1, <2>1, <5>2, <5>3 DEF Due
        <4>3. CASE ~timer.armed /\ ~Racing
          <5>1. sounding \/ (amiss + Pause(pattern, step)) + Ticker.time <= Longest
            BY <2>1, <2>6, <4>3, LoudReads DEF Due
          <5>2. timer'.left = Ticker.time /\ timer'.left >= 1
            BY <2>1, <4>3
          <5> QED
            BY <1>1, <1>3, <1>5, <2>1, <2>6, <5>1, <5>2 DEF Due
        <4> QED
          BY <4>1, <4>2, <4>3
      <3>4. Loud'
        BY <1>1, <1>3, <2>6, <3>2, <3>3, LoudReads DEF Loud
      <3> QED
        BY <1>4, <2>2, <2>3, <3>4 DEF BuzzerInv
    <2> QED
      BY <2>5, <2>6
  <1> QED
    BY <1>6, <1>7, BuzzerRanges

LEMMA SilenceInv ==
    ASSUME BuzzerTypeOK, BuzzerInv, NEW k \in Tasks, Silence(k)
    PROVE  BuzzerInv'
  <1>1. /\ job[k].pc = "silence" /\ pattern' = pattern /\ step' = step
        /\ timer' = timer /\ sounding' = FALSE /\ amiss' = amiss
    BY DEF Silence, At
  <1>2. /\ k = "safety" => Setter'.pc = "idle" /\ Ticker' = Ticker
        /\ k = "timer" => Ticker'.pc = "idle" /\ Setter' = Setter
    BY TaskDone DEF Silence
  <1>3. Longest' = Longest
    BY <1>1 DEF Longest
  <1>4. CASE k = "safety"
    <2>1. /\ Setter.pc = "silence" /\ pattern = "OFF" /\ pattern \notin Alarms
          /\ Setter'.pc = "idle" /\ Ticker' = Ticker
      BY <1>1, <1>2, <1>4, BuzzerRanges DEF Setter, BuzzerInv, Places
    <2>2. Alive' /\ Loud'
      BY <1>1, <2>1 DEF Alive, Loud
    <2>3. Places' /\ Hush'
      BY <1>1, <2>1 DEF BuzzerInv, Places, Hush, Playing
    <2> QED
      BY <2>2, <2>3 DEF BuzzerInv
  <1>5. CASE k = "timer"
    <2>1. Ticker.pc = "silence" /\ Ticker'.pc = "idle" /\ Setter' = Setter
      BY <1>1, <1>2, <1>5 DEF Ticker
    <2>2. Alive' /\ Places' /\ Hush'
      BY <1>1, <2>1 DEF BuzzerInv, Alive, Places, Hush, Playing
    <2>3. CASE pattern \notin Alarms
      BY <1>1, <2>2, <2>3 DEF Loud, BuzzerInv
    <2>4. CASE pattern \in Alarms
      <3>1. Racing
        BY <2>1, <2>4 DEF BuzzerInv, Alive, Racing, Playing
      <3>2. Owed' \in Nat /\ Owed' <= Owed
        BY <1>1, <2>1 DEF Owed, BuzzerInv, Places
      <3>3. step' + Owed' <= 3
        BY <1>1, <2>4, <3>1, <3>2, LoudReads, BuzzerRanges
      <3>4. ~Racing' => Due'
        <4>1. ~Racing' => amiss = 0
          BY <2>1, <3>1 DEF Racing, BuzzerInv, Places
        <4>2. Pause(pattern', step') = Pause(pattern, step) /\ Pause(pattern, step) \in Nat
          BY <1>1, <2>4, BuzzerRanges
        <4>3. amiss = 0 => (amiss' + Pause(pattern', step')) + timer'.left <= Longest'
          BY <1>1, <1>3, <2>4, <3>1, <4>2, LoudReads, BuzzerRanges
        <4> QED
          BY <1>1, <2>1, <4>1, <4>3 DEF Due
      <3>5. Loud'
        BY <1>1, <1>3, <2>4, <3>3, <3>4, LoudReads DEF Loud
      <3> QED
        BY <2>2, <3>5 DEF BuzzerInv
    <2> QED
      BY <2>3, <2>4
  <1> QED
    BY <1>4, <1>5, BuzzerRanges

LEMMA FireInv ==
    ASSUME BuzzerTypeOK, BuzzerInv, Fire
    PROVE  BuzzerInv'
  <1>1. /\ Ticker.pc = "idle" /\ timer.armed /\ timer.left = 0
        /\ timer'.armed = FALSE /\ timer'.left = 0
        /\ pattern' = pattern /\ step' = step /\ sounding' = sounding /\ amiss' = amiss
    BY BuzzerRanges DEF Fire, At, Ticker
  <1>2. Ticker'.pc = "play" /\ Setter' = Setter
    <2>1. "timer" \in Tasks
      BY DEF Tasks
    <2>2. Ticker' = [pc |-> "play", on |-> Ticker.on, time |-> Ticker.time] /\ Setter' = Setter
      BY <2>1, TaskGoes DEF Fire
    <2> QED
      BY <2>2
  <1>3. Longest' = Longest
    BY <1>1 DEF Longest
  <1>4. Alive' /\ Places' /\ Hush'
    BY <1>1, <1>2, BuzzerRanges DEF BuzzerInv, Alive, Places, Hush, Playing
  <1>5. CASE pattern \notin Alarms
    BY <1>1, <1>4, <1>5 DEF Loud, BuzzerInv
  <1>6. CASE pattern \in Alarms
    <2>1. Racing' = Racing /\ Owed' = Owed
      BY <1>1, <1>2 DEF Racing, Owed, BuzzerInv, Places
    <2>2. Pause(pattern', step') = Pause(pattern, step) /\ Pause(pattern, step) \in 0..34
      BY <1>1, <1>6, BuzzerRanges
    <2>3. Due => amiss' + Pause(pattern', step') <= Longest'
      BY <1>1, <1>3, <1>6, <2>2, LoudReads, BuzzerRanges DEF Due
    <2>4. Due => Due'
      BY <1>2, <2>3 DEF Due
    <2>5. Loud'
      BY <1>1, <1>3, <1>6, <2>1, <2>4, LoudReads DEF Loud
    <2> QED
      BY <1>4, <2>5 DEF BuzzerInv
  <1> QED
    BY <1>5, <1>6

LEMMA PassInv ==
    ASSUME BuzzerTypeOK, BuzzerInv, Pass
    PROVE  BuzzerInv'
  <1>1. /\ Ticker.pc = "idle" /\ Setter.pc = "idle" /\ ~(timer.armed /\ timer.left = 0)
        /\ timer'.armed = timer.armed
        /\ timer'.left = IF timer.armed THEN timer.left - 1 ELSE timer.left
        /\ pattern' = pattern /\ step' = step /\ sounding' = sounding
        /\ Ticker' = Ticker /\ Setter' = Setter
    BY BuzzerRanges DEF Pass, At, Ticker, Setter
  <1>2. /\ amiss' \in Nat /\ amiss' <= amiss + 1
        /\ sounding = (pattern # "OFF") => amiss' = 0
    BY BuzzerRanges DEF Pass, AmissMax, LongestOff
  <1>3. Longest' = Longest
    BY <1>1 DEF Longest
  <1>4. Alive' /\ Places'
    BY <1>1 DEF BuzzerInv, Alive, Places, Playing
  <1>5. CASE pattern = "OFF"
    <2>1. sounding => amiss' <= 4 /\ timer.armed /\ amiss' + timer'.left <= 4
      BY <1>1, <1>2, <1>5, BuzzerRanges DEF BuzzerInv, Hush
    <2>2. ~sounding => amiss' = 0
      BY <1>2, <1>5, BuzzerRanges
    <2>3. Hush'
      BY <1>1, <1>2, <2>1, <2>2, BuzzerRanges DEF Hush
    <2>4. Loud'
      BY <1>1, <1>5, BuzzerRanges DEF Loud
    <2> QED
      BY <1>4, <2>3, <2>4 DEF BuzzerInv
  <1>6. CASE pattern \in Alarms
    <2>1. timer.armed /\ pattern # "OFF" /\ timer.left >= 1 /\ ~Racing /\ ~Racing'
      BY <1>1, <1>6, BuzzerRanges DEF BuzzerInv, Alive, Racing, Playing
    <2>2. Pause(pattern', step') = Pause(pattern, step) /\ Pause(pattern, step) \in 0..34
      BY <1>1, <1>6, BuzzerRanges
    <2>3. CASE sounding
      <3>1. amiss' = 0
        BY <1>2, <2>1, <2>3
      <3> QED
        BY <1>1, <1>3, <1>4, <1>6, <2>1, <2>3, <3>1, LoudReads, BuzzerRanges
        DEF BuzzerInv, Hush, Loud, Due
    <2>4. CASE ~sounding
      <3>1. (amiss + Pause(pattern, step)) + timer.left <= Longest
        BY <1>1, <1>6, <2>1, <2>4, LoudReads DEF Due
      <3>2. amiss' <= Longest' /\ (amiss' + Pause(pattern', step')) + timer'.left <= Longest'
        <4>1. timer'.left = timer.left - 1
          BY <1>1, <2>1
        <4>2. amiss \in Nat /\ timer.left \in Nat /\ Longest \in Nat
          BY <1>6, LoudReads, BuzzerRanges
        <4>3. (amiss + Pause(pattern', step')) + timer.left <= Longest
          BY <2>2, <3>1
        <4>4. Pause(pattern', step') \in Nat
          BY <2>2
        <4> QED
          BY <1>2, <1>3, <2>1, <4>1, <4>2, <4>3, <4>4
      <3>3. Due'
        BY <1>1, <2>4, <3>2 DEF Due
      <3>4. Hush' /\ Loud'
        BY <1>1, <2>1, <3>2, <3>3 DEF Hush, Loud
      <3> QED
        BY <1>4, <3>4 DEF BuzzerInv
    <2> QED
      BY <2>3, <2>4, BuzzerRanges
  <1> QED
    BY <1>5, <1>6, BuzzerRanges

LEMMA BuzzerStarts ==
    ASSUME TickMax \in Nat \ {0}, BuzzerInit
    PROVE  BuzzerTypeOK /\ BuzzerInv
  <1>1. /\ pattern = "OFF" /\ pattern \in Patterns /\ pattern \notin Alarms
        /\ step = 1 /\ sounding = FALSE /\ timer = [armed |-> FALSE, left |-> 0]
        /\ since = 0 /\ amiss = 0
    BY PatternsAre DEF BuzzerInit, Alarms
  <1>2. job = [k \in Tasks |-> Idle] /\ Idle \in Job /\ Idle.pc = "idle"
    BY DEF BuzzerInit, Idle, Job, LongestOff
  <1>3. job \in [Tasks -> Job] /\ Setter = Idle /\ Ticker = Idle
    BY <1>2 DEF Setter, Ticker, Tasks
  <1>4. BuzzerTypeOK
    <2>1. 0 \in 0..TickMax
      OBVIOUS
    <2>2. since \in 0..TickMax /\ amiss \in 0..68 /\ step \in 1..5
      BY <1>1, <2>1
    <2>3. sounding \in BOOLEAN
      BY <1>1
    <2>4. timer \in [armed : BOOLEAN, left : 0..34]
      BY <1>1
    <2> QED
      BY <1>1, <1>3, <2>2, <2>3, <2>4 DEF BuzzerTypeOK, AmissMax, LongestOff
  <1>5. Alive /\ Places /\ Hush /\ Loud
    BY <1>1, <1>2, <1>3 DEF Alive, Places, Hush, Loud, Playing
  <1> QED
    BY <1>4, <1>5 DEF BuzzerInv

LEMMA BuzzerStep ==
    ASSUME BuzzerTypeOK, BuzzerInv, [BuzzerNext]_bvars
    PROVE  BuzzerInv'
  <1>1. CASE UNCHANGED bvars
    BY <1>1 DEF bvars, BuzzerInv, Alive, Places, Hush, Loud, Due, Racing, Owed, Longest,
                Setter, Ticker
  <1>2. CASE BuzzerNext
    BY <1>2, SetPatternInv, StopInv, PlayInv, DriveInv, ArmInv, SilenceInv, FireInv, PassInv
    DEF BuzzerNext, Work
  <1> QED
    BY <1>1, <1>2

LEMMA BuzzerAlways ==
    ASSUME TickMax \in Nat \ {0}
    PROVE  BuzzerSpec => [](BuzzerTypeOK /\ BuzzerInv)
  <1>1. BuzzerInit => BuzzerTypeOK /\ BuzzerInv
    BY BuzzerStarts
  <1>2. BuzzerTypeOK /\ BuzzerInv /\ [BuzzerNext]_bvars => (BuzzerTypeOK /\ BuzzerInv)'
    BY BuzzerTypes, BuzzerStep
  <1> QED
    BY <1>1, <1>2, PTL DEF BuzzerSpec

\* HeardAsAsked (buzzer_set_pattern and pattern_tick, buzzer.c): however the
\* two tasks interleave, an alarm that stays is never silent for longer than
\* the pause that the timer task brings along and its own first one, and OFF is
\* never heard for longer than one beep.
THEOREM BuzzerHeard ==
    ASSUME TickMax \in Nat \ {0}
    PROVE  BuzzerSpec => []HeardAsAsked
  <1>1. BuzzerTypeOK /\ BuzzerInv => HeardAsAsked
    BY BuzzerRanges
    DEF BuzzerInv, Hush, Loud, Longest, HeardAsAsked, LongestOn, LongestOff
  <1> QED
    BY <1>1, BuzzerAlways, PTL

\* TimerKeptAlive (pattern_tick and start_timer, buzzer.c): between the calls of
\* its tasks an alarm always has the timer of its next step running, even after
\* an esp_timer_start_once that failed.
THEOREM BuzzerNeverStalls ==
    ASSUME TickMax \in Nat \ {0}
    PROVE  BuzzerSpec => []TimerKeptAlive
  <1>1. BuzzerTypeOK /\ BuzzerInv => TimerKeptAlive
    BY BuzzerRanges
    DEF BuzzerInv, Alive, Playing, Setter, Ticker, TimerKeptAlive, At
  <1> QED
    BY <1>1, BuzzerAlways, PTL

=============================================================================
