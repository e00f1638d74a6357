---------------------------- MODULE SafetyProps ----------------------------
(***************************************************************************)
(* What the safety state machine promises.  A record of history watches the *)
(* machine from outside: it is worked out from the readings and the states  *)
(* of the steps, never read by the machine, and the properties compare the  *)
(* machine's own timers with it.                                           *)
(***************************************************************************)
EXTENDS Safety

VARIABLE hist

wvars == <<vars, hist>>

History ==
    [ began : Nat,        \* where the open timeline's countdown started
      alone_since : Nat,  \* the last step nobody had to be counted away
      danger_since : Nat, \* hot, nobody seen, nothing to wait for, since then
      last_seen : Nat,    \* the last reading "present"
      away_until : Nat,   \* the last reading that breaks a return
      held : BOOLEAN,     \* the open timeline was held
      fell : Nat,         \* its first falling hold
      falling : BOOLEAN,  \* it had one
      held_since : Nat,   \* a due step has been held back without a break since then
      reset : BOOLEAN,    \* the last step took a reset request
      fault : BOOLEAN ]   \* the last step read a controller fault

HInit ==
    /\ Init
    /\ hist = [ began |-> 0, alone_since |-> 0, danger_since |-> 0,
                last_seen |-> 0, away_until |-> 0,
                held |-> FALSE, fell |-> 0, falling |-> FALSE,
                held_since |-> 0, reset |-> FALSE, fault |-> FALSE ]

\* The step closed the open timeline, whether or not it opened another.
Reopened(paused) ==
    /\ sm.unattended_active
    /\ \/ sm'.unattended_start # paused.unattended_start
       \/ sm'.pause_used < paused.pause_used

\* Nobody has to be counted away: nothing is cooking, someone is confirmed, or
\* an operator has just reset the machine.
Attended(in) ==
    \/ sm'.state \in {"BOOT", "SELF_TEST", "IDLE"}
    \/ /\ in.reset_request
       /\ \/ sm.state = "SHUTDOWN"
          \/ sm.unattended_active /\ ~sm'.unattended_active
    \/ /\ sm'.state = "MONITORING"
       /\ PresentConfirmed(back', in.presence, cfg, now')

\* A pan with heat going in and nobody in sight, in a machine that has booted,
\* told from the readings alone; a lost camera does not end it.  Where the
\* shutdown is timed from the buzzer, a fault that silences the buzzer puts the
\* shutdown off; and with the fault shutdown switched off a fault can last:
\* there the wait starts over with the fault.
Danger(in) ==
    /\ in.pan = "cooking" \/ (in.pan \in {"hold", "lost"} /\ hist.danger_since # now)
    /\ in.fit \in {"unknown", "heating"} /\ in.fast # "falling"
    /\ in.presence # "present"
    /\ ~in.reset_request
    /\ sm'.state \notin {"BOOT", "SELF_TEST"}
    /\ sm'.state = "FAULT" =>
          cfg.shutdown_timing = "unattended_start" /\ cfg.fault_shutdown > 0

\* The holds of a due buzzer or shutdown ("checking" comes before a countdown).
DueHolds == {"return", "cooling", "falling"}

HStep(in, gap) ==
    /\ Step(in, gap)
    /\ LET paused == PauseClock(sm, in.presence, cfg, gap)
           anew == ~sm.unattended_active \/ Reopened(paused)
           open == sm'.unattended_active
           breaks == \/ in.presence = "unknown"
                     \/ in.presence = "absent" /\ now' - hist.last_seen >= cfg.return_gap
           kept == open /\ ~anew
           falls == open /\ sm'.hold = "falling"
       IN  hist' =
             [ began |-> IF open /\ anew THEN sm'.unattended_start ELSE hist.began,
               alone_since |-> IF Attended(in) THEN now' ELSE hist.alone_since,
               danger_since |-> IF Danger(in) THEN hist.danger_since ELSE now',
               last_seen |-> IF in.presence = "present" THEN now' ELSE hist.last_seen,
               away_until |-> IF breaks THEN now' ELSE hist.away_until,
               held |-> (kept /\ hist.held) \/ (open /\ sm'.hold \in DueHolds),
               fell |-> IF falls /\ ~(kept /\ hist.falling) THEN now' ELSE hist.fell,
               falling |-> falls \/ (kept /\ hist.falling),
               held_since |-> IF sm'.hold \in DueHolds /\ sm'.state = sm.state
                              THEN hist.held_since ELSE now',
               reset |-> in.reset_request,
               fault |-> in.safety_fault \/ in.self_test # "pass" ]

HSetConfig(c) ==
    /\ SetConfig(c)
    /\ hist' = IF cfg' = cfg THEN hist ELSE [hist EXCEPT !.danger_since = now]

HNext ==
    \/ \E in \in Inputs, gap \in StepGaps : HStep(in, gap)
    \/ \E c \in Configs : SameBuild(c, cfg) /\ HSetConfig(c)

HSpec == HInit /\ [][HNext]_wvars

-----------------------------------------------------------------------------
(* Invariants. *)

\* The flags of the timeline agree with the state: UNATTENDED and WARNING run
\* one, IDLE and MONITORING never do, a closed one has kept nothing
\* (clear_unattended), and a buzzer start needs a running timeline.
Shape(s) ==
    /\ s.state \in {"UNATTENDED", "WARNING"} => s.unattended_active
    /\ s.state = "WARNING" => s.warning_started
    /\ s.state \in {"BOOT", "SELF_TEST", "IDLE", "MONITORING"} => ~s.unattended_active
    /\ s.warning_started => s.unattended_active
    /\ ~s.unattended_active => s.pause_used = 0 /\ ~s.late_warning

TimelineShape == Shape(sm)

\* Every instant the machine compares with the clock is in the past: a start
\* pushed beyond now (by a pause, or by the later of two instants) would make
\* the wrapped difference huge and the warning and shutdown due at once.
Past(s, t) ==
    /\ s.state_entered <= t /\ s.monitoring_since <= t /\ s.absent_since <= t
    /\ s.unattended_start <= t /\ s.warning_start <= t
    /\ s.falling_hold_since <= t /\ s.checking_since <= t /\ s.return_hold_since <= t

StartsInThePast ==
    /\ Past(sm, now)
    /\ heat.cooling_since <= now /\ tier.pending_since <= now
    /\ back.since <= now /\ back.last <= now

\* The time the countdown stood still is exactly the time on the pause
\* account, so the budget bounds how late a buzzer or a shutdown can be.
PauseAccounted ==
    sm.unattended_active => sm.unattended_start = hist.began + sm.pause_used

\* The passes safety_step allows are enough: whatever is read next, the
\* machine comes to rest, no due transition waits for another step.
SettlesInOneStep == \A in \in Inputs, gap \in StepGaps : ~Outcome(in, gap).unsettled

Max2(a, b) == IF a < b THEN b ELSE a

\* The longest a pan in danger can wait: until the absence is confirmed, then
\* the shutdown time, or a fault that came before the countdown and lasts, then
\* the buzzer's minimum; and the graining of the steps.
Deadline(c) ==
    LET dwell == Max2(c.warning_min_after_hold, c.late_warning_min)
        count == IF c.shutdown_timing = "unattended_start"
                 THEN Max2(c.shutdown, c.fault_shutdown) + dwell
                 ELSE c.warning + Max2(c.shutdown, dwell)
    IN  Max2(c.absence_debounce, c.look_window) + count + 3 * Max(StepGaps)

\* A pan with heat going in and nobody in sight is cut off by its deadline,
\* whatever the faults, tiers, earlier holds and pauses did before or do
\* meanwhile.
CutOffByDeadline ==
    now - hist.danger_since >= Deadline(cfg) =>
        sm.state = "SHUTDOWN"

\* The longest of a setting among the configurations offered.
Most(setting) == Max({c[setting] : c \in Configs})

\* However the three holds take turns, and however often the trend changes its
\* mind, a due buzzer or shutdown is held back for a bounded time: three cooling
\* holds at most fit around the one falling hold and the one return hold, and
\* each of the five begins a step after the one before it has ended.  The
\* falling hold is bounded from the first one of the timeline: falling on and
\* off does not stretch it.
HoldsEnd ==
    /\ sm.hold \in DueHolds =>
         now - hist.held_since <= 3 * Most("cooling_hold_max") + Most("falling_hold_max")
                                    + Most("return_debounce") + Most("return_gap")
                                    + 5 * (Max(StepGaps) - 1)
    /\ sm.hold = "falling" => now - hist.fell < Most("falling_hold_max")

-----------------------------------------------------------------------------
(* Action properties. *)

Cuts == sm.state # "SHUTDOWN" /\ sm'.state = "SHUTDOWN"

FaultPersisted ==
    /\ sm.state = "FAULT" /\ cfg.fault_shutdown > 0
    /\ now' - sm.state_entered >= cfg.fault_shutdown

\* The gas is never cut early: since the last moment nobody had to be counted
\* away (nothing cooking, a confirmed return, a reset) the whole shutdown time
\* in force has passed, and the time spent paused on top; or a fault lasted.
NeverCutEarly ==
    [][Cuts => \/ now' - hist'.alone_since >= sm'.eff_shutdown + sm'.pause_used
               \/ FaultPersisted]_wvars

\* The running countdown is gone, or another has taken its place.
TimelineLost ==
    sm.unattended_active /\ (~sm'.unattended_active \/ hist'.began # hist.began)

\* Someone has been seen for the whole return time, without a gap that counts.
ReturnSeen ==
    /\ hist'.last_seen = now'
    /\ now' - hist'.away_until >= cfg.return_debounce

\* The step reached the shutdown time, and took the operator's reset of it too.
CutAndReset ==
    LET start == IF cfg.shutdown_timing = "unattended_start"
                 THEN sm.unattended_start ELSE sm.warning_start
    IN  hist'.reset /\ now' - start >= EffShutdown(cfg, tier'.tier)

\* A running countdown is cancelled from UNATTENDED or WARNING only by a return
\* that lasted, by the pan cooling down under the policy that says so, or by a
\* reset of the shutdown it led to: no reading on its own cancels it.
OnlyAReturnCancels ==
    [][sm.state \in {"UNATTENDED", "WARNING"} /\ TimelineLost =>
          \/ ReturnSeen
          \/ ~heat'.active /\ cfg.cooling_policy = "idle"
          \/ CutAndReset]_wvars

\* After a hold the buzzer sounds its minimum before WARNING cuts the gas, even
\* if the shutdown was due long before.  A fault read in WARNING does not wait:
\* the step that goes to FAULT cuts the gas at once if the shutdown was due.
BuzzerAfterHold ==
    [][Cuts /\ sm.state = "WARNING" /\ hist.held /\ ~hist'.fault =>
          now' - sm.state_entered >= cfg.warning_min_after_hold]_wvars

\* Nothing but the operator reset leaves SHUTDOWN, and the reset starts all
\* timing over: no timeline, and an absence counted from the reset at most.
ResetStartsOver ==
    [][sm.state = "SHUTDOWN" /\ sm'.state # "SHUTDOWN" =>
          /\ sm'.state \in {"IDLE", "MONITORING", "UNATTENDED", "FAULT"}
          /\ sm'.absent_timing => sm'.absent_since = now'
          /\ sm'.unattended_active => sm'.unattended_start = now'
          /\ ~sm'.warning_started]_wvars

-----------------------------------------------------------------------------
(***************************************************************************)
(* The machine implements the interlock the rest of the controller relies   *)
(* on: a fault it reads is in its state after the same step, a fault that    *)
(* lasts cuts the gas, and SHUTDOWN is left by a reset alone.               *)
(***************************************************************************)
PhaseOf(state) ==
    CASE state \in {"BOOT", "SELF_TEST"} -> "starting"
      [] state = "FAULT" -> "fault"
      [] state = "SHUTDOWN" -> "cut"
      [] OTHER -> "on"

Abstract == INSTANCE Interlock
    WITH Limits <- {c.fault_shutdown : c \in Configs},
         phase <- PhaseOf(sm.state),
         age <- IF sm.state = "FAULT" THEN now - sm.state_entered ELSE 0,
         limit <- cfg.fault_shutdown

\* Every safety_step is a step of the interlock, and a change of the settings
\* changes its limit at most.
ImplementsInterlock ==
    /\ Abstract!Init
    /\ [][IF cfg' = cfg
          THEN Abstract!Step(hist'.fault, hist'.reset, now' - now)
          ELSE Abstract!SetLimit]_wvars

=============================================================================
