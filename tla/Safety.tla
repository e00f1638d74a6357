------------------------------- MODULE Safety -------------------------------
(***************************************************************************)
(* The safety state machine of the controller: safety_step() of            *)
(* firmware/components/safety/src/safety.c and its table of rules,          *)
(* safety_rules.def.                                                        *)
(*                                                                         *)
(* Time is the controller's monotonic clock in abstract ticks.  The model   *)
(* keeps true instants; the code's uint32_t wrap-around is in Elapsed and   *)
(* Later, the only two operators that compare instants.                    *)
(*                                                                         *)
(* The numeric part of the thermal judgments (thresholds on the hottest     *)
(* pixel, the regression over the trend buffer, the tier look-ahead) is     *)
(* abstracted to the verdict it reaches, an input of the step; what the     *)
(* machine does with a verdict, latches and timers included, is modelled.   *)
(***************************************************************************)
EXTENDS Integers, FiniteSetsExt

CONSTANTS
    Configs,        \* the configurations offered to the machine, refused ones too
    Inputs,         \* what one step may read
    StepGaps,       \* ticks between two steps (more than one after a stall)
    PauseStepMax,   \* pause_clock's cap on one step, 1000 ms in the code
    TopTier,        \* the hottest temperature tier, 5 in the code
    Wrap,           \* 2^32 in the code
    MaxTime         \* bound on the clock

HotTiers == 2..TopTier

TierSetting == [on : BOOLEAN, warning : Nat, shutdown : Nat]

Config ==
    [ warning : Nat, shutdown : Nat, self_test_timeout : Nat,
      absence_debounce : Nat, return_debounce : Nat, return_gap : Nat,
      shutdown_timing : {"unattended_start", "warning_start"},
      warning_exit : {"presence", "ack"},
      cooling_policy : {"idle", "keep_timers"},
      fault_shutdown : Nat,
      pause_budget : Nat, pause_pct : Nat,
      trend : BOOLEAN, falling_hold : BOOLEAN,
      cooling_hold_max : Nat, falling_hold_max : Nat, look_window : Nat,
      warning_min_after_hold : Nat, late_warning_min : Nat,
      tier_up_persist : Nat, tier_down_persist : Nat,
      tiers : [HotTiers -> TierSetting] ]

(***************************************************************************)
(* presence   the fused radar reading                                      *)
(* pan        the thermal reading against the cooking thresholds: "cooking" *)
(*            starts cooking, "hold" only keeps it, "over" ends it, "lost"  *)
(*            is an invalid camera                                          *)
(* fit        the trend: no fit yet, clearly only cooling, clearly heat     *)
(*            going in (or the model does not fit), or in between           *)
(* fast       the short-window rate against falling_rate_needed             *)
(* tier_up    tier_for() of the reading; tier_down the same less tier_hyst  *)
(***************************************************************************)
Input ==
    [ presence : {"present", "absent", "unknown"},
      pan : {"cooking", "hold", "over", "lost"},
      fit : {"unknown", "cooling", "between", "heating"},
      fast : {"unknown", "falling", "steady", "rising"},
      tier_up : 1..TopTier, tier_down : 1..TopTier,
      self_test : {"pending", "pass", "fail"},
      safety_fault : BOOLEAN,
      reset_request : BOOLEAN ]

ASSUME ConfigsAssumption == Configs \subseteq Config
ASSUME InputsAssumption ==
    /\ Inputs \subseteq Input
    /\ \A in \in Inputs : in.tier_up <= in.tier_down
ASSUME ClockAssumption ==
    /\ StepGaps \subseteq Nat
    /\ PauseStepMax \in Nat /\ MaxTime \in Nat
    /\ Wrap \in Nat \ {0} /\ TopTier \in Nat \ {0}

VARIABLES
    now,    \* the time of the last step
    cfg,    \* the configuration in force
    heat,   \* the heat detector and the latched "only cooling" judgment
    tier,   \* the temperature tier in force and the one waiting to take over
    back,   \* the return timer: how long someone has been seen
    sm      \* the state, the absence timer and the unattended timeline

vars == <<now, cfg, heat, tier, back, sm>>

States == {"BOOT", "SELF_TEST", "IDLE", "MONITORING",
           "UNATTENDED", "WARNING", "SHUTDOWN", "FAULT"}

Holds == {"none", "return", "cooling", "falling", "checking"}

Heat == [active : BOOLEAN, cooling : BOOLEAN, cooling_since : Nat]
Tier == [tier : 1..TopTier, pending : 1..TopTier, pending_since : Nat]
Back == [timing : BOOLEAN, since : Nat, last : Nat]
Machine ==
    [ state : States, state_entered : Nat, monitoring_since : Nat,
      absent_timing : BOOLEAN, absent_since : Nat,
      unattended_active : BOOLEAN, unattended_start : Nat,
      warning_started : BOOLEAN, warning_start : Nat,
      held_once : BOOLEAN, late_warning : BOOLEAN,
      falling_hold_started : BOOLEAN, falling_hold_since : Nat,
      checking : BOOLEAN, checking_since : Nat,
      return_hold_active : BOOLEAN, return_hold_since : Nat,
      pause_used : Nat, hold : Holds, eff_shutdown : Nat ]

TypeOK ==
    /\ now \in Nat
    /\ cfg \in Config
    /\ heat \in Heat
    /\ tier \in Tier
    /\ back \in Back
    /\ sm \in Machine

-----------------------------------------------------------------------------
(* Time. *)

Min2(a, b) == IF a < b THEN a ELSE b

Elapsed(t, since, timeout) == (t - since) % Wrap >= timeout

\* A mutant: the countdown may start before cooking did.
LaterMutant(a, b) == IF a < b THEN a ELSE b

\* The later of two instants, as the code tells it: by the sign of the
\* difference in a word that wraps around.
Later(a, b) ==
    LET d == (a - b) % Wrap
    IN  IF 0 < d /\ d < Wrap \div 2 THEN a ELSE b

-----------------------------------------------------------------------------
(* Configuration. *)

ShutdownAfterWarning(c, w, s) ==
    c.shutdown_timing = "unattended_start" => s > w

SafetyConfigValid(c) ==
    /\ c.warning # 0 /\ c.shutdown # 0 /\ c.self_test_timeout # 0
    /\ ShutdownAfterWarning(c, c.warning, c.shutdown)
    /\ c.pause_pct <= 100
    /\ \A k \in HotTiers :
          c.tiers[k].on =>
             /\ c.tiers[k].warning # 0 /\ c.tiers[k].shutdown # 0
             /\ ShutdownAfterWarning(c, c.tiers[k].warning, c.tiers[k].shutdown)

\* A tier can only shorten the base times.
TierApplies(c, k) ==
    k \in HotTiers /\ c.tiers[k].warning # 0 /\ c.tiers[k].shutdown # 0

EffWarning(c, k) ==
    IF TierApplies(c, k) THEN Min2(c.tiers[k].warning, c.warning) ELSE c.warning

TierShutdown(c, k) ==
    LET w == c.tiers[k].warning
        s == c.tiers[k].shutdown
    IN  IF c.shutdown_timing = "unattended_start" THEN s
        ELSE IF s > w THEN s - w ELSE 1

EffShutdown(c, k) ==
    IF TierApplies(c, k) THEN Min2(TierShutdown(c, k), c.shutdown) ELSE c.shutdown

-----------------------------------------------------------------------------
(* Heat, tiers and the return timer: each worked out from its own state. *)

HeatDetect(active, pan) ==
    IF pan = "lost" THEN active ELSE pan = "cooking" \/ (active /\ pan = "hold")

\* A mutant: the limit of the cooling hold moves on with every step.
JudgeHeatMutant(h, in, c, t) ==
    LET active == HeatDetect(h.active, in.pan)
        cooling == /\ active /\ c.trend
                   /\ in.fit = "cooling" \/ (in.fit = "between" /\ h.cooling)
    IN  [active |-> active, cooling |-> cooling, cooling_since |-> t]

JudgeHeat(h, in, c, t) ==
    LET active == HeatDetect(h.active, in.pan)
        judged == active /\ c.trend
        cooling == /\ judged
                   /\ in.fit = "cooling" \/ (in.fit = "between" /\ h.cooling)
    IN  [ active |-> active,
          cooling |-> cooling,
          cooling_since |-> IF cooling /\ ~h.cooling THEN t ELSE h.cooling_since ]

UpdateTier(k, active, in, c, t) ==
    LET target == IF in.tier_up > k.tier THEN in.tier_up ELSE Min2(in.tier_down, k.tier)
        persist == IF target > k.tier THEN c.tier_up_persist ELSE c.tier_down_persist
    IN  IF ~active THEN [k EXCEPT !.tier = 1, !.pending = 1]
        ELSE IF in.pan = "lost" THEN k
        ELSE IF target = k.tier THEN [k EXCEPT !.pending = target]
        ELSE IF k.pending # target THEN [k EXCEPT !.pending = target, !.pending_since = t]
        ELSE IF Elapsed(t, k.pending_since, persist) THEN [k EXCEPT !.tier = target]
        ELSE k

ReturnTimer(b, presence, c, t) ==
    IF presence = "present"
    THEN [timing |-> TRUE, since |-> IF b.timing THEN b.since ELSE t, last |-> t]
    ELSE [b EXCEPT !.timing = @ /\ presence # "unknown" /\ ~Elapsed(t, b.last, c.return_gap)]

\* A mutant: a single reading confirms a return.
PresentConfirmedMutant(b, presence, c, t) == b.timing /\ presence = "present"

PresentConfirmed(b, presence, c, t) ==
    b.timing /\ presence = "present" /\ Elapsed(t, b.since, c.return_debounce)

-----------------------------------------------------------------------------
(***************************************************************************)
(* What every guard of a step reads, worked out once: the evaluation passes *)
(* of a step change none of it.                                            *)
(***************************************************************************)
Facts(in, c, t, h, k, b) ==
    [ t |-> t, cfg |-> c,
      presence |-> in.presence, thermal_valid |-> in.pan # "lost",
      self_test |-> in.self_test, safety_fault |-> in.safety_fault,
      reset_request |-> in.reset_request,
      cooking |-> h.active,
      person_returned |-> PresentConfirmed(b, in.presence, c, t),
      returning |-> b.timing /\ in.presence = "present",
      only_cooling |-> /\ h.active /\ h.cooling
                       /\ ~Elapsed(t, h.cooling_since, c.cooling_hold_max),
      pan_falling |-> /\ c.falling_hold /\ h.active /\ in.pan # "lost"
                      /\ in.fast = "falling",
      rising |-> in.fast = "rising",
      eff_warning |-> EffWarning(c, k.tier),
      eff_shutdown |-> EffShutdown(c, k.tier) ]

\* UNKNOWN while cooking counts as absent.
EffectivePresence(e) ==
    IF e.presence = "unknown" /\ e.cooking THEN "absent" ELSE e.presence

AbsenceTimer(s, e) ==
    IF e.person_returned \/ EffectivePresence(e) = "unknown"
    THEN [s EXCEPT !.absent_timing = FALSE]
    ELSE IF EffectivePresence(e) = "absent" /\ ~s.absent_timing
    THEN [s EXCEPT !.absent_timing = TRUE, !.absent_since = e.t]
    ELSE s

PauseBudget(s, c) ==
    LET shutdown == IF s.eff_shutdown # 0 THEN s.eff_shutdown ELSE c.shutdown
    IN  IF c.pause_pct \in 1..99
        THEN Min2((shutdown * c.pause_pct) \div 100, c.pause_budget)
        ELSE c.pause_budget

\* A mutant: the time the countdown stood still is not put on the account.
PauseClockUnaccounted(s, presence, c, gap) ==
    IF s.state \in {"UNATTENDED", "WARNING"} /\ presence = "present"
    THEN [s EXCEPT !.unattended_start = @ + Min2(gap, PauseStepMax)]
    ELSE s

\* While someone is seen the countdown stands still: both of its starts move
\* on with the clock, as far as the budget of the timeline goes.
PauseClock(s, presence, c, gap) ==
    LET left == PauseBudget(s, c) - s.pause_used
        dt == Min2(Min2(gap, PauseStepMax), left)
    IN  IF /\ s.state \in {"UNATTENDED", "WARNING"} /\ s.unattended_active
           /\ presence = "present"
           /\ left > 0
        THEN [s EXCEPT !.unattended_start = @ + dt,
                       !.warning_start = IF s.warning_started THEN @ + dt ELSE @,
                       !.pause_used = @ + dt]
        ELSE s

-----------------------------------------------------------------------------
(* Leaving and entering a state. *)

ClearUnattended(s) ==
    [s EXCEPT !.unattended_active = FALSE, !.warning_started = FALSE,
              !.held_once = FALSE, !.late_warning = FALSE,
              !.falling_hold_started = FALSE, !.checking = FALSE,
              !.pause_used = 0]

\* A mutant: the reset forgets the absence that came before it.
OnExitMutant(s, e) == IF s.state = "SHUTDOWN" THEN ClearUnattended(s) ELSE s

OnExit(s, e) ==
    IF s.state # "SHUTDOWN" THEN s
    ELSE [ClearUnattended(s) EXCEPT !.absent_since = IF s.absent_timing THEN e.t ELSE @]

\* A mutant: every entry to UNATTENDED starts the countdown over.
StartUnattendedMutant(s, e) ==
    [s EXCEPT !.unattended_active = TRUE, !.unattended_start = e.t, !.checking = FALSE]

\* The countdown runs from when the absence began, never from before cooking.
StartUnattended(s, e) ==
    IF s.unattended_active THEN s
    ELSE [s EXCEPT !.unattended_active = TRUE,
                   !.unattended_start = IF s.absent_timing
                                        THEN Later(s.absent_since, s.monitoring_since)
                                        ELSE e.t,
                   !.held_once = @ \/ (s.checking /\ s.falling_hold_started),
                   !.checking = FALSE]

StartWarning(s, e) ==
    IF s.warning_started THEN s
    ELSE [s EXCEPT !.warning_started = TRUE, !.warning_start = e.t]

OnEnter(s, e) ==
    CASE s.state = "IDLE" -> ClearUnattended(s)
      [] s.state = "MONITORING" -> [ClearUnattended(s) EXCEPT !.monitoring_since = e.t]
      [] s.state = "UNATTENDED" -> StartUnattended(s, e)
      [] s.state = "WARNING" -> StartWarning(s, e)
      [] OTHER -> s

Transition(s, to, e) ==
    OnEnter([OnExit(s, e) EXCEPT !.state = to, !.state_entered = e.t], e)

-----------------------------------------------------------------------------
(* When a step is due, and what holds a due one back. *)

AbsentConfirmed(s, e) ==
    s.absent_timing /\ Elapsed(e.t, s.absent_since, e.cfg.absence_debounce)

WarningDue(s, e) ==
    s.unattended_active /\ Elapsed(e.t, s.unattended_start, e.eff_warning)

ShutdownDue(s, e) ==
    IF e.cfg.shutdown_timing = "unattended_start"
    THEN s.unattended_active /\ Elapsed(e.t, s.unattended_start, e.eff_shutdown)
    ELSE s.warning_started /\ Elapsed(e.t, s.warning_start, e.eff_shutdown)

CooledDown(e) == ~e.cooking /\ e.cfg.cooling_policy = "idle"

\* A falling pan takes the hold's limit from the first fall of the timeline.
NoteFall(s, since) ==
    IF s.falling_hold_started THEN s
    ELSE [s EXCEPT !.falling_hold_started = TRUE, !.falling_hold_since = since]

ReturnHold(s, e) ==
    LET since == IF s.return_hold_active THEN s.return_hold_since ELSE e.t
        cap == e.cfg.return_debounce + e.cfg.return_gap
    IN  [s EXCEPT !.return_hold_active = TRUE, !.return_hold_since = since,
                  !.hold = IF Elapsed(e.t, since, cap) THEN "none" ELSE "return"]

\* hold_reason: the cooling hold, then the falling hold, then the return hold.
HoldReason(s, e, due) ==
    LET fall == IF e.pan_falling THEN NoteFall(s, e.t) ELSE s
        letgo == [s EXCEPT !.return_hold_active = FALSE]
    IN  IF ~due THEN letgo
        ELSE IF e.only_cooling THEN [s EXCEPT !.hold = "cooling"]
        ELSE IF /\ e.pan_falling
                /\ ~Elapsed(e.t, fall.falling_hold_since, e.cfg.falling_hold_max)
        THEN [fall EXCEPT !.hold = "falling"]
        ELSE IF e.returning /\ ~e.person_returned THEN ReturnHold(fall, e)
        ELSE [fall EXCEPT !.return_hold_active = FALSE]

\* A mutant: a hold leaves no note of itself.
UpdateHoldMutant(s, e, due) == HoldReason(s, e, due)

UpdateHold(s, e, due) ==
    LET h == HoldReason(s, e, due)
    IN  [h EXCEPT !.held_once = @ \/ h.hold # "none"]

\* The absence is confirmed, but the pan may just have been switched off: take
\* a look before the countdown starts, and wait on while the pan falls.
Looking(s, e) ==
    LET away_since == Later(s.absent_since, s.monitoring_since)
    IN  /\ e.cfg.falling_hold /\ e.cooking /\ e.thermal_valid /\ ~e.rising
        /\ ~Elapsed(e.t, away_since, e.cfg.look_window)
        /\ ~Elapsed(e.t, away_since, e.eff_warning)

CheckFirst(s, e) ==
    LET since == IF s.checking THEN s.checking_since ELSE e.t
        open == [s EXCEPT !.checking = TRUE, !.checking_since = since]
        seen == IF e.pan_falling THEN NoteFall(open, since) ELSE open
    IN  IF ~AbsentConfirmed(s, e)
        THEN [s EXCEPT !.checking = FALSE,
                       !.falling_hold_started = @ /\ ~s.checking]
        ELSE IF ~Looking(s, e) /\ ~e.pan_falling THEN s
        ELSE [seen EXCEPT !.hold = IF Elapsed(e.t, since, e.cfg.falling_hold_max)
                                   THEN "none" ELSE "checking"]

HoldBack(s, e) ==
    CASE s.state = "MONITORING" -> CheckFirst(s, e)
      [] s.state = "UNATTENDED" -> UpdateHold(s, e, WarningDue(s, e))
      [] s.state = "WARNING" -> UpdateHold(s, e, ShutdownDue(s, e))
      [] OTHER -> s

\* After a hold, or when the shutdown was already due at the warning, the
\* buzzer sounds for a minimum time first.
Dwell(s, e) ==
    IF s.held_once THEN e.cfg.warning_min_after_hold
    ELSE IF s.late_warning THEN e.cfg.late_warning_min ELSE 0

-----------------------------------------------------------------------------
(***************************************************************************)
(* The rules T01 to T21 of safety_rules.def, in the order they are tried.   *)
(***************************************************************************)
Rule == 1..21
Running == {"IDLE", "MONITORING", "UNATTENDED", "WARNING"}

From ==
    << {"BOOT"}, {"SELF_TEST"}, {"SELF_TEST"}, {"SELF_TEST"},
       Running, Running,
       {"IDLE"}, {"MONITORING"}, {"MONITORING"},
       {"UNATTENDED"}, {"UNATTENDED"}, {"UNATTENDED"},
       {"WARNING"}, {"WARNING"}, {"WARNING"},
       {"SHUTDOWN"},
       {"FAULT"}, {"FAULT"}, {"FAULT"}, {"FAULT"}, {"FAULT"} >>

To ==
    << "SELF_TEST", "FAULT", "IDLE", "FAULT",
       "FAULT", "FAULT",
       "MONITORING", "IDLE", "UNATTENDED",
       "MONITORING", "IDLE", "WARNING",
       "MONITORING", "IDLE", "SHUTDOWN",
       "IDLE",
       "IDLE", "MONITORING", "UNATTENDED", "SHUTDOWN", "SHUTDOWN" >>

\* The rules whose guards work out a hold, each the last of its state.
HoldRules == {9, 12, 15}

\* A mutant: the self-test is not asked again before FAULT is left.
SystemOkMutant(e) == ~e.safety_fault

SystemOk(e) == ~e.safety_fault /\ e.self_test = "pass"

Guard(r, s, e) ==
    CASE r = 1 -> TRUE
      [] r = 2 -> e.self_test = "fail"
      [] r = 3 -> e.self_test = "pass"
      [] r = 4 -> Elapsed(e.t, s.state_entered, e.cfg.self_test_timeout)
      [] r = 5 -> e.self_test # "pass"
      [] r = 6 -> e.safety_fault
      [] r = 7 -> e.cooking
      [] r = 8 -> ~e.cooking
      [] r = 9 -> AbsentConfirmed(s, e) /\ s.hold = "none"
      [] r = 10 -> e.person_returned
      [] r \in {11, 14} -> CooledDown(e)
      [] r = 12 -> WarningDue(s, e) /\ s.hold = "none"
      [] r = 13 -> e.person_returned /\ (e.cfg.warning_exit = "presence" \/ e.reset_request)
      [] r = 15 -> /\ ShutdownDue(s, e) /\ s.hold = "none"
                   /\ Elapsed(e.t, s.state_entered, Dwell(s, e))
      [] r = 16 -> e.reset_request
      [] r = 17 -> SystemOk(e) /\ ~e.cooking
      [] r = 18 -> SystemOk(e) /\ e.presence = "present"
      [] r = 19 -> SystemOk(e)
      [] r = 20 -> ShutdownDue(s, e)
      [] r = 21 -> /\ e.cfg.fault_shutdown > 0
                   /\ Elapsed(e.t, s.state_entered, e.cfg.fault_shutdown)

Fires(s, e) == {r \in Rule : s.state \in From[r] /\ Guard(r, s, e)}

\* a_note_late_warning and a_count_from_fault, run just before a transition.
RuleAction(r, s, e) ==
    CASE r = 12 -> [s EXCEPT !.late_warning = ShutdownDue(s, e)]
      [] r = 19 /\ ~s.unattended_active ->
            [s EXCEPT !.unattended_active = TRUE, !.unattended_start = s.state_entered]
      [] OTHER -> s

Take(r, s, e) == Transition(RuleAction(r, s, e), To[r], e)

\* One evaluation pass: the first rule of the state whose guard holds.
Evaluate(s, e) ==
    LET fresh == [s EXCEPT !.hold = "none", !.eff_shutdown = e.eff_shutdown]
        plain == Fires(fresh, e) \ HoldRules
        held == HoldBack(fresh, e)
        due == Fires(held, e) \cap HoldRules
    IN  IF plain # {} THEN [sm |-> Take(Min(plain), fresh, e), again |-> TRUE]
        ELSE IF due # {} THEN [sm |-> Take(Min(due), held, e), again |-> TRUE]
        ELSE [sm |-> held, again |-> FALSE]

Pass(p, e) == IF p.again THEN Evaluate(p.sm, e) ELSE p

\* A mutant: three passes a step.
SettleMutant(s, e) == Pass(Pass(Pass([sm |-> s, again |-> TRUE], e), e), e)

\* Chained transitions settle in one step: at most one pass per state.
Settle(s, e) ==
    LET p4 == Pass(Pass(Pass(Pass([sm |-> s, again |-> TRUE], e), e), e), e)
    IN  Pass(Pass(Pass(Pass(p4, e), e), e), e)

-----------------------------------------------------------------------------
(* What the controller's task does with the machine. *)

Init ==
    /\ now = 0
    /\ cfg \in {c \in Configs : SafetyConfigValid(c)}
    /\ heat = [active |-> FALSE, cooling |-> FALSE, cooling_since |-> 0]
    /\ tier = [tier |-> 1, pending |-> 1, pending_since |-> 0]
    /\ back = [timing |-> FALSE, since |-> 0, last |-> 0]
    /\ sm = [ state |-> "BOOT", state_entered |-> 0, monitoring_since |-> 0,
              absent_timing |-> FALSE, absent_since |-> 0,
              unattended_active |-> FALSE, unattended_start |-> 0,
              warning_started |-> FALSE, warning_start |-> 0,
              held_once |-> FALSE, late_warning |-> FALSE,
              falling_hold_started |-> FALSE, falling_hold_since |-> 0,
              checking |-> FALSE, checking_since |-> 0,
              return_hold_active |-> FALSE, return_hold_since |-> 0,
              pause_used |-> 0, hold |-> "none", eff_shutdown |-> 0 ]

\* tier_for() never picks a tier that is switched off.
TiersOffered(in, c) ==
    \A k \in {in.tier_up, in.tier_down} \ {1} : c.tiers[k].on

\* The machine before its rules are tried.
Prepared(s, in, c, gap, e) == AbsenceTimer(PauseClock(s, in.presence, c, gap), e)

\* What a step works out, from the heat detector to the last evaluation pass.
Outcome(in, gap) ==
    LET t == now + gap
        h == JudgeHeat(heat, in, cfg, t)
        k == UpdateTier(tier, h.active, in, cfg, t)
        b == ReturnTimer(back, in.presence, cfg, t)
        e == Facts(in, cfg, t, h, k, b)
        settled == Settle(Prepared(sm, in, cfg, gap, e), e)
    IN  [heat |-> h, tier |-> k, back |-> b, sm |-> settled.sm, unsettled |-> settled.again]

\* safety_step(in, now)
Step(in, gap) ==
    /\ now + gap <= MaxTime
    /\ TiersOffered(in, cfg)
    /\ LET o == Outcome(in, gap)
       IN  heat' = o.heat /\ tier' = o.tier /\ back' = o.back /\ sm' = o.sm
    /\ now' = now + gap
    /\ UNCHANGED cfg

\* safety_set_config(c): refused when it is not valid.
SetConfig(c) ==
    /\ cfg' = IF SafetyConfigValid(c) THEN c ELSE cfg
    /\ UNCHANGED <<now, heat, tier, back, sm>>

\* What menuconfig fixes, no command and no setting changes.
SameBuild(c, d) ==
    /\ c.shutdown_timing = d.shutdown_timing /\ c.warning_exit = d.warning_exit
    /\ c.cooling_policy = d.cooling_policy /\ c.self_test_timeout = d.self_test_timeout

Next ==
    \/ \E in \in Inputs, gap \in StepGaps : Step(in, gap)
    \/ \E c \in Configs : SameBuild(c, cfg) /\ SetConfig(c)

Spec == Init /\ [][Next]_vars
=============================================================================
