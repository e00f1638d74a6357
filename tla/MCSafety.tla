------------------------------ MODULE MCSafety ------------------------------
(* Instances of the safety state machine for TLC. *)
EXTENDS SafetyProps

\* One tick stands for the shortest time a test could tell apart: the absence
\* and return times are one and two ticks, the countdown three and five.
BaseConfig ==
    [ warning |-> 3, shutdown |-> 5, self_test_timeout |-> 1,
      absence_debounce |-> 1, return_debounce |-> 2, return_gap |-> 2,
      shutdown_timing |-> "unattended_start", warning_exit |-> "presence",
      cooling_policy |-> "idle", fault_shutdown |-> 4,
      pause_budget |-> 2, pause_pct |-> 40,
      trend |-> TRUE, falling_hold |-> TRUE,
      cooling_hold_max |-> 3, falling_hold_max |-> 2, look_window |-> 1,
      warning_min_after_hold |-> 2, late_warning_min |-> 1,
      tier_up_persist |-> 1, tier_down_persist |-> 2,
      tiers |-> [k \in 2..TopTier |-> [on |-> TRUE, warning |-> 1, shutdown |-> 2]] ]

\* The other choices menuconfig offers.
OtherConfig ==
    [BaseConfig EXCEPT !.shutdown_timing = "warning_start", !.shutdown = 2,
                       !.warning_exit = "ack", !.cooling_policy = "keep_timers",
                       !.fault_shutdown = 0, !.pause_pct = 0, !.trend = FALSE]

\* Refused by safety_config_valid: the shutdown would come with the warning.
RefusedConfig == [BaseConfig EXCEPT !.shutdown = 3]

\* The times and tiers a dashboard sets, over either build.
Stricter(c) ==
    [c EXCEPT !.warning = 1, !.shutdown = 2, !.return_debounce = 1,
              !.fault_shutdown = 3, !.pause_pct = 100,
              !.tiers = [k \in 2..TopTier |-> [on |-> FALSE, warning |-> 0, shutdown |-> 0]]]

PolicyConfigs ==
    {BaseConfig, Stricter(BaseConfig), OtherConfig, Stricter(OtherConfig), RefusedConfig}

FaultConfigs ==
    { [BaseConfig EXCEPT !.shutdown = 4, !.fault_shutdown = 3, !.pause_budget = 1],
      RefusedConfig }
HoldConfigs ==
    { [BaseConfig EXCEPT !.warning = 1, !.shutdown = 2, !.return_gap = 1,
                         !.pause_budget = 1, !.tier_down_persist = 1,
                         !.cooling_hold_max = 2] }

Calm ==
    [ presence |-> "present", pan |-> "cooking", fit |-> "unknown", fast |-> "steady",
      tier_up |-> 1, tier_down |-> 1, self_test |-> "pass",
      safety_fault |-> FALSE, reset_request |-> FALSE ]

Presences == {"present", "absent", "unknown"}

\* Faults, commands and radar noise over a pan that cooks or does not.
FaultInputs ==
    LET Reads(p, q) == [Calm EXCEPT !.presence = p, !.pan = q]
        hot == {Reads(p, "cooking") : p \in Presences}
        cold == {Reads(p, "over") : p \in Presences}
    IN  UNION { hot, cold, {Reads(p, "lost") : p \in {"present", "absent"}},
                {[i EXCEPT !.safety_fault = TRUE] : i \in {j \in hot : j.presence # "unknown"}},
                {[i EXCEPT !.reset_request = TRUE] : i \in {j \in hot : j.presence # "unknown"}},
                {[Reads("absent", "over") EXCEPT !.reset_request = TRUE],
                 [Reads("absent", "cooking") EXCEPT !.reset_request = TRUE,
                                                    !.safety_fault = TRUE]},
                {[Reads("absent", "over") EXCEPT !.self_test = v] : v \in {"pending", "fail"}} }

\* A pan that heats, cools down and comes and goes in a tier; a controller fault.
PolicyInputs ==
    {[Calm EXCEPT !.presence = p] : p \in Presences} \cup
    { [Calm EXCEPT !.presence = "absent", !.tier_up = 2, !.tier_down = 2],
      [Calm EXCEPT !.presence = "absent", !.pan = "over"],
      [Calm EXCEPT !.presence = "absent", !.safety_fault = TRUE],
      [Calm EXCEPT !.reset_request = TRUE] }

\* A pan that falls, cools, rises and changes tier while people come and go, and
\* a controller fault.
HoldInputs ==
    LET Pan(p, k, f, r) == [Calm EXCEPT !.presence = p, !.tier_up = k, !.tier_down = k,
                                        !.fit = f, !.fast = r]
        trends == { <<"unknown", "steady">>, <<"unknown", "falling">>, <<"cooling", "falling">> }
    IN  UNION { {Pan(p, 1, f[1], f[2]) : p \in {"present", "absent"}, f \in trends},
                {Pan("absent", 2, "heating", "rising"), Pan("absent", 2, "unknown", "falling"),
                 [Calm EXCEPT !.presence = "absent", !.pan = "lost"],
                 [Calm EXCEPT !.presence = "absent", !.pan = "over"],
                 [Calm EXCEPT !.presence = "absent", !.safety_fault = TRUE]} }

(***************************************************************************)
(* The view TLC tells states apart by: instants as ages, each capped where  *)
(* no comparison of the code or of a property can tell a longer one from it, *)
(* and left out while nothing reads it.  The clock itself is left out, so    *)
(* the runs are exhaustive in time: the search ends before MaxTime is met.  *)
(* This is right while ages stay below Wrap \div 2, as they do there.        *)
(***************************************************************************)
Age(since, cap) == Min2(now - since, cap)
AgeIf(live, since, cap) == IF live THEN Age(since, cap) ELSE 0

\* The longest a run's configurations compare with: an age kept under one
\* configuration may be read under the next.
Longest ==
    [ f \in {"warning", "shutdown", "fault_shutdown", "warning_min_after_hold", "late_warning_min",
             "self_test_timeout", "absence_debounce", "look_window", "return_debounce",
             "return_gap", "cooling_hold_max", "falling_hold_max", "pause_budget",
             "tier_up_persist", "tier_down_persist"} |-> Most(f) ]

Countdown == Max2(Longest.warning, Longest.shutdown)
Persist == Max2(Longest.tier_up_persist, Longest.tier_down_persist)
Stay == Max2(Max2(Longest.fault_shutdown, Longest.self_test_timeout),
             Max2(Longest.warning_min_after_hold, Longest.late_warning_min))
Away == Max2(Countdown, Max2(Longest.look_window, Longest.absence_debounce))

MachineView ==
    << heat.active, heat.cooling,
       AgeIf(heat.cooling, heat.cooling_since, Longest.cooling_hold_max),
       tier.tier, tier.pending,
       AgeIf(tier.pending # tier.tier, tier.pending_since, Persist),
       back.timing,
       AgeIf(back.timing, back.since, Longest.return_debounce),
       AgeIf(back.timing, back.last, Longest.return_gap),
       sm.state, sm.hold, sm.pause_used, sm.held_once, sm.late_warning,
       AgeIf(sm.state \in {"SELF_TEST", "WARNING", "FAULT"}, sm.state_entered,
             Max2(Stay, Countdown)),
       sm.absent_timing, AgeIf(sm.absent_timing, sm.absent_since, Longest.absence_debounce),
       AgeIf(sm.state = "MONITORING" /\ sm.absent_timing,
             Max2(sm.absent_since, sm.monitoring_since), Away),
       sm.unattended_active,
       AgeIf(sm.unattended_active, sm.unattended_start, Countdown),
       sm.warning_started,
       AgeIf(sm.warning_started, sm.warning_start, Countdown),
       sm.falling_hold_started,
       AgeIf(sm.falling_hold_started, sm.falling_hold_since, Longest.falling_hold_max),
       sm.checking, AgeIf(sm.checking, sm.checking_since, Longest.falling_hold_max),
       sm.return_hold_active,
       AgeIf(sm.return_hold_active, sm.return_hold_since,
             Longest.return_debounce + Longest.return_gap),
       IF sm.state \in {"UNATTENDED", "WARNING"} THEN sm.eff_shutdown ELSE 0 >>

CutView ==
    << Age(hist.alone_since, Countdown + Longest.pause_budget),
       Age(hist.danger_since, Deadline(cfg)),
       AgeIf(sm.hold \in DueHolds, hist.held_since, 99),
       hist.held, hist.falling,
       AgeIf(hist.falling, hist.fell, Longest.falling_hold_max) >>

ReturnView ==
    << IF sm.unattended_active THEN sm.unattended_start - hist.began ELSE 0,
       Age(hist.last_seen, Longest.return_gap),
       Age(hist.away_until, Longest.return_debounce) >>

View == <<cfg, MachineView, CutView, ReturnView>>

\* For the runs whose properties say nothing of returns or pauses.
HoldView == <<cfg, MachineView, CutView>>

ASSUME \A in \in FaultInputs \cup HoldInputs : in \in Input
=============================================================================
