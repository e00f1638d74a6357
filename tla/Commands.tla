------------------------------ MODULE Commands ------------------------------
(***************************************************************************)
(* The two command parsers, rb_ctrl_cmd.c (settings, reset, log levels) and  *)
(* rb_c4002_cmd.c (radar tuning).  Each reads one flat JSON object pair by   *)
(* pair.  A pair is its key and whether its value passes that key's check;   *)
(* an object that is not JSON at all ends in a pair that passes none.        *)
(***************************************************************************)
EXTENDS Naturals, SequencesExt

Pair(key, ok) == [key |-> key, ok |-> ok]

-----------------------------------------------------------------------------
(* rb_ctrl_cmd.c *)

HeaderKeys == <<"schema_version", "type", "controller_id", "request_id", "action">>
FilterKeys == <<"absence_ms", "return_ms", "return_gap_ms", "warning_ms", "shutdown_ms">>
AttendanceKeys == <<"pause_budget_ms", "pause_budget_pct", "presence_fusion">>
RadarKeys == <<"radar_mode", "radar_quiet_gap_ms", "radar_dwell_ms", "radar_stationary_min_ms",
               "radar_settle_window_ms", "radar_settle_span_cm", "radar_zone_max_cm">>
CookwareKeys == <<"cookware">>
CookingKeys == <<"cooking_temp_dc">>
LogKeys == <<"log_tag", "log_level">>
\* tier_key: three of each; the first and the last tier stand for all four.
TierKeys == <<"tier2_temp_dc", "tier2_warning_ms", "tier2_shutdown_ms",
              "tier5_temp_dc", "tier5_warning_ms", "tier5_shutdown_ms">>
\* The rows of rb_params.def.
ParamKeys == <<"heat_off_gap_dc", "cooking_trend", "cooling_hold_max_ms", "falling_hold",
               "falling_hold_max_ms", "warning_min_after_hold_ms", "tier_rate", "fault_shutdown_ms">>

\* The keys each action needs; the others ("reset", "..._defaults") need none.
Fields ==
    [ presence_filter |-> FilterKeys, cooking_temp |-> CookingKeys, cookware |-> CookwareKeys,
      tiers |-> TierKeys, attendance |-> AttendanceKeys, radar_rules |-> RadarKeys,
      params |-> ParamKeys, log_level |-> LogKeys ]

KnownKeys == UNION {Range(ks) : ks \in {HeaderKeys} \cup Range(Fields)}

\* One turn of the parser's loop: what it has seen so far, or that it gave up.
ReadPair(acc, pair) ==
    [ seen |-> acc.seen \cup {pair.key},
      failed |-> acc.failed \/ pair.key \notin KnownKeys \/ ~pair.ok \/ pair.key \in acc.seen ]

\* rb_ctrl_cmd_parse, with the action the object names.
CtrlAccepts(action, pairs) ==
    LET end == FoldLeft(ReadPair, [seen |-> {}, failed |-> FALSE], pairs)
    IN  /\ ~end.failed
        /\ Range(HeaderKeys) \subseteq end.seen
        /\ \A a \in DOMAIN Fields :
              Range(Fields[a]) \cap end.seen = IF a = action THEN Range(Fields[a]) ELSE {}

-----------------------------------------------------------------------------
(* rb_c4002_cmd.c *)

TuningHeaderKeys == {"schema_version", "type", "controller_id", "request_id", "action"}
CalibrationKeys == {"calibration_delay_s", "calibration_duration_s"}
SettingKeys ==
    { "report_period_ds", "range_min_cm", "range_max_cm", "resolution_cm", "motion_sensitivity",
      "presence_sensitivity", "disappear_delay_s", "lock_time_ds", "motion_gates",
      "presence_gates", "motion_thresholds", "presence_thresholds" }

\* apply_kv and the loop around it: a repeated key overrides the earlier one.
TuningReads(pairs) ==
    \A i \in DOMAIN pairs :
        pairs[i].ok /\ pairs[i].key \in TuningHeaderKeys \cup CalibrationKeys \cup SettingKeys

\* rb_c4002_cmd_parse.  rangeOrdered: range_min_cm <= range_max_cm, when both are given.
TuningAccepts(action, pairs, rangeOrdered) ==
    LET keys == {pairs[i].key : i \in DOMAIN pairs}
    IN  /\ TuningReads(pairs)
        /\ {"type", "action"} \subseteq keys
        /\ (action = "apply") = (keys \cap SettingKeys # {})
        /\ {"range_min_cm", "range_max_cm"} \subseteq keys => rangeOrdered

-----------------------------------------------------------------------------
(* Objects around a correct one: a pair left out, repeated, unreadable,      *)
(* unknown, or of another action.                                          *)

Correct(keys) == [i \in DOMAIN keys |-> Pair(keys[i], TRUE)]

Around(keys) ==
    LET full == Correct(keys)
    IN  {full} \cup {RemoveAt(full, i) : i \in DOMAIN full}
        \cup {Append(full, full[i]) : i \in DOMAIN full}
        \cup {[full EXCEPT ![i].ok = FALSE] : i \in DOMAIN full}
        \cup {Append(full, Pair("unknown", TRUE))}
        \cup {Append(full, Pair(Last(Fields[a]), TRUE)) : a \in DOMAIN Fields}
=============================================================================
