-------------------------------- MODULE Radar --------------------------------
(***************************************************************************)
(* A presence node's side of radar tuning: the settings that the node        *)
(* believes in (rb_node_sensors.c), the ones it saved, and what the C4002    *)
(* really uses, through the commands of rb_c4002_remote.c and c4002.c.       *)
(*                                                                         *)
(* The radar is external.  It is given its settings one command at a time    *)
(* and may refuse or lose any of them, or obey and lose the answer.  Its     *)
(* settings are abstracted to the range, which is one command, and the       *)
(* sensitivity, which is a group of the radar's own or custom thresholds;    *)
(* gates, delays and periods are pushed like the range.                      *)
(*                                                                         *)
(* This module has no specification: Tuning drives it over the radio.        *)
(***************************************************************************)
EXTENDS Integers, FiniteSets

CONSTANTS
    Distances,          \* range_min_cm and range_max_cm
    Menuconfig,         \* rb_node_c4002_defaults
    ApplySettings,      \* CONFIG_RB_C4002_APPLY_SETTINGS
    MaxMishaps          \* bound: commands the radar fails, failed saves, restarts, duplicates

\* The thresholds of a group, of the dashboard, or learned by the radar.
Thresholds == {"group", "dashboard", "learned"}
Unknown == "unknown"

VARIABLES
    current,      \* s_current
    saved,        \* s_saved
    stored,       \* NVS namespace rb_c4002: at most one blob
    radar,        \* what the C4002 uses
    learning,     \* the C4002 runs an environment calibration
    calibrating,  \* s_calibrating: the request that waits for its end
    doubt,        \* history: the last push or calibration did not work out
    stale,        \* history: a step changed only one of what is current and what is stored
    mishaps       \* bound: mishaps so far

radarVars == <<current, saved, stored, radar, learning, calibrating, doubt, stale, mishaps>>

Settings == [min : Distances, max : Distances, custom : BOOLEAN, thr : Thresholds \cup {Unknown}]
InUse == [min : Distances, max : Distances, thr : Thresholds]

-----------------------------------------------------------------------------
(* Settings *)

\* rb_c4002_params_check
Check(s) ==
    /\ s.min <= s.max
    /\ s.custom => s.thr # Unknown

\* The node's own defaults pass its check.
ASSUME RadarAssumption ==
    Distances \subseteq Int /\ Menuconfig \in Settings /\ Check(Menuconfig) /\ ApplySettings \in BOOLEAN

\* rb_c4002_params_merge: thresholds make the sensitivity custom.
ParamsMerge(s, change) ==
    [f \in DOMAIN s |->
        IF f \in DOMAIN change THEN change[f]
        ELSE IF f = "custom" /\ "thr" \in DOMAIN change THEN TRUE ELSE s[f]]

\* What a radar with these settings uses.
Effect(s) == [min |-> s.min, max |-> s.max, thr |-> IF s.custom THEN s.thr ELSE "group"]

\* c4002_apply_settings: the range, then the sensitivity; the first command that
\* fails ends it, and a command may fail although the radar obeyed.
Push(r, s) ==
    LET ranged == [r EXCEPT !.min = s.min, !.max = s.max]
    IN  {[ok |-> FALSE, radar |-> r]}
        \cup IF s.min > s.max THEN {}
             ELSE { [ok |-> TRUE, radar |-> Effect(s)], [ok |-> FALSE, radar |-> ranged],
                    [ok |-> FALSE, radar |-> Effect(s)] }

Mishaps(n) == mishaps' = mishaps + n /\ mishaps + n <= MaxMishaps
Cost(ok) == IF ok THEN 0 ELSE 1

RadarInit ==
    /\ current = Menuconfig /\ saved = FALSE /\ stored = {}
    /\ radar = Effect(Menuconfig)
    /\ learning = FALSE /\ calibrating = {}
    /\ doubt = FALSE /\ stale = FALSE /\ mishaps = 0

-----------------------------------------------------------------------------
(* The commands of the node: each is a step of its one tuning task.         *)

\* rb_node_c4002_save
Save(s, ok) == stored' = IF ok THEN {s} ELSE stored

\* What was saved once is reported as saved from then on.
SetCurrentMutant(s, isSaved) == current' = s /\ saved' = (saved \/ isSaved)

\* rb_node_c4002_set_current
SetCurrent(s, isSaved) == current' = s /\ saved' = isSaved

\* The new settings become the current ones although the radar refused them.
ApplyAndSaveMutant(next) ==
    \E p \in Push(radar, next), ok \in BOOLEAN :
        /\ Mishaps(Cost(p.ok) + Cost(ok))
        /\ radar' = p.radar /\ doubt' = FALSE
        /\ Save(next, ok) /\ SetCurrent(next, ok)
        /\ UNCHANGED stale

\* apply_and_save: a refused push is taken back by pushing the previous settings.
ApplyAndSave(next) ==
    \E p \in Push(radar, next) :
        \/ /\ p.ok
           /\ \E ok \in BOOLEAN :
                 /\ Mishaps(Cost(ok))
                 /\ Save(next, ok) /\ SetCurrent(next, ok)
                 /\ stale' = (stale /\ ~ok)
           /\ radar' = p.radar /\ doubt' = FALSE
        \/ /\ ~p.ok
           /\ \E q \in Push(p.radar, current) :
                 /\ Mishaps(1 + Cost(q.ok))
                 /\ radar' = q.radar /\ doubt' = ~q.ok
           /\ UNCHANGED <<current, saved, stored, stale>>

\* The settings that would result are checked, not the change.
DoApply(change) ==
    LET next == ParamsMerge(current, change)
    IN  /\ IF Check(next) THEN ApplyAndSave(next)
           ELSE UNCHANGED <<current, saved, stored, radar, doubt, stale, mishaps>>
        /\ UNCHANGED <<learning, calibrating>>

\* A start that is not confirmed may have started all the same.
DoCalibrate(request) ==
    /\ \/ learning' = TRUE /\ calibrating' = {request} /\ UNCHANGED <<doubt, mishaps>>
       \/ Mishaps(1) /\ learning' = TRUE /\ doubt' = TRUE /\ UNCHANGED calibrating
       \/ Mishaps(1) /\ UNCHANGED <<learning, calibrating, doubt>>
    /\ UNCHANGED <<current, saved, stored, radar, stale>>

\* read_thresholds
ReadThresholds(s) == [s EXCEPT !.thr = radar.thr]

DoRead ==
    /\ \/ /\ SetCurrent(ReadThresholds(current), saved)
          /\ stale' = (stale \/ Effect(current') # Effect(current))
          /\ UNCHANGED mishaps
       \/ Mishaps(1) /\ UNCHANGED <<current, saved, stale>>
    /\ UNCHANGED <<stored, radar, learning, calibrating, doubt>>

DoReset ==
    /\ \E erased \in BOOLEAN, p \in Push(radar, Menuconfig) :
          /\ Mishaps(Cost(erased) + Cost(p.ok))
          /\ stored' = IF erased THEN {} ELSE stored
          /\ radar' = p.radar /\ doubt' = ~p.ok
          /\ IF p.ok THEN SetCurrent(Menuconfig, FALSE) /\ stale' = FALSE
             ELSE stale' = (stale \/ erased) /\ UNCHANGED <<current, saved>>
    /\ UNCHANGED <<learning, calibrating>>

\* The radar is done learning and uses what it learned.
Learned ==
    /\ learning
    /\ learning' = FALSE
    /\ radar' = [radar EXCEPT !.thr = "learned"]
    /\ doubt' = (doubt \/ calibrating = {})
    /\ UNCHANGED <<current, saved, stored, calibrating, stale, mishaps>>

\* finish_calibration: the countdown and the grace are over; what was learned is
\* read back, selected and saved.
FinishCalibration ==
    /\ calibrating # {} /\ ~learning
    /\ calibrating' = {}
    /\ \/ LET s == [ReadThresholds(current) EXCEPT !.custom = TRUE]
          IN  \E ok \in BOOLEAN :
                 /\ Mishaps(Cost(ok))
                 /\ Save(s, ok) /\ SetCurrent(s, ok)
                 /\ stale' = (stale /\ ~ok)
                 /\ UNCHANGED doubt
       \/ Mishaps(1) /\ doubt' = TRUE /\ UNCHANGED <<current, saved, stored, stale>>
    /\ UNCHANGED <<radar, learning>>

\* rb_node_c4002_load_saved
LoadSaved == {s \in stored : Check(s)}

\* rb_node_c4002_start after a restart.  The radar may have lost its power too;
\* what it does before three attempts in a row succeed or fail does not matter.
Boot ==
    LET s == IF LoadSaved = {} THEN Menuconfig ELSE CHOOSE b \in LoadSaved : TRUE
    IN  /\ SetCurrent(s, LoadSaved # {})
        /\ calibrating' = {} /\ stale' = FALSE
        /\ learning' \in {learning, FALSE}
        /\ \E r \in {radar, Effect(Menuconfig)} :
              IF LoadSaved # {} \/ ApplySettings
              THEN \E p \in Push(r, s) : Mishaps(1 + Cost(p.ok)) /\ radar' = p.radar /\ doubt' = ~p.ok
              ELSE Mishaps(1) /\ radar' = r /\ doubt' = TRUE
        /\ UNCHANGED stored

-----------------------------------------------------------------------------
(* Properties *)

RadarTypeOK ==
    /\ current \in Settings /\ radar \in InUse
    /\ saved \in BOOLEAN /\ stored \subseteq Settings /\ Cardinality(stored) <= 1
    /\ learning \in BOOLEAN /\ Cardinality(calibrating) <= 1
    /\ doubt \in BOOLEAN /\ stale \in BOOLEAN

\* What the node believes, and keeps in NVS, always passes its own check; and the
\* radar uses what the node believes and reports, unless a calibration runs
\* or the node had a failure of the radar to report: a refused setting leaves
\* nothing behind, and reading or learning thresholds brings the two together.
RadarAsBelieved ==
    /\ Check(current) /\ \A s \in stored : Check(s)
    /\ (~doubt /\ ~learning /\ calibrating = {}) => radar = Effect(current)

\* Settings reported as saved are the ones the next boot will push, whatever the
\* radar itself did with them.
SavedSurvives ==
    (saved /\ ~stale) => \E s \in stored : Effect(s) = Effect(current)
=============================================================================
