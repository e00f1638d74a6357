---------------------------- MODULE TuningProofs ----------------------------
(***************************************************************************)
(* Proofs about radar tuning: what the node believes is what the radar uses,  *)
(* what it reports as saved survives, no command is carried out twice, and    *)
(* the dashboard shows the newest report that was neither lost nor covered.  *)
(* For any settings, and any number of requests, packets and mishaps.        *)
(***************************************************************************)
EXTENDS Tuning, SequenceTheorems, FiniteSetTheorems, TLAPS

USE RadarAssumption

Fields4 == {"min", "max", "custom", "thr"}

Types ==
    /\ current \in Settings /\ radar \in InUse /\ stored \subseteq Settings
    /\ saved \in BOOLEAN /\ learning \in BOOLEAN /\ doubt \in BOOLEAN /\ stale \in BOOLEAN

\* While nothing went wrong the range is the believed one, even during a
\* calibration, which only changes the thresholds.
RangeAsBelieved == ~doubt => radar.min = current.min /\ radar.max = current.max

RInv == Types /\ RadarAsBelieved /\ RangeAsBelieved /\ SavedSurvives

-----------------------------------------------------------------------------
(* The operators of the node *)

LEMMA EffectType == ASSUME NEW s \in Settings, Check(s) PROVE Effect(s) \in InUse
<1>1. s.custom => s.thr \in Thresholds
  BY DEF Check, Settings
<1>2. "group" \in Thresholds
  BY DEF Thresholds
<1> QED
  BY <1>1, <1>2 DEF Effect, InUse, Settings

\* A push that is confirmed worked; whatever happened, the radar uses something.
LEMMA PushType ==
    ASSUME NEW r \in InUse, NEW s \in Settings, Check(s), NEW p \in Push(r, s)
    PROVE  p.ok \in BOOLEAN /\ p.radar \in InUse /\ (p.ok => p.radar = Effect(s))
<1> DEFINE ranged == [r EXCEPT !.min = s.min, !.max = s.max]
<1>1. Effect(s) \in InUse
  BY EffectType
<1>2. ranged \in InUse
  BY DEF InUse, Settings
<1>3. p \in { [ok |-> FALSE, radar |-> r], [ok |-> TRUE, radar |-> Effect(s)],
              [ok |-> FALSE, radar |-> ranged], [ok |-> FALSE, radar |-> Effect(s)] }
  BY DEF Push
<1> HIDE DEF ranged
<1>4. CASE p = [ok |-> TRUE, radar |-> Effect(s)]
  BY <1>1, <1>4
<1>5. CASE p = [ok |-> FALSE, radar |-> r]
  BY <1>5
<1>6. CASE p = [ok |-> FALSE, radar |-> ranged]
  BY <1>2, <1>6
<1>7. CASE p = [ok |-> FALSE, radar |-> Effect(s)]
  BY <1>1, <1>7
<1> QED
  BY <1>3, <1>4, <1>5, <1>6, <1>7

\* What finish_calibration makes of the settings it read.
LEMMA MadeCustom ==
    ASSUME NEW t, NEW a, NEW b, NEW c, NEW d, t = [min |-> a, max |-> b, custom |-> c, thr |-> d]
    PROVE  [t EXCEPT !.custom = TRUE] = [min |-> a, max |-> b, custom |-> TRUE, thr |-> d]
<1> DEFINE e == TRUE
<1> HIDE DEF e
<1>1. [t EXCEPT !.custom = e] = [min |-> a, max |-> b, custom |-> e, thr |-> d]
  OBVIOUS
<1> QED
  BY <1>1 DEF e

LEMMA ReadType ==
    ASSUME NEW s \in Settings, Check(s), radar \in InUse
    PROVE  /\ ReadThresholds(s) \in Settings /\ Check(ReadThresholds(s))
           /\ [ReadThresholds(s) EXCEPT !.custom = TRUE] \in Settings
           /\ Check([ReadThresholds(s) EXCEPT !.custom = TRUE])
<1>1. radar.thr \in Thresholds /\ radar.thr # Unknown
  BY DEF InUse, Thresholds, Unknown
<1>2. ReadThresholds(s) = [min |-> s.min, max |-> s.max, custom |-> s.custom, thr |-> radar.thr]
  BY DEF ReadThresholds, Settings
<1>3. [ReadThresholds(s) EXCEPT !.custom = TRUE] = [min |-> s.min, max |-> s.max, custom |-> TRUE, thr |-> radar.thr]
  BY <1>2, MadeCustom
<1>4. s.min \in Distances /\ s.max \in Distances /\ s.custom \in BOOLEAN /\ s.min <= s.max
  BY DEF Settings, Check
<1>5. ReadThresholds(s) \in Settings /\ Check(ReadThresholds(s))
  BY <1>1, <1>2, <1>4 DEF Check, Settings
<1> DEFINE c == [ReadThresholds(s) EXCEPT !.custom = TRUE]
<1>6. c = [min |-> s.min, max |-> s.max, custom |-> TRUE, thr |-> radar.thr]
  BY <1>3
<1> HIDE DEF c
<1>7. c \in Settings /\ Check(c)
  BY <1>1, <1>4, <1>6 DEF Check, Settings
<1> QED
  BY <1>5, <1>7 DEF c

LEMMA MergeType ==
    ASSUME NEW s \in Settings, NEW ch \in Changes PROVE ParamsMerge(s, ch) \in Settings
<1> DEFINE m == ParamsMerge(s, ch)
<1>1. DOMAIN s = Fields4 /\ s.min \in Distances /\ s.max \in Distances /\ s.custom \in BOOLEAN
      /\ s.thr \in Thresholds \cup {Unknown}
  BY DEF Settings, Fields4
<1>2. m = [f \in Fields4 |->
             IF f \in DOMAIN ch THEN ch[f] ELSE IF f = "custom" /\ "thr" \in DOMAIN ch THEN TRUE ELSE s[f]]
  BY <1>1 DEF ParamsMerge
<1>3. m["min"] \in Distances
  BY <1>1, <1>2, ChangesAssumption DEF Fields4
<1>4. m["max"] \in Distances
  BY <1>1, <1>2, ChangesAssumption DEF Fields4
<1>5. m["custom"] \in BOOLEAN
  BY <1>1, <1>2, ChangesAssumption DEF Fields4
<1>6. m["thr"] \in Thresholds \cup {Unknown}
  BY <1>1, <1>2, ChangesAssumption DEF Fields4
<1>7. m = [min |-> m["min"], max |-> m["max"], custom |-> m["custom"], thr |-> m["thr"]]
  BY <1>2 DEF Fields4
<1> HIDE DEF m
<1>8. m \in Settings
  BY <1>3, <1>4, <1>5, <1>6, <1>7 DEF Settings
<1> QED
  BY <1>8 DEF m

-----------------------------------------------------------------------------
(* The node's steps *)

LEMMA RInit == RadarInit => RInv
<1> SUFFICES ASSUME RadarInit PROVE RInv
  OBVIOUS
<1>1. Effect(Menuconfig) \in InUse
  BY EffectType
<1>2. Effect(Menuconfig).min = Menuconfig.min /\ Effect(Menuconfig).max = Menuconfig.max
  BY DEF Effect
<1> QED
  BY <1>1, <1>2 DEF RadarInit, RInv, Types, RadarAsBelieved, RangeAsBelieved, SavedSurvives

\* Settings that were pushed, and saved or not, become the current ones.
LEMMA Pushed ==
    ASSUME RInv, NEW s \in Settings, Check(s), current' = s, radar' = Effect(s),
           NEW ok \in BOOLEAN, stored' = (IF ok THEN {s} ELSE stored), saved' = ok,
           stale' = (stale /\ ~ok), doubt' = FALSE, learning' \in BOOLEAN
    PROVE  RInv'
<1>1. Effect(s) \in InUse /\ Effect(s).min = s.min /\ Effect(s).max = s.max
  BY EffectType DEF Effect
<1>2. Types'
  BY <1>1 DEF RInv, Types
<1>3. RadarAsBelieved'
  <2>1. \A b \in stored' : Check(b)
    BY DEF RInv, RadarAsBelieved
  <2> QED
    BY <2>1 DEF RadarAsBelieved, Effect, Check
<1>4. RangeAsBelieved'
  BY <1>1 DEF RangeAsBelieved
<1>5. SavedSurvives'
  BY DEF SavedSurvives, Effect
<1> QED
  BY <1>2, <1>3, <1>4, <1>5 DEF RInv

LEMMA RApply == ASSUME RInv, NEW ch \in Changes, DoApply(ch) PROVE RInv'
<1> DEFINE next == ParamsMerge(current, ch)
<1>1. next \in Settings
  BY MergeType DEF RInv, Types
<1>2. UNCHANGED <<learning, calibrating>>
  BY DEF DoApply
<1>3. CASE ~ Check(next)
  BY <1>2, <1>3 DEF DoApply, RInv, Types, RadarAsBelieved, RangeAsBelieved, SavedSurvives, Effect, Check
<1>4. CASE Check(next)
  <2>1. ApplyAndSave(next)
    BY <1>4 DEF DoApply
  <2> HIDE DEF next
  <2>2. PICK p \in Push(radar, next) :
          \/ /\ p.ok
             /\ \E ok \in BOOLEAN : Save(next, ok) /\ SetCurrent(next, ok) /\ stale' = (stale /\ ~ok)
             /\ radar' = p.radar /\ doubt' = FALSE
          \/ /\ ~p.ok
             /\ \E q \in Push(p.radar, current) : radar' = q.radar /\ doubt' = ~q.ok
             /\ UNCHANGED <<current, saved, stored, stale>>
    BY <2>1 DEF ApplyAndSave
  <2>3. p.radar \in InUse /\ (p.ok => p.radar = Effect(next))
    BY <1>1, <1>4, PushType DEF RInv, Types
  <2>4. CASE p.ok
    <3>1. PICK ok \in BOOLEAN : Save(next, ok) /\ SetCurrent(next, ok) /\ stale' = (stale /\ ~ok)
      BY <2>2, <2>4
    <3> QED
      BY <1>1, <1>2, <1>4, <2>2, <2>3, <2>4, <3>1, Pushed DEF Save, SetCurrent, RInv, Types
  <2>5. CASE ~p.ok
    <3>1. PICK q \in Push(p.radar, current) : radar' = q.radar /\ doubt' = ~q.ok
      BY <2>2, <2>5
    <3>2. UNCHANGED <<current, saved, stored, stale>>
      BY <2>2, <2>5
    <3>3. q.ok \in BOOLEAN /\ q.radar \in InUse /\ (q.ok => q.radar = Effect(current))
      BY <2>3, PushType DEF RInv, Types, RadarAsBelieved
    <3>4. Types' /\ SavedSurvives'
      BY <1>2, <3>1, <3>2, <3>3 DEF RInv, Types, SavedSurvives, Effect
    <3>5. doubt' = ~q.ok /\ (~doubt' => radar' = Effect(current))
      BY <3>1, <3>3
    <3>6. RadarAsBelieved'
      BY <1>2, <3>2, <3>5 DEF RInv, RadarAsBelieved, Effect, Check
    <3>7. RangeAsBelieved'
      BY <3>2, <3>5 DEF RangeAsBelieved, Effect
    <3> QED
      BY <3>4, <3>6, <3>7 DEF RInv
  <2> QED
    BY <2>4, <2>5
<1> QED
  BY <1>3, <1>4

LEMMA RCalibrate == ASSUME RInv, NEW request, DoCalibrate(request) PROVE RInv'
<1>1. UNCHANGED <<current, saved, stored, radar, stale>>
  BY DEF DoCalibrate
<1>2. \/ learning' = TRUE /\ UNCHANGED doubt
      \/ learning' = TRUE /\ doubt' = TRUE
      \/ UNCHANGED <<learning, calibrating, doubt>>
  BY DEF DoCalibrate
<1>3. Types' /\ SavedSurvives'
  BY <1>1, <1>2 DEF RInv, Types, SavedSurvives, Effect
<1>4. RadarAsBelieved' /\ RangeAsBelieved'
  BY <1>1, <1>2 DEF RInv, RadarAsBelieved, RangeAsBelieved, Effect, Check
<1> QED
  BY <1>3, <1>4 DEF RInv

LEMMA RRead == ASSUME RInv, DoRead PROVE RInv'
<1>1. UNCHANGED <<stored, radar, learning, calibrating, doubt>>
  BY DEF DoRead
<1>2. CASE UNCHANGED <<current, saved, stale>>
  BY <1>1, <1>2 DEF RInv, Types, RadarAsBelieved, RangeAsBelieved, SavedSurvives, Effect, Check
<1>3. CASE /\ SetCurrent(ReadThresholds(current), saved)
           /\ stale' = (stale \/ Effect(current') # Effect(current))
  <2>1. current' = ReadThresholds(current) /\ saved' = saved
    BY <1>3 DEF SetCurrent
  <2>2. current' \in Settings /\ Check(current')
    BY <2>1, ReadType DEF RInv, Types, RadarAsBelieved
  <2>3. current' = [min |-> current.min, max |-> current.max, custom |-> current.custom, thr |-> radar.thr]
    BY <2>1 DEF ReadThresholds, RInv, Types, Settings
  <2>4. Types'
    BY <1>1, <1>3, <2>1, <2>2 DEF RInv, Types
  <2>5. SavedSurvives'
    <3> SUFFICES ASSUME saved', ~ stale' PROVE \E s \in stored' : Effect(s) = Effect(current')
      BY DEF SavedSurvives, Effect
    <3>1. saved /\ ~stale /\ Effect(current') = Effect(current)
      BY <1>3, <2>1
    <3> QED
      BY <1>1, <3>1 DEF RInv, SavedSurvives
  <2>6. RangeAsBelieved'
    BY <1>1, <2>3 DEF RInv, RangeAsBelieved
  <2>7. RadarAsBelieved'
    <3>1. \A s \in stored' : Check(s)
      BY <1>1 DEF RInv, RadarAsBelieved
    <3>2. radar = Effect(current) => radar = Effect(current')
      BY <2>3 DEF Effect, RInv, Types, InUse
    <3> QED
      BY <1>1, <2>2, <3>1, <3>2 DEF RInv, RadarAsBelieved, Effect, Check
  <2> QED
    BY <2>4, <2>5, <2>6, <2>7 DEF RInv
<1> QED
  BY <1>2, <1>3 DEF DoRead

LEMMA RReset == ASSUME RInv, DoReset PROVE RInv'
<1>1. UNCHANGED <<learning, calibrating>>
  BY DEF DoReset
<1>2. PICK erased \in BOOLEAN, p \in Push(radar, Menuconfig) :
        /\ stored' = (IF erased THEN {} ELSE stored)
        /\ radar' = p.radar /\ doubt' = ~p.ok
        /\ IF p.ok THEN SetCurrent(Menuconfig, FALSE) /\ stale' = FALSE
           ELSE stale' = (stale \/ erased) /\ UNCHANGED <<current, saved>>
  BY DEF DoReset
<1>3. p.ok \in BOOLEAN /\ p.radar \in InUse /\ (p.ok => p.radar = Effect(Menuconfig))
  BY <1>2, PushType DEF RInv, Types
<1>4. CASE p.ok
  <2>1. current' = Menuconfig /\ saved' = FALSE /\ stale' = FALSE /\ radar' = Effect(Menuconfig) /\ doubt' = FALSE
    BY <1>2, <1>3, <1>4 DEF SetCurrent
  <2>2. stored' \subseteq stored
    BY <1>2
  <2>3. Types'
    BY <1>1, <1>3, <2>1, <2>2, EffectType DEF RInv, Types
  <2>4. RadarAsBelieved'
    BY <2>1, <2>2 DEF RInv, RadarAsBelieved, Effect, Check
  <2>5. RangeAsBelieved' /\ SavedSurvives'
    BY <2>1 DEF RangeAsBelieved, SavedSurvives, Effect
  <2> QED
    BY <2>3, <2>4, <2>5 DEF RInv
<1>5. CASE ~p.ok
  BY <1>1, <1>2, <1>3, <1>5 DEF RInv, Types, RadarAsBelieved, RangeAsBelieved, SavedSurvives, Effect, Check
<1> QED
  BY <1>4, <1>5

LEMMA RLearned == ASSUME RInv, Learned PROVE RInv'
<1>1. /\ learning' = FALSE /\ radar' = [radar EXCEPT !.thr = "learned"] /\ doubt' = (doubt \/ calibrating = {})
      /\ UNCHANGED <<current, saved, stored, calibrating, stale>>
  BY DEF Learned
<1>2. radar' \in InUse /\ radar'.min = radar.min /\ radar'.max = radar.max
  BY <1>1 DEF RInv, Types, InUse, Thresholds
<1>3. Types' /\ SavedSurvives'
  BY <1>1, <1>2 DEF RInv, Types, SavedSurvives, Effect
<1>4. RadarAsBelieved' /\ RangeAsBelieved'
  BY <1>1, <1>2 DEF RInv, RadarAsBelieved, RangeAsBelieved, Effect, Check
<1> QED
  BY <1>3, <1>4 DEF RInv

LEMMA RFinish == ASSUME RInv, FinishCalibration PROVE RInv'
<1>1. calibrating' = {} /\ ~learning /\ UNCHANGED <<radar, learning>>
  BY DEF FinishCalibration
<1>2. CASE doubt' = TRUE /\ UNCHANGED <<current, saved, stored, stale>>
  BY <1>1, <1>2 DEF RInv, Types, RadarAsBelieved, RangeAsBelieved, SavedSurvives, Effect, Check
<1> DEFINE s == [ReadThresholds(current) EXCEPT !.custom = TRUE]
<1>3. CASE \E ok \in BOOLEAN : Save(s, ok) /\ SetCurrent(s, ok) /\ stale' = (stale /\ ~ok) /\ UNCHANGED doubt
  <2>1. s \in Settings /\ Check(s)
    BY ReadType DEF RInv, Types, RadarAsBelieved
  <2>2. s = [min |-> current.min, max |-> current.max, custom |-> TRUE, thr |-> radar.thr]
    <3>1. ReadThresholds(current) = [min |-> current.min, max |-> current.max, custom |-> current.custom, thr |-> radar.thr]
      BY DEF ReadThresholds, RInv, Types, Settings
    <3> QED
      BY <3>1, MadeCustom
  <2> HIDE DEF s
  <2>3. PICK ok \in BOOLEAN : Save(s, ok) /\ SetCurrent(s, ok) /\ stale' = (stale /\ ~ok) /\ UNCHANGED doubt
    BY <1>3
  <2>4. current' = s /\ saved' = ok /\ stored' = IF ok THEN {s} ELSE stored
    BY <2>3 DEF Save, SetCurrent
  <2>5. Types'
    BY <1>1, <2>1, <2>3, <2>4 DEF RInv, Types
  <2>6. SavedSurvives'
    BY <2>3, <2>4 DEF SavedSurvives, Effect
  <2>7. RangeAsBelieved'
    BY <1>1, <2>2, <2>3, <2>4 DEF RInv, RangeAsBelieved
  <2>8. RadarAsBelieved'
    <3>1. \A b \in stored' : Check(b)
      BY <2>1, <2>4 DEF RInv, RadarAsBelieved
    <3>2. ~doubt => radar = Effect(s)
      BY <2>2 DEF Effect, RInv, Types, InUse, RangeAsBelieved
    <3> QED
      BY <1>1, <2>1, <2>3, <2>4, <3>1, <3>2 DEF RadarAsBelieved, Effect, Check
  <2> QED
    BY <2>5, <2>6, <2>7, <2>8 DEF RInv
<1> QED
  BY <1>2, <1>3 DEF FinishCalibration

LEMMA RBoot == ASSUME RInv, Boot PROVE RInv'
<1> DEFINE s == IF LoadSaved = {} THEN Menuconfig ELSE CHOOSE b \in LoadSaved : TRUE
<1>1. /\ SetCurrent(s, LoadSaved # {}) /\ calibrating' = {} /\ stale' = FALSE /\ learning' \in {learning, FALSE}
      /\ UNCHANGED stored
  BY DEF Boot
<1>2. s \in Settings /\ Check(s) /\ (LoadSaved # {} => s \in stored)
  <2>1. LoadSaved # {} => (CHOOSE b \in LoadSaved : TRUE) \in LoadSaved
    OBVIOUS
  <2> QED
    BY <2>1 DEF LoadSaved, RInv, Types
<1>3. PICK r \in {radar, Effect(Menuconfig)} :
        \/ \E p \in Push(r, s) : radar' = p.radar /\ doubt' = ~p.ok
        \/ radar' = r /\ doubt' = TRUE
  BY DEF Boot
<1>4. r \in InUse
  BY EffectType DEF RInv, Types
<1> HIDE DEF s
<1>5. radar' \in InUse /\ doubt' \in BOOLEAN /\ (~doubt' => radar' = Effect(s))
  <2>1. CASE radar' = r /\ doubt' = TRUE
    BY <1>4, <2>1
  <2>2. CASE \E p \in Push(r, s) : radar' = p.radar /\ doubt' = ~p.ok
    BY <1>2, <1>4, <2>2, PushType
  <2> QED
    BY <1>3, <2>1, <2>2
<1>6. current' = s /\ saved' = (LoadSaved # {}) /\ stored' = stored
  BY <1>1 DEF SetCurrent
<1>7. Types'
  BY <1>1, <1>2, <1>5, <1>6 DEF RInv, Types
<1>8. RadarAsBelieved' /\ RangeAsBelieved'
  BY <1>1, <1>2, <1>5, <1>6 DEF RInv, RadarAsBelieved, RangeAsBelieved, Effect, Check
<1>9. SavedSurvives'
  BY <1>1, <1>2, <1>6 DEF SavedSurvives, Effect
<1> QED
  BY <1>7, <1>8, <1>9 DEF RInv

-----------------------------------------------------------------------------
(* The radio keeps the order, so a command that is still on its way and was    *)
(* carried out is the last one that was, and only its copies are before it.   *)

Messages == [id : Nat, cmd : Command]

OnTheWay == down \in Seq(Messages) /\ count \in Nat

Once ==
    /\ \A i \in DOMAIN down : down[i].id <= count
    /\ done \subseteq 1 .. count
    /\ \A i \in DOMAIN down : down[i].id \in done =>
          down[i].id \in Ids(last) /\ \A j \in DOMAIN down : j < i => down[j].id = down[i].id
    /\ \A i, j, k \in DOMAIN down :
          (i <= k /\ k <= j /\ down[i].id = down[j].id /\ down[i].id # AutoRead) => down[k].id = down[i].id
    /\ twice = {}

Inv == RInv /\ OnTheWay /\ Once

LEMMA Same ==
    ASSUME RInv, UNCHANGED <<current, saved, stored, radar, learning, calibrating, doubt, stale>> PROVE RInv'
BY DEF RInv, Types, RadarAsBelieved, RangeAsBelieved, SavedSurvives, Effect, Check

LEMMA SameOnce == ASSUME Inv, UNCHANGED <<down, last, count, done, twice>> PROVE OnTheWay' /\ Once'
BY DEF Inv, OnTheWay, Once, Ids

LEMMA InvInit == Init => Inv
<1> SUFFICES ASSUME Init PROVE Inv
  OBVIOUS
<1>1. RInv
  BY RInit DEF Init
<1>2. down = <<>> /\ count = 0 /\ done = {} /\ twice = {}
  BY DEF Init
<1>3. DOMAIN down = {}
  BY <1>2
<1> QED
  BY <1>1, <1>2, <1>3 DEF Inv, OnTheWay, Once

\* Steps that leave what is on its way to the node alone.
LEMMA InvElsewhere ==
    ASSUME Inv,
           \/ MarkPending \/ Hear \/ OnAck \/ (\E expired \in BOOLEAN : Poll(expired)) \/ ControllerReboot
           \/ LoseAck \/ ReportCalibration \/ RadarLearned
    PROVE  Inv'
<1>1. UNCHANGED <<down, last, count, done, twice>>
  BY DEF MarkPending, Hear, OnAck, Poll, ControllerReboot, LoseAck, ReportCalibration, RadarLearned
<1>2. CASE MarkPending \/ Hear \/ OnAck \/ (\E expired \in BOOLEAN : Poll(expired)) \/ ControllerReboot \/ LoseAck
  <2>1. UNCHANGED <<current, saved, stored, radar, learning, calibrating, doubt, stale>>
    BY <1>2 DEF MarkPending, Hear, OnAck, Poll, ControllerReboot, LoseAck, radarVars
  <2> QED
    BY <1>1, <2>1, Same, SameOnce DEF Inv
<1>3. CASE ReportCalibration
  BY <1>1, <1>3, SameOnce, RFinish DEF ReportCalibration, Inv
<1>4. CASE RadarLearned
  BY <1>1, <1>4, SameOnce, RLearned DEF RadarLearned, Inv
<1> QED
  BY <1>2, <1>3, <1>4

LEMMA IdsOfMessages == ASSUME Inv PROVE \A i \in DOMAIN down : down[i].id \in Nat /\ down[i].id <= count
<1>1. \A i \in DOMAIN down : down[i] \in Messages
  BY DEF Inv, OnTheWay
<1>2. \A i \in DOMAIN down : down[i].id <= count
  BY DEF Inv, Once
<1> QED
  BY <1>1, <1>2 DEF Messages

\* A new request comes behind all others, under an id of its own or as a read
\* of the relay's.
LEMMA Appended ==
    ASSUME Inv, NEW m \in Messages, down' = Append(down, m), UNCHANGED <<last, done, twice>>,
           count' \in Nat, count <= count', m.id <= count', m.id = AutoRead \/ count < m.id
    PROVE  OnTheWay' /\ Once'
<1>1. down' \in Seq(Messages) /\ Len(down') = Len(down) + 1 /\ Len(down) \in Nat /\ down'[Len(down) + 1] = m
      /\ DOMAIN down' = 1 .. Len(down) + 1 /\ DOMAIN down = 1 .. Len(down)
      /\ \A i \in DOMAIN down : down'[i] = down[i]
  <2>1. down \in Seq(Messages)
    BY DEF Inv, OnTheWay
  <2>2. down' \in Seq(Messages) /\ Len(down') = Len(down) + 1 /\ Len(down) \in Nat
    BY <2>1
  <2>3. DOMAIN down' = 1 .. Len(down) + 1 /\ DOMAIN down = 1 .. Len(down)
    BY <2>1, <2>2
  <2>4. down'[Len(down) + 1] = m /\ \A i \in 1 .. Len(down) : down'[i] = down[i]
    BY <2>1
  <2> QED
    BY <2>2, <2>3, <2>4
<1>2. \A i \in DOMAIN down : down[i].id \in Nat /\ down[i].id <= count
  BY IdsOfMessages
<1>3. m.id \notin done /\ m.id \in Nat /\ count \in Nat
  BY DEF Inv, OnTheWay, Once, Messages, AutoRead
<1>4. \A i \in DOMAIN down' : down'[i].id <= count'
  BY <1>1, <1>2, <1>3
<1>5. done' \subseteq 1 .. count'
  BY <1>3 DEF Inv, Once
<1>6. ASSUME NEW i \in DOMAIN down', down'[i].id \in done'
      PROVE  down'[i].id \in Ids(last') /\ \A j \in DOMAIN down' : j < i => down'[j].id = down'[i].id
  <2>1. i \in DOMAIN down /\ down'[i] = down[i]
    BY <1>1, <1>3, <1>6
  <2> QED
    BY <1>1, <1>6, <2>1 DEF Inv, Once, Ids
<1>7. ASSUME NEW i \in DOMAIN down', NEW j \in DOMAIN down', NEW k \in DOMAIN down',
             i <= k, k <= j, down'[i].id = down'[j].id, down'[i].id # AutoRead
      PROVE  down'[k].id = down'[i].id
  <2>1. CASE j = Len(down) + 1 /\ i # j
    BY <1>1, <1>2, <1>3, <1>7, <2>1
  <2>2. CASE i = j
    BY <1>1, <1>7, <2>2
  <2>3. CASE j # Len(down) + 1
    <3>1. i \in DOMAIN down /\ j \in DOMAIN down /\ k \in DOMAIN down
      BY <1>1, <1>7, <2>3
    <3> QED
      BY <1>1, <1>7, <3>1 DEF Inv, Once
  <2> QED
    BY <2>1, <2>2, <2>3
<1> QED
  BY <1>1, <1>4, <1>5, <1>6, <1>7 DEF OnTheWay, Once, Inv, Ids

LEMMA InvOnCommand == ASSUME Inv, OnCommand PROVE Inv'
<1>1. UNCHANGED <<current, saved, stored, radar, learning, calibrating, doubt, stale, last, done, twice>>
      /\ count' = count + 1
  BY DEF OnCommand, radarVars
<1>2. CASE UNCHANGED down
  <2>1. count \in Nat /\ count' \in Nat /\ count <= count'
    BY <1>1 DEF Inv, OnTheWay
  <2>2. \A i \in DOMAIN down' : down'[i].id <= count'
    BY <1>1, <1>2, <2>1, IdsOfMessages
  <2>3. done' \subseteq 1 .. count'
    BY <1>1, <2>1 DEF Inv, Once
  <2>4. Once'
    BY <1>1, <1>2, <2>2, <2>3 DEF Inv, Once, Ids
  <2> QED
    BY <1>1, <1>2, <2>1, <2>4, Same DEF Inv, OnTheWay
<1>3. CASE \E c \in Command : down' = Append(down, [id |-> count', cmd |-> c])
  <2>1. PICK c \in Command : down' = Append(down, [id |-> count', cmd |-> c])
    BY <1>3
  <2>2. count \in Nat /\ count' \in Nat /\ count < count' /\ count <= count' /\ count' <= count'
    BY <1>1 DEF Inv, OnTheWay
  <2> DEFINE m == [id |-> count', cmd |-> c]
  <2>3. m \in Messages /\ m.id = count'
    BY <2>2 DEF Messages
  <2>4. down' = Append(down, m)
    BY <2>1
  <2> HIDE DEF m
  <2>5. OnTheWay' /\ Once'
    BY <1>1, <2>2, <2>3, <2>4, Appended
  <2> QED
    BY <1>1, <2>5, Same DEF Inv
<1> QED
  BY <1>2, <1>3 DEF OnCommand

LEMMA InvAskSettings == ASSUME Inv, AskSettings PROVE Inv'
<1> DEFINE m == [id |-> AutoRead, cmd |-> [action |-> "read", change |-> <<>>]]
<1>1. UNCHANGED <<current, saved, stored, radar, learning, calibrating, doubt, stale, last, done, twice, count>>
      /\ down' = Append(down, m)
  BY DEF AskSettings, radarVars
<1>2. m \in Messages /\ m.id = AutoRead
  BY DEF Messages, Command, AutoRead
<1>3. count' \in Nat /\ count <= count' /\ m.id <= count'
  BY <1>1, <1>2 DEF Inv, OnTheWay, AutoRead
<1> HIDE DEF m
<1> QED
  BY <1>1, <1>2, <1>3, Appended, Same DEF Inv

LEMMA Shorter ==
    ASSUME OnTheWay, down # <<>>
    PROVE  /\ Head(down) = down[1] /\ 1 \in DOMAIN down /\ Head(down) \in Messages
           /\ Tail(down) \in Seq(Messages)
           /\ \A i \in DOMAIN Tail(down) : i + 1 \in DOMAIN down /\ Tail(down)[i] = down[i + 1] /\ i \in Nat \ {0}
BY DEF OnTheWay

\* The first packet is gone, the others keep their order.
LEMMA Dropped ==
    ASSUME Inv, down # <<>>, down' = Tail(down), UNCHANGED <<last, done, twice, count>>
    PROVE  OnTheWay' /\ Once'
<1>1. down' \in Seq(Messages)
      /\ \A i \in DOMAIN down' : i + 1 \in DOMAIN down /\ down'[i] = down[i + 1] /\ i \in Nat \ {0}
  BY Shorter DEF Inv
<1>2. \A i \in DOMAIN down' : down'[i].id <= count'
  BY <1>1 DEF Inv, Once
<1>3. ASSUME NEW i \in DOMAIN down', down'[i].id \in done'
      PROVE  down'[i].id \in Ids(last') /\ \A j \in DOMAIN down' : j < i => down'[j].id = down'[i].id
  <2>1. i + 1 \in DOMAIN down /\ down[i + 1].id \in done
    BY <1>1, <1>3
  <2>2. down[i + 1].id \in Ids(last)
    BY <2>1 DEF Inv, Once
  <2>3. ASSUME NEW j \in DOMAIN down', j < i PROVE down'[j].id = down'[i].id
    <3>1. j + 1 \in DOMAIN down /\ j + 1 < i + 1
      BY <1>1, <2>3
    <3>2. down[j + 1].id = down[i + 1].id
      BY <2>1, <3>1 DEF Inv, Once
    <3> QED
      BY <1>1, <3>2
  <2> QED
    BY <1>1, <2>2, <2>3
<1>4. ASSUME NEW i \in DOMAIN down', NEW j \in DOMAIN down', NEW k \in DOMAIN down',
             i <= k, k <= j, down'[i].id = down'[j].id, down'[i].id # AutoRead
      PROVE  down'[k].id = down'[i].id
  <2>1. i + 1 <= k + 1 /\ k + 1 <= j + 1
    BY <1>1, <1>4
  <2> QED
    BY <1>1, <1>4, <2>1 DEF Inv, Once
<1>5. OnTheWay'
  BY <1>1 DEF Inv, OnTheWay
<1>6. done' \subseteq 1 .. count' /\ twice' = {}
  BY DEF Inv, Once
<1>7. Once'
  BY <1>2, <1>3, <1>4, <1>6 DEF Once, Ids
<1> QED
  BY <1>5, <1>7

LEMMA InvLoseCommand == ASSUME Inv, LoseCommand PROVE Inv'
<1>1. UNCHANGED <<current, saved, stored, radar, learning, calibrating, doubt, stale, last, done, twice, count>>
      /\ down' = Tail(down) /\ down # <<>>
  BY DEF LoseCommand, radarVars
<1>2. OnTheWay' /\ Once'
  BY <1>1, Dropped
<1> QED
  BY <1>1, <1>2, Same DEF Inv

LEMMA InvRedeliver == ASSUME Inv, Redeliver PROVE Inv'
<1>1. UNCHANGED <<current, saved, stored, radar, learning, calibrating, doubt, stale, last, done, twice, count>>
      /\ down' = <<Head(down)>> \o down /\ down # <<>>
  BY DEF Redeliver
<1>2. Head(down) = down[1] /\ 1 \in DOMAIN down /\ Head(down) \in Messages /\ Len(down) \in Nat
      /\ DOMAIN down = 1 .. Len(down)
  BY <1>1, Shorter DEF Inv, OnTheWay
<1>3. <<Head(down)>> \in Seq(Messages) /\ Len(<<Head(down)>>) = 1
  BY <1>2
<1>4. down' \in Seq(Messages) /\ DOMAIN down' = 1 .. Len(down) + 1 /\ down'[1] = down[1]
      /\ \A i \in DOMAIN down' : i # 1 => i - 1 \in DOMAIN down /\ down'[i] = down[i - 1]
  <2> DEFINE one == <<Head(down)>>
  <2>1. one \in Seq(Messages) /\ Len(one) = 1 /\ one[1] = down[1]
    BY <1>2, <1>3
  <2>2. down' = one \o down /\ down \in Seq(Messages)
    BY <1>1 DEF Inv, OnTheWay
  <2> HIDE DEF one
  <2>3. /\ one \o down \in Seq(Messages) /\ Len(one \o down) = Len(one) + Len(down)
        /\ \A i \in 1 .. Len(one) + Len(down) :
              (one \o down)[i] = IF i <= Len(one) THEN one[i] ELSE down[i - Len(one)]
    BY <2>1, <2>2, ConcatProperties
  <2>4. /\ down' \in Seq(Messages) /\ Len(down') = Len(down) + 1
        /\ \A i \in 1 .. Len(down) + 1 : down'[i] = IF i <= 1 THEN one[i] ELSE down[i - 1]
    BY <1>2, <2>1, <2>2, <2>3
  <2>5. DOMAIN down' = 1 .. Len(down) + 1
    BY <2>4
  <2>6. ASSUME NEW i \in 1 .. Len(down) + 1, i # 1 PROVE i - 1 \in DOMAIN down /\ down'[i] = down[i - 1]
    BY <1>2, <2>4, <2>6
  <2>7. down'[1] = down[1]
    BY <1>2, <2>1, <2>4
  <2> QED
    BY <2>4, <2>5, <2>6, <2>7
<1> DEFINE from(i) == IF i = 1 THEN 1 ELSE i - 1
<1>5. \A i \in DOMAIN down' : from(i) \in DOMAIN down /\ down'[i] = down[from(i)]
  BY <1>2, <1>4
<1>6. \A i, j \in DOMAIN down' : i <= j => from(i) <= from(j)
  BY <1>4
<1>7. \A i, j \in DOMAIN down' : i < j => from(i) < from(j) \/ from(i) = from(j)
  BY <1>2, <1>4
<1> HIDE DEF from
<1>8. \A i \in DOMAIN down' : down'[i].id <= count'
  BY <1>1, <1>5 DEF Inv, Once
<1>9. ASSUME NEW i \in DOMAIN down', down'[i].id \in done'
      PROVE  down'[i].id \in Ids(last') /\ \A j \in DOMAIN down' : j < i => down'[j].id = down'[i].id
  <2>1. from(i) \in DOMAIN down /\ down[from(i)].id \in done
    BY <1>1, <1>5, <1>9
  <2>2. down[from(i)].id \in Ids(last) /\ \A j \in DOMAIN down : j < from(i) => down[j].id = down[from(i)].id
    BY <2>1 DEF Inv, Once
  <2>3. ASSUME NEW j \in DOMAIN down', j < i PROVE down'[j].id = down'[i].id
    BY <1>5, <1>7, <2>2, <2>3
  <2> QED
    BY <1>1, <1>5, <2>2, <2>3
<1>10. ASSUME NEW i \in DOMAIN down', NEW j \in DOMAIN down', NEW k \in DOMAIN down',
              i <= k, k <= j, down'[i].id = down'[j].id, down'[i].id # AutoRead
       PROVE  down'[k].id = down'[i].id
  BY <1>5, <1>6, <1>10 DEF Inv, Once
<1>11. OnTheWay'
  BY <1>1, <1>4 DEF Inv, OnTheWay
<1>12. done' \subseteq 1 .. count' /\ twice' = {}
  BY <1>1 DEF Inv, Once
<1>13. Once'
  BY <1>8, <1>9, <1>10, <1>12 DEF Once, Ids
<1> QED
  BY <1>1, <1>11, <1>13, Same DEF Inv

LEMMA InvNodeReboot == ASSUME Inv, NodeReboot PROVE Inv'
<1>1. RInv'
  BY RBoot DEF NodeReboot, Inv
<1>2. down' = <<>> /\ UNCHANGED <<count, done, twice>>
  BY DEF NodeReboot
<1>3. DOMAIN down' = {}
  BY <1>2
<1> QED
  BY <1>1, <1>2, <1>3 DEF Inv, OnTheWay, Once

\* A duplicate is answered again and changes nothing else.
LEMMA InvDuplicate ==
    ASSUME Inv, HandleCommand, Duplicate(Head(down)) PROVE Inv'
<1>1. UNCHANGED <<current, saved, stored, radar, learning, calibrating, doubt, stale, last, done, twice, count>>
      /\ down' = Tail(down) /\ down # <<>>
  BY DEF HandleCommand, radarVars
<1>2. OnTheWay' /\ Once'
  BY <1>1, Dropped
<1> QED
  BY <1>1, <1>2, Same DEF Inv

LEMMA InvExecute ==
    ASSUME Inv, HandleCommand, ~ Duplicate(Head(down)) PROVE Inv'
<1> DEFINE m == Head(down)
<1>1. down # <<>> /\ Execute(m) /\ down' = Tail(down) /\ UNCHANGED count
  BY DEF HandleCommand
<1>2. m = down[1] /\ m \in Messages /\ 1 \in DOMAIN down
  BY <1>1, Shorter DEF Inv
<1> HIDE DEF m
<1>3. m.cmd \in Command /\ m.id \in Nat
  BY <1>2 DEF Messages
<1>4. RInv'
  <2>1. CASE m.cmd.action = "apply"
    <3>1. m.cmd.change \in Changes
      BY <1>3, <2>1 DEF Command
    <3> QED
      BY <1>1, <2>1, <3>1, RApply DEF Execute, Inv
  <2>2. CASE m.cmd.action = "calibrate"
    BY <1>1, <2>2, RCalibrate DEF Execute, Inv
  <2>3. CASE m.cmd.action = "read"
    BY <1>1, <2>3, RRead DEF Execute, Inv
  <2>4. CASE m.cmd.action = "reset"
    BY <1>1, <2>4, RReset DEF Execute, Inv
  <2> QED
    BY <1>3, <2>1, <2>2, <2>3, <2>4 DEF Command
<1>5. m.id \notin done
  <2>1. m.id = AutoRead \/ m.id \notin Ids(last)
    BY DEF Duplicate, m
  <2> QED
    BY <1>2, <2>1 DEF Inv, Once, OnTheWay, AutoRead
<1>6. done' = done \cup ({m.id} \ {AutoRead}) /\ twice' = {} /\ Ids(last') = {m.id}
  <2>1. done' = done \cup ({m.id} \ {AutoRead}) /\ twice' = twice \cup ({m.id} \cap done) /\ last' = {Ack(m.id)}
    BY <1>1 DEF Execute
  <2>2. Ids(last') = {m.id}
    BY <2>1 DEF Ids, Ack
  <2> QED
    BY <1>5, <2>1, <2>2 DEF Inv, Once
<1>7. down' \in Seq(Messages)
      /\ \A i \in DOMAIN down' : i + 1 \in DOMAIN down /\ down'[i] = down[i + 1] /\ i \in Nat \ {0}
  BY <1>1, Shorter DEF Inv
<1>8. \A i \in DOMAIN down : down[i].id \notin done
  <2> SUFFICES ASSUME NEW i \in DOMAIN down, down[i].id \in done PROVE FALSE
    OBVIOUS
  <2>1. i = 1 \/ 1 < i
    BY DEF Inv, OnTheWay
  <2>2. m.id = down[i].id
    BY <1>2, <2>1 DEF Inv, Once
  <2> QED
    BY <1>5, <2>2
<1>9. \A i \in DOMAIN down' : down'[i].id <= count'
  BY <1>1, <1>7 DEF Inv, Once
<1>10. done' \subseteq 1 .. count'
  <2>1. m.id <= count /\ count \in Nat
    BY <1>2 DEF Inv, Once, OnTheWay
  <2> QED
    <3>1. done \subseteq 1 .. count
      BY DEF Inv, Once
    <3>2. m.id # AutoRead => m.id \in 1 .. count
      BY <1>3, <2>1 DEF AutoRead
    <3> QED
      BY <1>1, <1>6, <3>1, <3>2
<1>11. ASSUME NEW i \in DOMAIN down', down'[i].id \in done'
       PROVE  down'[i].id \in Ids(last') /\ \A j \in DOMAIN down' : j < i => down'[j].id = down'[i].id
  <2>1. down[i + 1].id = m.id /\ m.id # AutoRead
    BY <1>6, <1>7, <1>8, <1>11
  <2>2. ASSUME NEW j \in DOMAIN down', j < i PROVE down'[j].id = down'[i].id
    <3>1. 1 \in DOMAIN down /\ i + 1 \in DOMAIN down /\ j + 1 \in DOMAIN down /\ 1 <= j + 1 /\ j + 1 <= i + 1
      BY <1>2, <1>7, <2>2
    <3>2. down[j + 1].id = down[1].id
      BY <1>2, <2>1, <3>1 DEF Inv, Once
    <3> QED
      BY <1>2, <1>7, <2>1, <3>2
  <2> QED
    BY <1>6, <1>7, <2>1, <2>2
<1>12. ASSUME NEW i \in DOMAIN down', NEW j \in DOMAIN down', NEW k \in DOMAIN down',
              i <= k, k <= j, down'[i].id = down'[j].id, down'[i].id # AutoRead
       PROVE  down'[k].id = down'[i].id
  <2>1. i + 1 <= k + 1 /\ k + 1 <= j + 1
    BY <1>7, <1>12
  <2> QED
    BY <1>7, <1>12, <2>1 DEF Inv, Once
<1>13. OnTheWay'
  BY <1>1, <1>7 DEF Inv, OnTheWay
<1>14. Once'
  BY <1>6, <1>9, <1>10, <1>11, <1>12 DEF Once, Ids
<1> QED
  BY <1>4, <1>13, <1>14 DEF Inv

LEMMA InvStep == Inv /\ [Next]_vars => Inv'
<1> SUFFICES ASSUME Inv, [Next]_vars PROVE Inv'
  OBVIOUS
<1>1. CASE UNCHANGED vars
  BY <1>1, Same, SameOnce DEF vars, radarVars, Inv
<1> QED
  BY <1>1, InvElsewhere, InvOnCommand, InvAskSettings, InvLoseCommand, InvRedeliver, InvNodeReboot, InvDuplicate,
     InvExecute DEF Next, Relay, Node

\* rb_node_sensors.c: what the node believes and keeps passes its own check, and
\* the radar uses it unless a calibration runs or a failure was reported.
THEOREM BelievedIsUsed == Spec => []RadarAsBelieved
<1>1. Inv => RadarAsBelieved
  BY DEF Inv, RInv
<1> QED
  BY <1>1, InvInit, InvStep, PTL DEF Spec

\* rb_node_c4002_load_saved: settings reported as saved are pushed at the next boot.
THEOREM SavedIsLoaded == Spec => []SavedSurvives
<1>1. Inv => SavedSurvives
  BY DEF Inv, RInv
<1> QED
  BY <1>1, InvInit, InvStep, PTL DEF Spec

\* handle_command: a command that the radio delivers twice is carried out once,
\* because a copy can only come right behind it.
THEOREM NoneTwice == Spec => []ExecutedOnce
<1>1. Inv => ExecutedOnce
  BY DEF Inv, Once, ExecutedOnce
<1> QED
  BY <1>1, InvInit, InvStep, PTL DEF Spec

-----------------------------------------------------------------------------
(* What the dashboard shows *)

Single(S) == \A x, y \in S : x = y

\* A report of the node, in a reply or on the dashboard: at most one.
Told == {{}} \cup {{s} : s \in Settings}
Acks == [id : AutoRead .. MaxRequests, settings : Settings]
Replies == [kind : {"rejected", "unknown_node", "send_failed", "no_reply", "node"},
            id : AutoRead .. MaxRequests, settings : Told]

\* There is room for one of each, and every request is one of the dashboard's or
\* the automatic one.
NodeFits == Single(stored) /\ Single(calibrating) /\ calibrating \subseteq AutoRead .. MaxRequests
RelayFits ==
    /\ mac \in BOOLEAN /\ want \in BOOLEAN
    /\ mqtt \subseteq [id : 1 .. MaxRequests, sent : BOOLEAN]
    /\ pending \subseteq 1 .. MaxRequests /\ Single(pending)
    /\ slot \subseteq Replies /\ Single(slot)
    /\ shown \in Told
RadioFits ==
    /\ count <= MaxRequests /\ behind \in BOOLEAN
    /\ up \in Seq(Acks) /\ last \subseteq Acks

\* The newest report is the last on the way, or the reply that waits, or what
\* the dashboard shows.
NewestIsCurrent ==
    ~behind =>
        IF up # <<>> THEN up[Len(up)].settings = current
        ELSE IF \E r \in slot : r.settings # {} THEN \A r \in slot : r.settings = {current}
        ELSE shown = {current}

SeenInv == NodeFits /\ RelayFits /\ RadioFits /\ NewestIsCurrent

LEMMA SingleSize == ASSUME NEW S, Single(S) PROVE Cardinality(S) <= 1
<1>1. CASE S = {}
  BY <1>1, FS_EmptySet
<1>2. CASE S # {}
  <2>1. PICK x : x \in S
    BY <1>2
  <2>2. S = {x}
    BY <2>1 DEF Single
  <2>3. Cardinality({x}) = 1
    BY FS_Singleton
  <2> QED
    BY <2>2, <2>3
<1> QED
  BY <1>1, <1>2

\* The invariants make the types.
LEMMA SeenTypes == ASSUME Inv, SeenInv PROVE TypeOK
<1>1. RadarTypeOK
  BY SingleSize DEF Inv, RInv, Types, SeenInv, NodeFits, RadarTypeOK
<1>2. Ids(slot) \subseteq AutoRead .. MaxRequests /\ \A r \in slot : r.settings \subseteq Settings
  BY DEF SeenInv, RelayFits, Ids, Replies, Told
<1>3. Cardinality(slot) <= 1 /\ Cardinality(pending) <= 1 /\ Cardinality(shown) <= 1
  <2>1. Single(shown)
    BY DEF SeenInv, RelayFits, Told, Single
  <2> QED
    BY <2>1, SingleSize DEF SeenInv, RelayFits
<1>4. shown \subseteq Settings
  BY DEF SeenInv, RelayFits, Told
<1> QED
  BY <1>1, <1>2, <1>3, <1>4 DEF TypeOK, SeenInv, RelayFits, RadioFits

\* The node's memory: whatever is saved or asked for takes the only place.
LEMMA NodeKept ==
    ASSUME NodeFits,
           stored' = stored \/ stored' = {} \/ (\E s : stored' = {s}),
           calibrating' = calibrating \/ calibrating' = {}
           \/ (\E id \in AutoRead .. MaxRequests : calibrating' = {id})
    PROVE  NodeFits'
<1>1. Single(stored)'
  BY DEF NodeFits, Single
<1>2. Single(calibrating)' /\ calibrating' \subseteq AutoRead .. MaxRequests
  BY DEF NodeFits, Single
<1> QED
  BY <1>1, <1>2 DEF NodeFits

LEMMA NodeCommands ==
    ASSUME NodeFits, NEW id \in AutoRead .. MaxRequests,
           \/ \E ch \in Changes : DoApply(ch)
           \/ DoCalibrate(id) \/ DoRead \/ DoReset \/ FinishCalibration \/ Learned \/ Boot
    PROVE  NodeFits'
<1>1. ASSUME NEW ch \in Changes, DoApply(ch) PROVE NodeFits'
  <2>1. stored' = stored \/ \E s : stored' = {s}
    BY <1>1 DEF DoApply, ApplyAndSave, Save
  <2> QED
    BY <1>1, <2>1, NodeKept DEF DoApply
<1>2. CASE DoCalibrate(id)
  BY <1>2, NodeKept DEF DoCalibrate
<1>3. CASE DoRead
  BY <1>3, NodeKept DEF DoRead
<1>4. CASE DoReset
  BY <1>4, NodeKept DEF DoReset
<1>5. CASE FinishCalibration
  <2>1. stored' = stored \/ \E s : stored' = {s}
    BY <1>5 DEF FinishCalibration, Save
  <2> QED
    BY <1>5, <2>1, NodeKept DEF FinishCalibration
<1>6. CASE Learned
  BY <1>6, NodeKept DEF Learned
<1>7. CASE Boot
  BY <1>7, NodeKept DEF Boot
<1> QED
  BY <1>1, <1>2, <1>3, <1>4, <1>5, <1>6, <1>7

\* A report that joins the others is the newest; the oldest leaves first.
LEMMA ReportJoins ==
    ASSUME up \in Seq(Acks), NEW a \in Acks, up' = Append(up, a)
    PROVE  up' \in Seq(Acks) /\ up' # <<>> /\ up'[Len(up')] = a
OBVIOUS

LEMMA ReportLeaves ==
    ASSUME up \in Seq(Acks), up # <<>>, up' = Tail(up)
    PROVE  /\ up' \in Seq(Acks) /\ Head(up) \in Acks
           /\ up' # <<>> => up'[Len(up')] = up[Len(up)] /\ Len(up) # 1
           /\ up' = <<>> => Head(up) = up[Len(up)] /\ Len(up) = 1
<1>1. /\ up' \in Seq(Acks) /\ Len(up') = Len(up) - 1 /\ Len(up) \in Nat \ {0}
      /\ \A i \in 1 .. Len(up') : up'[i] = up[i + 1]
  OBVIOUS
<1>2. Head(up) = up[1] /\ Head(up) \in Acks
  OBVIOUS
<1>3. up' = <<>> <=> Len(up') = 0
  BY <1>1, EmptySeq
<1> QED
  BY <1>1, <1>2, <1>3

\* What is put in the place of a reply.
LEMMA Replied ==
    ASSUME NEW r \in Replies, SetReply(r)
    PROVE  slot' \subseteq Replies /\ Single(slot)' /\ slot' = {r}
BY DEF SetReply, Single

LEMMA ReplyTypes ==
    /\ \A kind \in {"rejected", "unknown_node", "send_failed", "no_reply"}, id \in AutoRead .. MaxRequests :
          Reply(kind, id, {}) \in Replies /\ Reply(kind, id, {}).settings = {}
    /\ \A a \in Acks : /\ Reply("node", a.id, {a.settings}) \in Replies
                       /\ Reply("node", a.id, {a.settings}).settings = {a.settings}
BY DEF Reply, Replies, Told, Acks

\* A reply that is not the node's covers its newest report, and says so.
LEMMA Covered ==
    ASSUME NewestIsCurrent, NEW r, slot' = {r}, r.settings = {}, Covers, UNCHANGED <<up, shown, current>>
    PROVE  NewestIsCurrent'
BY DEF NewestIsCurrent, Covers

LEMMA SeenInit == Init => SeenInv
<1> SUFFICES ASSUME Init PROVE SeenInv
  OBVIOUS
<1>1. NodeFits
  BY DEF Init, RadarInit, NodeFits, Single
<1>2. RelayFits
  BY DEF Init, RelayFits, Single, Told
<1>3. RadioFits
  BY RequestsAssumption DEF Init, RadioFits
<1>4. NewestIsCurrent
  BY DEF Init, NewestIsCurrent
<1> QED
  BY <1>1, <1>2, <1>3, <1>4 DEF SeenInv

LEMMA SeenOnCommand == ASSUME Inv, SeenInv, OnCommand PROVE SeenInv'
<1>1. /\ count < MaxRequests /\ mqtt = {} /\ count' = count + 1
      /\ UNCHANGED <<current, saved, stored, radar, learning, calibrating, doubt, stale, mac, want, pending, up, last, shown>>
  BY DEF OnCommand, radarVars
<1>2. count \in Nat /\ count' \in 1 .. MaxRequests /\ count' \in AutoRead .. MaxRequests
  BY <1>1, RequestsAssumption DEF Inv, OnTheWay, AutoRead
<1>3. NodeFits'
  BY <1>1 DEF SeenInv, NodeFits, Single
<1>4. RadioFits'
  <2>1. behind' \in BOOLEAN
    BY DEF OnCommand, Covers, SeenInv, RadioFits
  <2> QED
    BY <1>1, <1>2, <2>1 DEF SeenInv, RadioFits
<1>5. CASE \E kind \in {"rejected", "unknown_node"} : SetReply(Reply(kind, count', {})) /\ Covers /\ UNCHANGED mqtt
  <2>1. PICK kind \in {"rejected", "unknown_node"} : SetReply(Reply(kind, count', {})) /\ Covers /\ UNCHANGED mqtt
    BY <1>5
  <2> DEFINE r == Reply(kind, count', {})
  <2>2. r \in Replies /\ r.settings = {}
    BY <1>2, ReplyTypes
  <2>3. SetReply(r)
    BY <2>1
  <2> HIDE DEF r
  <2>4. slot' \subseteq Replies /\ Single(slot)' /\ slot' = {r}
    BY <2>2, <2>3, Replied
  <2>5. RelayFits'
    BY <1>1, <2>1, <2>4 DEF SeenInv, RelayFits, Single
  <2>6. NewestIsCurrent'
    BY <1>1, <2>1, <2>2, <2>4, Covered DEF SeenInv
  <2> QED
    BY <1>3, <1>4, <2>5, <2>6 DEF SeenInv
<1>6. CASE \E sent \in BOOLEAN : mqtt' = {[id |-> count', sent |-> sent]} /\ UNCHANGED <<slot, settled, behind>>
  <2>1. RelayFits'
    BY <1>1, <1>2, <1>6 DEF SeenInv, RelayFits, Single
  <2>2. NewestIsCurrent'
    BY <1>1, <1>6 DEF SeenInv, NewestIsCurrent
  <2> QED
    BY <1>3, <1>4, <2>1, <2>2 DEF SeenInv
<1> QED
  BY <1>5, <1>6 DEF OnCommand

LEMMA SeenMarkPending == ASSUME Inv, SeenInv, MarkPending PROVE SeenInv'
<1>1. UNCHANGED <<current, saved, stored, radar, learning, calibrating, doubt, stale, mac, want, up, last, count, shown>>
      /\ mqtt' = {}
  BY DEF MarkPending, radarVars
<1>2. PICK m \in mqtt :
        IF m.sent
        THEN pending' = {m.id} /\ UNCHANGED <<slot, behind>>
        ELSE SetReply(Reply("send_failed", m.id, {})) /\ Covers /\ UNCHANGED pending
  BY DEF MarkPending
<1>3. m.id \in 1 .. MaxRequests /\ m.id \in AutoRead .. MaxRequests
  BY <1>2, RequestsAssumption DEF SeenInv, RelayFits, AutoRead
<1>4. NodeFits'
  BY <1>1 DEF SeenInv, NodeFits, Single
<1>5. CASE m.sent
  <2>1. RelayFits'
    BY <1>1, <1>2, <1>3, <1>5 DEF SeenInv, RelayFits, Single
  <2>2. RadioFits' /\ NewestIsCurrent'
    BY <1>1, <1>2, <1>5 DEF SeenInv, RadioFits, NewestIsCurrent
  <2> QED
    BY <1>4, <2>1, <2>2 DEF SeenInv
<1>6. CASE ~ m.sent
  <2> DEFINE r == Reply("send_failed", m.id, {})
  <2>1. r \in Replies /\ r.settings = {}
    BY <1>3, ReplyTypes
  <2>2. SetReply(r) /\ Covers /\ UNCHANGED pending
    BY <1>2, <1>6
  <2> HIDE DEF r
  <2>3. slot' \subseteq Replies /\ Single(slot)' /\ slot' = {r}
    BY <2>1, <2>2, Replied
  <2>4. RelayFits'
    BY <1>1, <2>2, <2>3 DEF SeenInv, RelayFits, Single
  <2>5. behind' \in BOOLEAN
    BY <2>2 DEF Covers, SeenInv, RadioFits
  <2>6. RadioFits'
    BY <1>1, <2>5 DEF SeenInv, RadioFits
  <2>7. NewestIsCurrent'
    BY <1>1, <2>1, <2>2, <2>3, Covered DEF SeenInv
  <2> QED
    BY <1>4, <2>4, <2>6, <2>7 DEF SeenInv
<1> QED
  BY <1>5, <1>6

LEMMA SeenOnAck == ASSUME Inv, SeenInv, OnAck PROVE SeenInv'
<1> DEFINE ack == Head(up)
           r == Reply("node", ack.id, {ack.settings})
<1>1. /\ up # <<>> /\ up' = Tail(up) /\ pending' = pending \ Answers(ack) /\ SetReply(r)
      /\ mac' = TRUE /\ want' = FALSE
      /\ UNCHANGED <<current, saved, stored, radar, learning, calibrating, doubt, stale, mqtt, last, count, shown, behind>>
  BY DEF OnAck, radarVars
<1>2. /\ up' \in Seq(Acks) /\ ack \in Acks
      /\ up' # <<>> => up'[Len(up')] = up[Len(up)]
      /\ up' = <<>> => ack = up[Len(up)]
  BY <1>1, ReportLeaves DEF SeenInv, RadioFits
<1>3. r \in Replies /\ r.settings = {ack.settings}
  BY <1>2, ReplyTypes
<1> HIDE DEF ack, r
<1>4. slot' \subseteq Replies /\ Single(slot)' /\ slot' = {r}
  BY <1>1, <1>3, Replied
<1>5. NodeFits'
  BY <1>1 DEF SeenInv, NodeFits, Single
<1>6. RelayFits'
  BY <1>1, <1>4 DEF SeenInv, RelayFits, Single
<1>7. RadioFits'
  BY <1>1, <1>2 DEF SeenInv, RadioFits
<1>8. NewestIsCurrent'
  <2> SUFFICES ASSUME ~behind, up[Len(up)].settings = current
               PROVE  IF up' # <<>> THEN up'[Len(up')].settings = current'
                      ELSE (\E q \in slot' : q.settings # {}) /\ (\A q \in slot' : q.settings = {current'})
    BY <1>1 DEF SeenInv, NewestIsCurrent
  <2> QED
    BY <1>1, <1>2, <1>3, <1>4
<1> QED
  BY <1>5, <1>6, <1>7, <1>8 DEF SeenInv

LEMMA SeenPoll == ASSUME Inv, SeenInv, NEW expired \in BOOLEAN, Poll(expired) PROVE SeenInv'
<1> DEFINE out == IF expired THEN UNION {NoReply(id, slot) : id \in pending} ELSE slot
<1>1. /\ pending' \subseteq pending /\ slot' = {}
      /\ shown' = IF \E r \in out : r.settings # {} THEN UNION {r.settings : r \in out} ELSE shown
      /\ IF expired THEN Covers ELSE UNCHANGED behind
      /\ UNCHANGED <<current, saved, stored, radar, learning, calibrating, doubt, stale, mac, want, mqtt, up, last, count>>
  BY DEF Poll, radarVars
<1>2. NodeFits'
  BY <1>1 DEF SeenInv, NodeFits, Single
<1>3. RadioFits'
  <2>1. behind' \in BOOLEAN
    BY <1>1 DEF Covers, SeenInv, RadioFits
  <2> QED
    BY <1>1, <2>1 DEF SeenInv, RadioFits
<1>4. mac' \in BOOLEAN /\ want' \in BOOLEAN /\ mqtt' = mqtt
      /\ pending' \subseteq 1 .. MaxRequests /\ Single(pending)' /\ slot' \subseteq Replies /\ Single(slot)'
  BY <1>1 DEF SeenInv, RelayFits, Single
<1>5. CASE expired
  <2>1. \A r \in out : r.settings = {}
    BY <1>5 DEF NoReply, Reply
  <2>2. shown' = shown
    BY <1>1, <2>1
  <2>3. RelayFits'
    BY <1>4, <2>2 DEF SeenInv, RelayFits
  <2>4. NewestIsCurrent'
    BY <1>1, <1>5, <2>2 DEF SeenInv, NewestIsCurrent, Covers
  <2> QED
    BY <1>2, <1>3, <2>3, <2>4 DEF SeenInv
<1>6. CASE ~expired
  <2>1. out = slot /\ slot \subseteq Replies /\ Single(slot) /\ shown \in Told
    BY <1>6 DEF SeenInv, RelayFits
  <2> HIDE DEF out
  <2>2. CASE \E r \in slot : r.settings # {}
    <3>1. PICK r \in slot : r.settings # {}
      BY <2>2
    <3>2. slot = {r}
      BY <2>1, <3>1 DEF Single
    <3>3. shown' = r.settings /\ r.settings \in Told
      BY <1>1, <2>1, <3>1, <3>2 DEF Replies
    <3>4. RelayFits'
      BY <1>4, <3>3 DEF SeenInv, RelayFits
    <3>5. NewestIsCurrent'
      BY <1>1, <1>6, <3>1, <3>2, <3>3 DEF SeenInv, NewestIsCurrent
    <3> QED
      BY <1>2, <1>3, <3>4, <3>5 DEF SeenInv
  <2>3. CASE ~ \E r \in slot : r.settings # {}
    <3>1. shown' = shown
      BY <1>1, <2>1, <2>3
    <3>2. RelayFits'
      BY <1>4, <3>1 DEF SeenInv, RelayFits
    <3>3. NewestIsCurrent'
      BY <1>1, <1>6, <2>3, <3>1 DEF SeenInv, NewestIsCurrent
    <3> QED
      BY <1>2, <1>3, <3>2, <3>3 DEF SeenInv
  <2> QED
    BY <2>2, <2>3
<1> QED
  BY <1>5, <1>6

LEMMA SeenReboot == ASSUME Inv, SeenInv, ControllerReboot PROVE SeenInv'
<1>1. /\ mac' = FALSE /\ want' = FALSE /\ mqtt' = {} /\ pending' = {} /\ slot' = {} /\ up' = <<>>
      /\ behind' = (behind \/ up # <<>> \/ \E r \in slot : r.settings # {})
      /\ UNCHANGED <<current, stored, calibrating, last, count, shown>>
  BY DEF ControllerReboot
<1>2. NodeFits' /\ RelayFits' /\ NewestIsCurrent'
  BY <1>1 DEF SeenInv, NodeFits, RelayFits, NewestIsCurrent, Single
<1>3. RadioFits'
  BY <1>1 DEF SeenInv, RadioFits
<1> QED
  BY <1>2, <1>3 DEF SeenInv

LEMMA SeenLoseAck == ASSUME Inv, SeenInv, LoseAck PROVE SeenInv'
<1>1. /\ up # <<>> /\ up' = Tail(up) /\ behind' = (behind \/ Len(up) = 1)
      /\ UNCHANGED <<current, stored, calibrating, mac, want, mqtt, pending, slot, last, count, shown>>
  BY DEF LoseAck, radarVars, relayVars
<1>2. /\ up' \in Seq(Acks)
      /\ up' # <<>> => up'[Len(up')] = up[Len(up)]
      /\ up' = <<>> => Len(up) = 1
  BY <1>1, ReportLeaves DEF SeenInv, RadioFits
<1>3. NodeFits' /\ RelayFits'
  BY <1>1 DEF SeenInv, NodeFits, RelayFits, Single
<1>4. RadioFits' /\ NewestIsCurrent'
  BY <1>1, <1>2 DEF SeenInv, RadioFits, NewestIsCurrent
<1> QED
  BY <1>3, <1>4 DEF SeenInv

\* A report of the node's settings as they are makes up for what was lost.
LEMMA SeenReport ==
    ASSUME Inv, Inv', SeenInv, NodeFits', NEW id \in AutoRead .. MaxRequests,
           up' = Append(up, Ack(id)), behind' = FALSE, last' \in {last, {Ack(id)}},
           UNCHANGED <<mac, want, mqtt, pending, slot, count, shown>>
    PROVE  SeenInv'
<1> DEFINE a == Ack(id)
<1>1. a \in Acks /\ a.settings = current'
  BY DEF Ack, Acks, Inv, RInv, Types
<1>2. up' = Append(up, a) /\ last' \subseteq last \cup {a}
  OBVIOUS
<1> HIDE DEF a
<1>3. up' \in Seq(Acks) /\ up' # <<>> /\ up'[Len(up')] = a
  BY <1>1, <1>2, ReportJoins DEF SeenInv, RadioFits
<1>4. RelayFits'
  BY DEF SeenInv, RelayFits, Single
<1>5. RadioFits'
  BY <1>1, <1>2, <1>3 DEF SeenInv, RadioFits
<1>6. NewestIsCurrent'
  BY <1>1, <1>3 DEF NewestIsCurrent
<1> QED
  BY <1>4, <1>5, <1>6 DEF SeenInv

LEMMA SeenHandle == ASSUME Inv, Inv', SeenInv, HandleCommand PROVE SeenInv'
<1> DEFINE m == Head(down)
<1>1. /\ down # <<>> /\ UNCHANGED <<mac, want, mqtt, pending, slot, count, shown>>
      /\ IF Duplicate(m)
         THEN /\ \E ack \in last : up' = Append(up, ack) /\ behind' = (ack.settings # current)
              /\ UNCHANGED <<radarVars, last>>
         ELSE Execute(m)
  BY DEF HandleCommand, relayVars
<1>2. m \in Messages /\ m.id <= count
  BY <1>1, Shorter DEF Inv, Once
<1> HIDE DEF m
<1>3. m.id \in AutoRead .. MaxRequests /\ m.cmd \in Command
  BY <1>2, RequestsAssumption DEF Messages, SeenInv, RadioFits, Inv, OnTheWay, AutoRead
<1>4. CASE Duplicate(m)
  <2>1. PICK ack \in last : up' = Append(up, ack) /\ behind' = (ack.settings # current)
    BY <1>1, <1>4
  <2>2. ack \in Acks /\ UNCHANGED <<current, stored, calibrating, last>>
    BY <1>1, <1>4 DEF SeenInv, RadioFits, radarVars
  <2>3. up' \in Seq(Acks) /\ up' # <<>> /\ up'[Len(up')] = ack
    BY <2>1, <2>2, ReportJoins DEF SeenInv, RadioFits
  <2>4. NodeFits' /\ RelayFits'
    BY <1>1, <2>2 DEF SeenInv, NodeFits, RelayFits, Single
  <2>5. RadioFits' /\ NewestIsCurrent'
    BY <1>1, <2>1, <2>2, <2>3 DEF SeenInv, RadioFits, NewestIsCurrent
  <2> QED
    BY <2>4, <2>5 DEF SeenInv
<1>5. CASE ~ Duplicate(m)
  <2>1. Execute(m)
    BY <1>1, <1>5
  <2>2. NodeFits'
    <3>1. CASE m.cmd.action = "apply"
      <4>1. m.cmd.change \in Changes /\ DoApply(m.cmd.change)
        BY <1>3, <2>1, <3>1 DEF Command, Execute
      <4> QED
        BY <1>3, <4>1, NodeCommands DEF SeenInv
    <3>2. CASE m.cmd.action = "calibrate"
      BY <1>3, <2>1, <3>2, NodeCommands DEF Execute, SeenInv
    <3>3. CASE m.cmd.action = "read"
      BY <1>3, <2>1, <3>3, NodeCommands DEF Execute, SeenInv
    <3>4. CASE m.cmd.action = "reset"
      BY <1>3, <2>1, <3>4, NodeCommands DEF Execute, SeenInv
    <3> QED
      BY <1>3, <3>1, <3>2, <3>3, <3>4 DEF Command
  <2>3. up' = Append(up, Ack(m.id)) /\ behind' = FALSE /\ last' = {Ack(m.id)}
    BY <2>1 DEF Execute
  <2> QED
    BY <1>1, <1>3, <2>2, <2>3, SeenReport
<1> QED
  BY <1>4, <1>5

LEMMA SeenCalibration == ASSUME Inv, Inv', SeenInv, ReportCalibration PROVE SeenInv'
<1>1. PICK id \in calibrating : up' = Append(up, Ack(id))
  BY DEF ReportCalibration
<1>2. id \in AutoRead .. MaxRequests
  BY DEF SeenInv, NodeFits
<1>3. NodeFits'
  BY <1>2, NodeCommands DEF ReportCalibration, SeenInv
<1>4. behind' = FALSE /\ last' = last /\ UNCHANGED <<mac, want, mqtt, pending, slot, count, shown>>
  BY DEF ReportCalibration, relayVars
<1> QED
  BY <1>1, <1>2, <1>3, <1>4, SeenReport

\* Steps that leave the reports and the replies alone.
LEMMA SeenElsewhere ==
    ASSUME Inv, SeenInv,
           \/ Hear \/ AskSettings \/ RadarLearned \/ NodeReboot \/ LoseCommand \/ Redeliver \/ UNCHANGED vars
    PROVE  SeenInv'
<1>1. /\ UNCHANGED <<mqtt, pending, slot, up, count, shown>>
      /\ last' \subseteq last
      /\ mac' \in BOOLEAN /\ want' \in BOOLEAN
  BY DEF Hear, AskSettings, RadarLearned, NodeReboot, LoseCommand, Redeliver, vars, relayVars, SeenInv, RelayFits
<1>2. (UNCHANGED current /\ UNCHANGED behind) \/ behind' = (behind \/ current' # current)
  BY DEF Hear, AskSettings, RadarLearned, Learned, NodeReboot, LoseCommand, Redeliver, vars, radarVars
<1>3. NodeFits'
  <2>1. AutoRead \in AutoRead .. MaxRequests
    BY RequestsAssumption DEF AutoRead
  <2>2. CASE RadarLearned \/ NodeReboot
    BY <2>1, <2>2, NodeCommands DEF RadarLearned, NodeReboot, SeenInv
  <2>3. CASE ~ (RadarLearned \/ NodeReboot)
    <3>1. UNCHANGED <<stored, calibrating>>
      BY <2>3 DEF Hear, AskSettings, LoseCommand, Redeliver, vars, radarVars
    <3> QED
      BY <3>1 DEF SeenInv, NodeFits, Single
  <2> QED
    BY <2>2, <2>3
<1>4. RelayFits'
  BY <1>1 DEF SeenInv, RelayFits, Single
<1>5. RadioFits'
  BY <1>1, <1>2 DEF SeenInv, RadioFits
<1>6. NewestIsCurrent'
  BY <1>1, <1>2 DEF SeenInv, NewestIsCurrent, RadioFits
<1> QED
  BY <1>3, <1>4, <1>5, <1>6 DEF SeenInv

LEMMA SeenStep == Inv /\ SeenInv /\ [Next]_vars => SeenInv'
<1> SUFFICES ASSUME Inv, SeenInv, [Next]_vars PROVE SeenInv'
  OBVIOUS
<1>1. Inv'
  BY InvStep
<1> QED
  BY <1>1, SeenOnCommand, SeenMarkPending, SeenOnAck, SeenPoll, SeenReboot, SeenLoseAck, SeenHandle,
     SeenCalibration, SeenElsewhere DEF Next, Relay, Node

\* ShownIsCurrent (rb_c4002_relay.c, set_reply and rb_c4002_relay_poll): once
\* every report has arrived, the dashboard shows the settings that the node has,
\* unless the newest report was lost or pushed aside.
THEOREM DashboardIsCurrent == Spec => []ShownIsCurrent
<1>1. Inv /\ SeenInv => ShownIsCurrent
  BY SeenTypes DEF ShownIsCurrent, SeenInv, NewestIsCurrent
<1> QED
  BY <1>1, InvInit, InvStep, SeenInit, SeenStep, PTL DEF Spec

=============================================================================
