--------------------------- MODULE SettingsProofs ---------------------------
(***************************************************************************)
(* Proofs about the dashboard's settings: the controller runs the base and    *)
(* the cards in force, what is in force is what was asked for and saved, and   *)
(* a batch is refused only for a card that is inconsistent by itself.  For any *)
(* cards' values, and any number of commands, failures and reboots.          *)
(***************************************************************************)
EXTENDS Settings, FiniteSetTheorems, TLAPS

ValueOf(c) == Values[c] \cup {Menuconfig}

Types ==
    /\ DOMAIN saved = Cards /\ \A c \in Cards : saved[c] \in ValueOf(c) \cup {Foreign}
    /\ DOMAIN inuse = Cards /\ \A c \in Cards : inuse[c] \in ValueOf(c)
    /\ DOMAIN pending = Cards /\ DOMAIN asked = Cards
    /\ \A c \in Cards : asked[c] \in ValueOf(c)
    /\ base \in {Normal, Test} /\ newBase \subseteq {Normal, Test}
    /\ refused \subseteq Merged /\ unsaved \subseteq Cards

Runs ==
    /\ Valid(running)
    /\ running = Merge(base, inuse)
    /\ requireAll = (IF inuse["attendance"] = Menuconfig THEN RequireAll ELSE inuse["attendance"].all)
    /\ radar = IF inuse["radar_rules"] = Menuconfig THEN RadarRules ELSE inuse["radar_rules"]

\* A slot holds what was asked for last, and an empty one has been emptied into
\* the cards in force.
Slots ==
    \A c \in Cards :
        /\ pending[c] # {} => pending[c] = {asked[c]}
        /\ (pending[c] = {} /\ c \notin refused) => inuse[c] = asked[c]

\* Between its post and its save, a message is all that NVS has not heard of.
Handled ==
    /\ \A m \in mqtt : m.card \in Cards /\ asked[m.card] = m.value
    /\ \A c \in Cards :
          (c \notin unsaved /\ saved[c] # Foreign /\ \A m \in mqtt : m.card # c) => saved[c] = asked[c]

Inv == Types /\ Runs /\ Slots /\ Handled

-----------------------------------------------------------------------------

LEMMA Chosen == ASSUME NEW S, S # {} PROVE (CHOOSE v \in S : TRUE) \in S
OBVIOUS

\* The settings of the radar are no part of the configuration.
LEMMA MergeSame ==
    ASSUME NEW b, NEW x, NEW y, \A c \in Merged : x[c] = y[c]
    PROVE  Merge(b, x) = Merge(b, y)
<1>1. /\ x["params"] = y["params"] /\ x["cooking_temp"] = y["cooking_temp"] /\ x["attendance"] = y["attendance"]
      /\ x["tiers"] = y["tiers"] /\ x["cookware"] = y["cookware"] /\ x["presence_filter"] = y["presence_filter"]
  BY DEF Merged
<1> QED
  BY <1>1 DEF Merge

\* Without cards the configuration is the base.
LEMMA MergeNone == ASSUME NEW b PROVE Merge(b, NoCards) = b
<1>1. \A c \in Merged : NoCards[c] = Menuconfig
  BY DEF NoCards, Merged, Cards
<1>2. /\ NoCards["params"] = Menuconfig /\ NoCards["cooking_temp"] = Menuconfig
      /\ NoCards["attendance"] = Menuconfig /\ NoCards["tiers"] = Menuconfig
      /\ NoCards["cookware"] = Menuconfig /\ NoCards["presence_filter"] = Menuconfig
  BY <1>1 DEF Merged
<1> QED
  BY <1>2 DEF Merge

LEMMA NoCardsType ==
    DOMAIN NoCards = Cards /\ \A c \in Cards : NoCards[c] = Menuconfig /\ NoCards[c] \in ValueOf(c)
BY DEF NoCards, ValueOf

LEMMA CardNames == Cards = Merged \cup {"radar_rules"} /\ "attendance" \in Cards /\ "radar_rules" \in Cards
                   /\ "radar_rules" \notin Merged
BY DEF Cards, Merged

\* A configuration without cards is in force.
LEMMA RunsBase ==
    ASSUME base = Normal, running = Normal, inuse = NoCards, radar = RadarRules, requireAll = RequireAll
    PROVE  Runs
<1>1. inuse["attendance"] = Menuconfig /\ inuse["radar_rules"] = Menuconfig
  BY NoCardsType, CardNames
<1>2. Valid(running)
  BY SettingsAssumption
<1>3. running = Merge(base, inuse)
  BY MergeNone
<1> QED
  BY <1>1, <1>2, <1>3 DEF Runs

LEMMA LoadedType ==
    ASSUME Types
    PROVE  /\ DOMAIN Loaded = Cards
           /\ \A c \in Cards : Loaded[c] = IF saved[c] \in Values[c] THEN {saved[c]} ELSE {}
<1>1. DOMAIN Loaded = Cards
  BY DEF Loaded, Cards, Merged
<1>2. ASSUME NEW c \in Cards PROVE Loaded[c] = Load(c)
  BY DEF Loaded, Cards, Merged, FilterLoad, CookingTempLoad, CookwareLoad, TiersLoad, AttendanceLoad,
         RadarRulesLoad, ParamsLoad
<1> QED
  BY <1>1, <1>2 DEF Load

\* What a saved card asks for at boot.
LEMMA AskedAtBoot ==
    ASSUME Types, NEW x, x = Latest(Loaded, NoCards)
    PROVE  /\ DOMAIN x = Cards
           /\ \A c \in Cards : x[c] = IF saved[c] \in Values[c] THEN saved[c] ELSE Menuconfig
<1>1. DOMAIN x = Cards
  BY DEF Latest
<1>2. ASSUME NEW c \in Cards PROVE x[c] = IF saved[c] \in Values[c] THEN saved[c] ELSE Menuconfig
  <2>1. x[c] = IF Loaded[c] = {} THEN NoCards[c] ELSE CHOOSE v \in Loaded[c] : TRUE
    BY DEF Latest
  <2>2. CASE saved[c] \in Values[c]
    <3>1. Loaded[c] = {saved[c]}
      BY <2>2, LoadedType
    <3>2. (CHOOSE v \in Loaded[c] : TRUE) \in Loaded[c]
      BY <3>1, Chosen
    <3> QED
      BY <2>1, <2>2, <3>1, <3>2
  <2>3. CASE saved[c] \notin Values[c]
    BY <2>1, <2>3, LoadedType, NoCardsType
  <2> QED
    BY <2>2, <2>3
<1> QED
  BY <1>1, <1>2

-----------------------------------------------------------------------------

LEMMA InvInit == Init => Inv
<1> SUFFICES ASSUME Init PROVE Inv
  OBVIOUS
<1>1. /\ inuse = NoCards /\ asked = NoCards /\ pending = [c \in Cards |-> {}] /\ mqtt = {}
      /\ newBase = {} /\ base = Normal /\ running = Normal /\ refused = {} /\ unsaved = {}
      /\ radar = RadarRules /\ requireAll = RequireAll
  BY DEF Init
<1>2. DOMAIN saved = Cards /\ \A c \in Cards : saved[c] \in {Menuconfig, Foreign}
  <2>1. CASE saved = NoCards
    BY <2>1, NoCardsType
  <2>2. CASE \E c \in Cards : saved = [NoCards EXCEPT ![c] = Foreign]
    BY <2>2, NoCardsType
  <2> QED
    BY <2>1, <2>2 DEF Init
<1>3. Types
  BY <1>1, <1>2, NoCardsType DEF Types, ValueOf
<1>4. Runs
  BY <1>1, RunsBase
<1>5. Slots
  BY <1>1 DEF Slots
<1>6. Handled
  BY <1>1, <1>2, NoCardsType DEF Handled
<1> QED
  BY <1>3, <1>4, <1>5, <1>6 DEF Inv

LEMMA MessageType ==
    ASSUME NEW m \in AcceptedMessages PROVE m.card \in Cards /\ m.value \in ValueOf(m.card)
<1>1. PICK c \in Cards :
        m \in { [card |-> c, value |-> v, pairs |-> p] : v \in Values[c], p \in Around(HeaderKeys \o Fields[c]) }
              \cup { [card |-> c, value |-> Menuconfig, pairs |-> p] : p \in Around(HeaderKeys) }
  BY DEF AcceptedMessages, Messages
<1>2. CASE \E v \in Values[c], p \in Around(HeaderKeys \o Fields[c]) : m = [card |-> c, value |-> v, pairs |-> p]
  BY <1>2 DEF ValueOf
<1>3. CASE \E p \in Around(HeaderKeys) : m = [card |-> c, value |-> Menuconfig, pairs |-> p]
  BY <1>3 DEF ValueOf
<1> QED
  BY <1>1, <1>2, <1>3

\* on_controller_command as far as its post.
LEMMA InvPost == ASSUME Inv, NEW m \in AcceptedMessages, Post(m) PROVE Inv'
<1>1. m.card \in Cards /\ m.value \in ValueOf(m.card)
  BY MessageType
<1>2. /\ mqtt = {} /\ mqtt' = {m} /\ refused' = refused \ {m.card}
      /\ pending' = [pending EXCEPT ![m.card] = {m.value}] /\ asked' = [asked EXCEPT ![m.card] = m.value]
      /\ UNCHANGED <<saved, newBase, base, inuse, radar, requireAll, running, unsaved>>
  BY DEF Post, safetyTask
<1>3. /\ DOMAIN pending' = Cards /\ DOMAIN asked' = Cards
      /\ pending'[m.card] = {m.value} /\ asked'[m.card] = m.value
      /\ \A c \in Cards : c # m.card => pending'[c] = pending[c] /\ asked'[c] = asked[c]
  BY <1>1, <1>2 DEF Inv, Types
<1>4. Types'
  BY <1>1, <1>2, <1>3 DEF Inv, Types, ValueOf
<1>5. Runs'
  BY <1>2 DEF Inv, Runs, Merge
<1>6. Slots'
  BY <1>1, <1>2, <1>3 DEF Inv, Slots
<1>7. Handled'
  BY <1>1, <1>2, <1>3 DEF Inv, Handled
<1> QED
  BY <1>4, <1>5, <1>6, <1>7 DEF Inv

LEMMA InvSave == ASSUME Inv, NEW m \in AcceptedMessages, NEW ok \in BOOLEAN, Save(m, ok) PROVE Inv'
<1>1. m.card \in Cards /\ m.value \in ValueOf(m.card)
  BY MessageType
<1>2. /\ mqtt = {m} /\ mqtt' = {} /\ saved' = (IF ok THEN [saved EXCEPT ![m.card] = m.value] ELSE saved)
      /\ unsaved' = (IF ok THEN unsaved \ {m.card} ELSE unsaved \cup {m.card})
      /\ UNCHANGED <<pending, newBase, base, inuse, radar, requireAll, running, asked, refused>>
  BY DEF Save, Stored, safetyTask
<1>3. /\ DOMAIN saved' = Cards /\ (ok => saved'[m.card] = m.value) /\ (~ok => saved' = saved)
      /\ \A c \in Cards : c # m.card => saved'[c] = saved[c]
  BY <1>1, <1>2 DEF Inv, Types
<1>4. Types'
  BY <1>1, <1>2, <1>3 DEF Inv, Types, ValueOf
<1>5. Runs' /\ Slots'
  BY <1>2 DEF Inv, Runs, Merge, Slots
<1>6. asked'[m.card] = m.value
  BY <1>2 DEF Inv, Handled
<1>7. Handled'
  <2> SUFFICES ASSUME NEW c \in Cards, c \notin unsaved', saved'[c] # Foreign PROVE saved'[c] = asked'[c]
    BY <1>2 DEF Handled
  <2>1. CASE c = m.card
    BY <1>2, <1>3, <1>6, <2>1
  <2>2. CASE c # m.card
    BY <1>2, <1>3, <2>2 DEF Inv, Handled
  <2> QED
    BY <2>1, <2>2
<1> QED
  BY <1>4, <1>5, <1>7 DEF Inv

LEMMA InvSetSafetyConfig == ASSUME Inv, SetSafetyConfig PROVE Inv'
<1>1. /\ newBase' \subseteq {Normal, Test}
      /\ UNCHANGED <<saved, mqtt, pending, base, inuse, radar, requireAll, running, asked, refused, unsaved>>
  BY DEF SetSafetyConfig, safetyTask, history
<1>2. Types' /\ Slots' /\ Handled'
  BY <1>1 DEF Inv, Types, Slots, Handled
<1>3. Runs'
  BY <1>1 DEF Inv, Runs, Merge
<1> QED
  BY <1>2, <1>3 DEF Inv

-----------------------------------------------------------------------------

\* What the safety task takes out of the slots.
LEMMA Next1 ==
    ASSUME Inv
    PROVE  /\ DOMAIN NextCards = Cards
           /\ \A c \in Cards : /\ pending[c] = {} => NextCards[c] = inuse[c]
                               /\ pending[c] # {} => NextCards[c] = asked[c]
                               /\ NextCards[c] \in ValueOf(c)
           /\ NextBase \in {Normal, Test}
<1>1. DOMAIN NextCards = Cards
  BY DEF NextCards, Latest
<1>2. ASSUME NEW c \in Cards
      PROVE  /\ pending[c] = {} => NextCards[c] = inuse[c]
             /\ pending[c] # {} => NextCards[c] = asked[c]
             /\ NextCards[c] \in ValueOf(c)
  <2>1. NextCards[c] = IF pending[c] = {} THEN inuse[c] ELSE CHOOSE v \in pending[c] : TRUE
    BY DEF NextCards, Latest
  <2>2. pending[c] # {} => (CHOOSE v \in pending[c] : TRUE) = asked[c]
    <3>1. pending[c] # {} => (CHOOSE v \in pending[c] : TRUE) \in pending[c]
      BY Chosen
    <3> QED
      BY <3>1 DEF Inv, Slots
  <2> QED
    BY <2>1, <2>2 DEF Inv, Types
<1>3. NextBase \in {Normal, Test}
  <2>1. newBase # {} => (CHOOSE b \in newBase : TRUE) \in newBase
    BY Chosen
  <2> QED
    BY <2>1 DEF NextBase, Inv, Types
<1> QED
  BY <1>1, <1>2, <1>3

LEMMA InvSafetyTask == ASSUME Inv, SafetyTask PROVE Inv'
<1>1. /\ pending' = [c \in Cards |-> {}] /\ newBase' = {}
      /\ UNCHANGED <<saved, mqtt, asked, unsaved>>
  BY DEF SafetyTask
<1>2. Handled'
  BY <1>1 DEF Inv, Handled
<1>3. DOMAIN pending' = Cards /\ \A c \in Cards : pending'[c] = {}
  BY <1>1
<1>4. Taken = {c \in Cards : pending[c] # {}}
  BY DEF Taken
<1>5. radar' = IF NextCards["radar_rules"] = Menuconfig THEN RadarRules ELSE NextCards["radar_rules"]
  BY Next1, CardNames DEF SafetyTask, TakeRadarRules, Inv, Runs
<1>6. CASE TakeBatch
  <2>1. inuse' = NextCards /\ base' = NextBase /\ running' = NextConfig /\ refused' = refused \ Taken /\ Accepted
        /\ requireAll' = IF pending["attendance"] = {} THEN requireAll
                         ELSE IF NextCards["attendance"] = Menuconfig THEN RequireAll
                         ELSE NextCards["attendance"].all
    BY <1>6 DEF TakeBatch
  <2>2. Types'
    BY <1>1, <1>3, <2>1, Next1 DEF Inv, Types, ValueOf
  <2>3. Runs'
    <3>1. Valid(running')
      BY <2>1 DEF Accepted
    <3>2. running' = Merge(base', inuse')
      BY <2>1 DEF NextConfig
    <3>3. requireAll' = IF inuse'["attendance"] = Menuconfig THEN RequireAll ELSE inuse'["attendance"].all
      BY <2>1, Next1, CardNames DEF Inv, Runs
    <3> HIDE DEF NextConfig
    <3> QED
      BY <1>5, <2>1, <3>1, <3>2, <3>3 DEF Runs, Merge
  <2>4. Slots'
    BY <1>1, <1>3, <1>4, <2>1, Next1 DEF Inv, Slots
  <2> QED
    BY <1>2, <2>2, <2>3, <2>4 DEF Inv
<1>7. CASE RefuseBatch
  <2>1. /\ inuse' = [inuse EXCEPT !["radar_rules"] = NextCards["radar_rules"]]
        /\ refused' = (refused \ {"radar_rules"}) \cup (Taken \cap Merged)
        /\ UNCHANGED <<base, running, requireAll>>
    BY <1>7 DEF RefuseBatch
  <2>2. /\ DOMAIN inuse' = Cards /\ inuse'["radar_rules"] = NextCards["radar_rules"]
        /\ \A c \in Merged : inuse'[c] = inuse[c]
    BY <2>1, CardNames DEF Inv, Types
  <2>3. Types'
    BY <1>1, <1>3, <2>1, <2>2, Next1, CardNames DEF Inv, Types, ValueOf
  <2>4. Runs'
    <3>1. Merge(base, inuse') = Merge(base, inuse)
      BY <2>2, MergeSame
    <3>2. inuse'["attendance"] = inuse["attendance"]
      BY <2>2 DEF Merged
    <3>3. running' = Merge(base', inuse')
      BY <2>1, <3>1 DEF Inv, Runs
    <3> QED
      BY <1>5, <2>1, <2>2, <3>2, <3>3 DEF Inv, Runs, Merge
  <2>5. Slots'
    <3> SUFFICES ASSUME NEW c \in Cards, c \notin refused' PROVE inuse'[c] = asked'[c]
      BY <1>3 DEF Slots
    <3>1. CASE c = "radar_rules"
      BY <1>1, <2>1, <2>2, <3>1, Next1, CardNames DEF Inv, Slots, Types
    <3>2. CASE c \in Merged
      BY <1>1, <1>4, <2>1, <2>2, <3>2, CardNames DEF Inv, Slots
    <3> QED
      BY <3>1, <3>2, CardNames
  <2> QED
    BY <1>2, <2>3, <2>4, <2>5 DEF Inv
<1> QED
  BY <1>6, <1>7 DEF SafetyTask

LEMMA InvReboot == ASSUME Inv, Reboot PROVE Inv'
<1>1. /\ pending' = Loaded /\ mqtt' = {} /\ newBase' = {} /\ base' = Normal /\ running' = Normal /\ inuse' = NoCards
      /\ radar' = RadarRules /\ requireAll' = RequireAll /\ asked' = Latest(Loaded, NoCards)
      /\ refused' = {} /\ unsaved' = {} /\ saved' = saved
  BY DEF Reboot
<1>2. /\ DOMAIN asked' = Cards
      /\ \A c \in Cards : asked'[c] = IF saved[c] \in Values[c] THEN saved[c] ELSE Menuconfig
  BY <1>1, AskedAtBoot DEF Inv
<1>3. /\ DOMAIN pending' = Cards
      /\ \A c \in Cards : pending'[c] = IF saved[c] \in Values[c] THEN {saved[c]} ELSE {}
  BY <1>1, LoadedType DEF Inv
<1>4. Types'
  BY <1>1, <1>2, <1>3, NoCardsType DEF Inv, Types, ValueOf
<1>5. Runs'
  <2>1. running' = Merge(base', inuse')
    BY <1>1, MergeNone
  <2>2. inuse'["attendance"] = Menuconfig /\ inuse'["radar_rules"] = Menuconfig
    BY <1>1, NoCardsType, CardNames
  <2>3. Valid(running')
    BY <1>1, SettingsAssumption
  <2> QED
    BY <1>1, <2>1, <2>2, <2>3 DEF Runs, Merge
<1>6. Slots'
  BY <1>1, <1>2, <1>3, NoCardsType DEF Slots
<1>7. Handled'
  BY <1>1, <1>2, SettingsAssumption DEF Inv, Types, ValueOf, Handled
<1> QED
  BY <1>4, <1>5, <1>6, <1>7 DEF Inv

LEMMA InvStep == Inv /\ [Next]_vars => Inv'
<1> SUFFICES ASSUME Inv, [Next]_vars PROVE Inv'
  OBVIOUS
<1>1. CASE UNCHANGED vars
  BY <1>1 DEF vars, safetyTask, history, Inv, Types, Runs, Merge, Slots, Handled
<1>2. CASE OnControllerCommand
  <2>1. PICK m \in AcceptedMessages : Post(m) \/ \E ok \in BOOLEAN : Save(m, ok)
    BY <1>2 DEF OnControllerCommand, SetPresenceFilter, SetCookingTemp, SetCookware, SetTiers, SetAttendance,
                SetRadarRules, SetParams, Handler
  <2> QED
    BY <2>1, InvPost, InvSave
<1> QED
  BY <1>1, <1>2, InvSetSafetyConfig, InvSafetyTask, InvReboot DEF Next

-----------------------------------------------------------------------------

LEMMA InvTypeOK == Inv => TypeOK
<1> SUFFICES ASSUME Inv PROVE TypeOK
  OBVIOUS
<1>1. ASSUME NEW c \in Cards PROVE pending[c] \subseteq ValueOf(c) /\ Cardinality(pending[c]) <= 1
  <2>1. CASE pending[c] = {}
    BY <2>1, FS_EmptySet
  <2>2. CASE pending[c] = {asked[c]}
    BY <2>2, FS_Singleton DEF Inv, Types
  <2> QED
    BY <2>1, <2>2 DEF Inv, Slots
<1>2. requireAll \in BOOLEAN
  BY SettingsAssumption, CardNames DEF Inv, Runs, Types, ValueOf
<1>3. radar \in Values["radar_rules"] \cup {RadarRules}
  BY CardNames DEF Inv, Runs, Types, ValueOf
<1> QED
  BY <1>1, <1>2, <1>3 DEF Inv, Types, TypeOK, ValueOf

\* rb_controller.c and the safety task: what runs is valid, and is at any time the
\* base with the cards in force.
THEOREM RunningIsMerged == Spec => []RunsItsCards
<1>1. Inv => RunsItsCards
  BY InvTypeOK DEF Inv, Runs, RunsItsCards, Merge
<1> QED
  BY <1>1, InvInit, InvStep, PTL DEF Spec

\* rb_controller_app.c: what is in force is the latest value asked for, and what
\* the next boot loads is the same, but for refused batches and failed saves.
THEOREM ForceAndSave == Spec => []InForceIsSaved
<1>1. Inv => InForceIsSaved
  BY DEF Inv, Slots, Handled, InForceIsSaved
<1> QED
  BY <1>1, InvInit, InvStep, PTL DEF Spec

-----------------------------------------------------------------------------
(***************************************************************************)
(* Why a batch is refused.  The cards in force are consistent one by one,      *)
(* since the configuration they gave was valid, and consistent cards give a    *)
(* valid configuration on either base: the gap below the cooking temperature    *)
(* is never negative, and a card replaces what another card's validity rests   *)
(* on as a whole.                                                           *)
(***************************************************************************)
TiersValid(tiers) ==
    LET On == {k \in DOMAIN tiers : tiers[k].temp > 0}
    IN  /\ \A k \in On : TimesValid(tiers[k])
        /\ \A j, k \in On : j < k => tiers[j].temp <= tiers[k].temp

HasFields(cfg) == {"warning", "shutdown", "on", "off", "pause", "tiers", "cookware", "tau"} \subseteq DOMAIN cfg

Sound(cfg) == HasFields(cfg) /\ Valid(cfg) /\ cfg.on \in Nat /\ cfg.off \in Nat

\* What a card may hold without being refused for itself.
Fine(cards) == \A d \in Merged : ~Inconsistent(d, cards[d])

LEMMA ValidIs ==
    ASSUME NEW cfg
    PROVE  Valid(cfg) <=> TimesValid(cfg) /\ cfg.off <= cfg.on /\ cfg.pause <= 100 /\ TiersValid(cfg.tiers)
BY DEF Valid, TiersValid

\* Validity of times looks at the two times only.
LEMMA SameTimes ==
    ASSUME NEW s, NEW t, s.warning = t.warning, s.shutdown = t.shutdown
    PROVE  TimesValid(s) <=> TimesValid(t)
BY DEF TimesValid

LEMMA BasesSound == Sound(Normal) /\ Sound(Test)
BY RangeAssumption DEF Sound, HasFields

\* A card of tiers is inconsistent for its tiers alone.
LEMMA TiersAlone ==
    ASSUME NEW v, v # Menuconfig
    PROVE  Inconsistent("tiers", v) <=> ~TiersValid(v)
<1> DEFINE cfg == [Normal EXCEPT !.tiers = v]
<1>1. /\ cfg.tiers = v /\ cfg.off = Normal.off /\ cfg.on = Normal.on /\ cfg.pause = Normal.pause
      /\ cfg.warning = Normal.warning /\ cfg.shutdown = Normal.shutdown
  BY BasesSound DEF Sound, HasFields
<1>2. TimesValid(Normal) /\ Normal.off <= Normal.on /\ Normal.pause <= 100
  BY BasesSound, ValidIs DEF Sound
<1>3. TimesValid(cfg) <=> TimesValid(Normal)
  BY <1>1, SameTimes
<1> HIDE DEF cfg
<1>4. Valid(cfg) <=> TiersValid(v)
  BY <1>1, <1>2, <1>3, ValidIs
<1> QED
  BY <1>4 DEF Inconsistent, cfg

\* rb_params_write: the gap is not negative, whatever it was.
LEMMA ParamsSound ==
    ASSUME NEW cfg, Sound(cfg), NEW p, p.gap \in Nat
    PROVE  Sound(WriteParams(cfg, p))
<1> DEFINE w == WriteParams(cfg, p)
<1>1. /\ DOMAIN w = DOMAIN cfg /\ w.on = cfg.on /\ w.pause = cfg.pause /\ w.tiers = cfg.tiers
      /\ w.warning = cfg.warning /\ w.shutdown = cfg.shutdown /\ w.off = NotBelow0(cfg.on - p.gap)
  BY DEF WriteParams, Sound, HasFields
<1>2. w.off \in Nat /\ w.off <= w.on
  BY <1>1 DEF NotBelow0, Sound
<1>3. TimesValid(w) <=> TimesValid(cfg)
  BY <1>1, SameTimes
<1> HIDE DEF w
<1>4. Sound(w)
  BY <1>1, <1>2, <1>3, ValidIs DEF Sound, HasFields
<1> QED
  BY <1>4 DEF w

\* apply_cooking_temp keeps the gap, so far as 0 allows.
LEMMA CookingTempSound ==
    ASSUME NEW cfg, Sound(cfg), NEW on \in Nat
    PROVE  Sound(ApplyCookingTemp(cfg, on))
<1> DEFINE w == ApplyCookingTemp(cfg, on)
<1>1. /\ DOMAIN w = DOMAIN cfg /\ w.on = on /\ w.pause = cfg.pause /\ w.tiers = cfg.tiers
      /\ w.warning = cfg.warning /\ w.shutdown = cfg.shutdown /\ w.off = NotBelow0(on - (cfg.on - cfg.off))
  BY DEF ApplyCookingTemp, Sound, HasFields
<1>2. cfg.off <= cfg.on
  BY ValidIs DEF Sound
<1>3. w.off \in Nat /\ w.off <= w.on
  BY <1>1, <1>2 DEF NotBelow0, Sound
<1>4. TimesValid(w) <=> TimesValid(cfg)
  BY <1>1, SameTimes
<1> HIDE DEF w
<1>5. Sound(w)
  BY <1>1, <1>3, <1>4, ValidIs DEF Sound, HasFields
<1> QED
  BY <1>5 DEF w

\* Consistent cards on a sound base: every stage of the merge is sound.
LEMMA MergeSound ==
    ASSUME NEW b, Sound(b), NEW cards, Fine(cards), \A c \in Cards : cards[c] \in ValueOf(c)
    PROVE  Valid(Merge(b, cards))
<1> DEFINE c1 == IF cards["params"] = Menuconfig THEN b ELSE WriteParams(b, cards["params"])
           c2 == IF cards["cooking_temp"] = Menuconfig THEN c1 ELSE ApplyCookingTemp(c1, cards["cooking_temp"])
           c3 == IF cards["attendance"] = Menuconfig THEN c2
                 ELSE [c2 EXCEPT !.pause = cards["attendance"].pause]
           c4 == IF cards["tiers"] = Menuconfig THEN c3 ELSE [c3 EXCEPT !.tiers = cards["tiers"]]
           c5 == IF cards["cookware"] = Menuconfig \/ c4.tau = 0 THEN c4
                 ELSE [c4 EXCEPT !.cookware = cards["cookware"], !.tau = Tau(cards["cookware"])]
           c6 == IF cards["presence_filter"] = Menuconfig THEN c5
                 ELSE [c5 EXCEPT !.warning = cards["presence_filter"].warning,
                                 !.shutdown = cards["presence_filter"].shutdown]
<1>1. Merge(b, cards) = c6
  BY DEF Merge
<1>2. Sound(c1)
  <2>1. cards["params"] # Menuconfig => cards["params"].gap \in Nat
    BY RangeAssumption DEF ValueOf, Cards, Merged
  <2> QED
    BY <2>1, ParamsSound
<1> HIDE DEF c1
<1>3. Sound(c2)
  <2>1. cards["cooking_temp"] # Menuconfig => cards["cooking_temp"] \in Nat
    BY RangeAssumption DEF ValueOf, Cards, Merged
  <2> QED
    BY <1>2, <2>1, CookingTempSound
<1> HIDE DEF c2
<1>4. Sound(c3)
  <2>1. CASE cards["attendance"] # Menuconfig
    <3>1. cards["attendance"].pause <= 100
      BY <2>1, RangeAssumption DEF ValueOf, Cards, Merged
    <3>2. /\ DOMAIN c3 = DOMAIN c2 /\ c3.on = c2.on /\ c3.off = c2.off /\ c3.tiers = c2.tiers
          /\ c3.warning = c2.warning /\ c3.shutdown = c2.shutdown /\ c3.pause = cards["attendance"].pause
      BY <1>3, <2>1 DEF Sound, HasFields
    <3>3. TimesValid(c3) <=> TimesValid(c2)
      BY <3>2, SameTimes
    <3> HIDE DEF c3
    <3> QED
      BY <1>3, <3>1, <3>2, <3>3, ValidIs DEF Sound, HasFields
  <2> QED
    BY <1>3, <2>1
<1> HIDE DEF c3
<1>5. Sound(c4)
  <2>1. CASE cards["tiers"] # Menuconfig
    <3>1. TiersValid(cards["tiers"])
      BY <2>1, TiersAlone DEF Fine, Merged
    <3>2. /\ DOMAIN c4 = DOMAIN c3 /\ c4.on = c3.on /\ c4.off = c3.off /\ c4.tiers = cards["tiers"]
          /\ c4.warning = c3.warning /\ c4.shutdown = c3.shutdown /\ c4.pause = c3.pause
      BY <1>4, <2>1 DEF Sound, HasFields
    <3>3. TimesValid(c4) <=> TimesValid(c3)
      BY <3>2, SameTimes
    <3> HIDE DEF c4
    <3> QED
      BY <1>4, <3>1, <3>2, <3>3, ValidIs DEF Sound, HasFields
  <2> QED
    BY <1>4, <2>1
<1> HIDE DEF c4
<1>6. Sound(c5)
  <2>1. CASE ~(cards["cookware"] = Menuconfig \/ c4.tau = 0)
    <3>1. /\ DOMAIN c5 = DOMAIN c4 /\ c5.on = c4.on /\ c5.off = c4.off /\ c5.tiers = c4.tiers
          /\ c5.warning = c4.warning /\ c5.shutdown = c4.shutdown /\ c5.pause = c4.pause
      BY <1>5, <2>1 DEF Sound, HasFields
    <3>2. TimesValid(c5) <=> TimesValid(c4)
      BY <3>1, SameTimes
    <3> HIDE DEF c5
    <3> QED
      BY <1>5, <3>1, <3>2, ValidIs DEF Sound, HasFields
  <2> QED
    BY <1>5, <2>1
<1> HIDE DEF c5
<1>7. Valid(c6)
  <2>1. CASE cards["presence_filter"] # Menuconfig
    <3>1. TimesValid(cards["presence_filter"])
      BY <2>1 DEF Fine, Merged, Inconsistent
    <3>2. /\ c6.on = c5.on /\ c6.off = c5.off /\ c6.tiers = c5.tiers /\ c6.pause = c5.pause
          /\ c6.warning = cards["presence_filter"].warning
          /\ c6.shutdown = cards["presence_filter"].shutdown
      BY <1>6, <2>1 DEF Sound, HasFields
    <3>3. TimesValid(c6)
      BY <3>1, <3>2, SameTimes
    <3> HIDE DEF c6
    <3> QED
      BY <1>6, <3>2, <3>3, ValidIs DEF Sound
  <2> QED
    BY <1>6, <2>1 DEF Sound
<1> QED
  BY <1>1, <1>7

\* A valid configuration was given by consistent cards.
LEMMA ValidIsFine ==
    ASSUME NEW b, HasFields(b), NEW cards, Valid(Merge(b, cards))
    PROVE  Fine(cards)
<1> DEFINE c1 == IF cards["params"] = Menuconfig THEN b ELSE WriteParams(b, cards["params"])
           c2 == IF cards["cooking_temp"] = Menuconfig THEN c1 ELSE ApplyCookingTemp(c1, cards["cooking_temp"])
           c3 == IF cards["attendance"] = Menuconfig THEN c2
                 ELSE [c2 EXCEPT !.pause = cards["attendance"].pause]
           c4 == IF cards["tiers"] = Menuconfig THEN c3 ELSE [c3 EXCEPT !.tiers = cards["tiers"]]
           c5 == IF cards["cookware"] = Menuconfig \/ c4.tau = 0 THEN c4
                 ELSE [c4 EXCEPT !.cookware = cards["cookware"], !.tau = Tau(cards["cookware"])]
           c6 == IF cards["presence_filter"] = Menuconfig THEN c5
                 ELSE [c5 EXCEPT !.warning = cards["presence_filter"].warning,
                                 !.shutdown = cards["presence_filter"].shutdown]
<1>1. Merge(b, cards) = c6
  BY DEF Merge
<1>2. DOMAIN c1 = DOMAIN b
  BY DEF WriteParams
<1> HIDE DEF c1
<1>3. DOMAIN c2 = DOMAIN b
  BY <1>2 DEF ApplyCookingTemp
<1> HIDE DEF c2
<1>4. DOMAIN c3 = DOMAIN b
  BY <1>3
<1> HIDE DEF c3
<1>5. DOMAIN c4 = DOMAIN b /\ (cards["tiers"] # Menuconfig => c4.tiers = cards["tiers"])
  BY <1>4 DEF HasFields
<1> HIDE DEF c4
<1>6. DOMAIN c5 = DOMAIN b /\ c5.tiers = c4.tiers
  BY <1>5
<1> HIDE DEF c5
<1>7. /\ c6.tiers = c5.tiers
      /\ cards["presence_filter"] # Menuconfig => /\ c6.warning = cards["presence_filter"].warning
                                                  /\ c6.shutdown = cards["presence_filter"].shutdown
  BY <1>6 DEF HasFields
<1> HIDE DEF c6
<1>8. TimesValid(c6) /\ TiersValid(c6.tiers)
  BY <1>1, ValidIs
<1>9. cards["presence_filter"] # Menuconfig => TimesValid(cards["presence_filter"])
  BY <1>7, <1>8, SameTimes
<1>10. cards["tiers"] # Menuconfig => TiersValid(cards["tiers"])
  BY <1>5, <1>6, <1>7, <1>8
<1> SUFFICES ASSUME NEW d \in Merged, Inconsistent(d, cards[d]) PROVE FALSE
  BY DEF Fine
<1>11. cards[d] # Menuconfig /\ d \in {"presence_filter", "tiers"}
  BY DEF Inconsistent
<1>12. CASE d = "presence_filter"
  BY <1>9, <1>11, <1>12 DEF Inconsistent
<1>13. CASE d = "tiers"
  BY <1>10, <1>11, <1>13, TiersAlone
<1> QED
  BY <1>11, <1>12, <1>13

FineInForce == Fine(inuse)

LEMMA NoCardsFine == Fine(NoCards)
BY NoCardsType, CardNames DEF Fine, Inconsistent

LEMMA FineStep == Inv /\ FineInForce /\ [Next]_vars => FineInForce'
<1> SUFFICES ASSUME Inv, FineInForce, [Next]_vars PROVE Fine(inuse')
  BY DEF FineInForce, Fine, Inconsistent, Valid, TimesValid
<1>1. CASE SafetyTask /\ TakeBatch
  <2>1. inuse' = NextCards /\ Valid(Merge(NextBase, NextCards))
    BY <1>1 DEF TakeBatch, Accepted, NextConfig
  <2>2. HasFields(NextBase)
    BY Next1, BasesSound DEF Sound
  <2> QED
    BY <2>1, <2>2, ValidIsFine
<1>2. CASE SafetyTask /\ RefuseBatch
  <2>1. \A c \in Merged : inuse'[c] = inuse[c]
    BY <1>2, CardNames DEF RefuseBatch, Inv, Types
  <2> QED
    BY <2>1 DEF FineInForce, Fine
<1>3. CASE Reboot
  BY <1>3, NoCardsFine DEF Reboot
<1>4. CASE inuse' = inuse
  BY <1>4 DEF FineInForce
<1>5. OnControllerCommand \/ SetSafetyConfig => inuse' = inuse
  BY DEF OnControllerCommand, SetPresenceFilter, SetCookingTemp, SetCookware, SetTiers, SetAttendance,
         SetRadarRules, SetParams, Handler, Post, Save, SetSafetyConfig, safetyTask
<1> QED
  BY <1>1, <1>2, <1>3, <1>4, <1>5 DEF Next, SafetyTask, vars, safetyTask

\* The safety task (rb_controller.c) refuses a batch only for a card in it that is
\* inconsistent by itself.
THEOREM RefusedWithCause == Spec => RefusedForABadCard
<1>1. Init => FineInForce
  BY NoCardsFine DEF Init, FineInForce
<1>2. ASSUME Inv, FineInForce, [Next]_vars, NEW c \in Cards, c \notin refused, c \in refused'
      PROVE  \E d \in Merged : pending[d] # {} /\ Inconsistent(d, NextCards[d])
  <2>1. ~Accepted
    <3>1. ~(OnControllerCommand \/ SetSafetyConfig \/ Reboot \/ UNCHANGED vars)
      BY <1>2 DEF OnControllerCommand, SetPresenceFilter, SetCookingTemp, SetCookware, SetTiers, SetAttendance,
                  SetRadarRules, SetParams, Handler, Post, Save, SetSafetyConfig, Reboot, vars, history
    <3>2. SafetyTask
      BY <1>2, <3>1 DEF Next
    <3> QED
      BY <1>2, <3>2 DEF SafetyTask, TakeBatch, RefuseBatch
  <2>2. Sound(NextBase) /\ \A d \in Cards : NextCards[d] \in ValueOf(d)
    BY <1>2, Next1, BasesSound
  <2>3. ~Fine(NextCards)
    BY <2>1, <2>2, MergeSound DEF Accepted, NextConfig
  <2>4. PICK d \in Merged : Inconsistent(d, NextCards[d])
    BY <2>3 DEF Fine
  <2>5. pending[d] = {} => NextCards[d] = inuse[d]
    BY <1>2, Next1, CardNames
  <2> QED
    BY <1>2, <2>4, <2>5 DEF FineInForce, Fine
<1>3. Inv /\ FineInForce /\ [Next]_vars
        => [ \A c \in Cards : (c \notin refused /\ c \in refused') =>
                 \E d \in Merged : pending[d] # {} /\ Inconsistent(d, NextCards[d]) ]_vars
  BY <1>2
<1> QED
  BY <1>1, <1>3, InvInit, InvStep, FineStep, PTL DEF Spec, RefusedForABadCard
=============================================================================
