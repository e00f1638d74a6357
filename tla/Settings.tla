------------------------------ MODULE Settings ------------------------------
(***************************************************************************)
(* The dashboard's settings on the controller: rb_controller_app.c takes    *)
(* them from MQTT and keeps them in NVS, rb_controller.c carries them to the *)
(* safety task and merges them into one configuration.                      *)
(*                                                                         *)
(* A setting is a card.  The MQTT task posts a card into its slot of         *)
(* rb_controller.c and then saves it, in that order and without waiting for  *)
(* the safety task, which empties every slot in one critical section, builds *)
(* the configuration that the batch would give and takes it whole or not at  *)
(* all.  Power may be cut between any two of these steps.  NVS is external.  *)
(* The values of a card are abstracted to what validity and the merge tell   *)
(* apart.                                                                  *)
(***************************************************************************)
EXTENDS Integers, FiniteSets, Commands

CONSTANTS
    Values,                       \* what each card can be set to, by its action
    Menuconfig,                   \* "no card": the configured value counts
    Foreign,                      \* what an older firmware left in NVS
    Normal, Test,                 \* the configuration of Kconfig, and with test timers
    RequireAll, RadarRules,       \* Kconfig's fusion and radar rules
    AfterUnattendedStart,         \* Kconfig's shutdown timing
    Tau(_),                       \* safety_cookware_tau_s
    MaxCommands, MaxReboots, MaxFailures    \* bounds of a run

Merged == {"presence_filter", "cooking_temp", "cookware", "tiers", "attendance", "params"}
Cards == Merged \cup {"radar_rules"}

\* What MQTT may bring for a card: its action with values, or back to menuconfig.
Messages ==
    UNION { { [card |-> c, value |-> v, pairs |-> p] :
                  v \in Values[c], p \in Around(HeaderKeys \o Fields[c]) }
            \cup { [card |-> c, value |-> Menuconfig, pairs |-> p] : p \in Around(HeaderKeys) }
          : c \in Cards }

Action(m) == IF m.value = Menuconfig THEN "defaults" ELSE m.card

\* on_controller_command goes on with these; what it rejects changes nothing.
AcceptedMessages == {m \in Messages : CtrlAccepts(Action(m), m.pairs)}

VARIABLES
    saved,      \* NVS namespace rb_safety: what each card would load
    mqtt,       \* the message of the MQTT task between its post and its save
    pending,    \* the request slots of rb_controller.c: at most one value each
    newBase,    \* s_pending_config
    base,       \* the safety task: the configuration the cards build on
    inuse,      \* the safety task: the cards in force
    radar,      \* node_set_t.rules and rules_mode
    requireAll, \* node_set_t.require_all
    running,    \* safety_sm_t.cfg
    asked,      \* history: each card's latest value of this boot
    refused,    \* history: cards whose latest batch was refused
    unsaved,    \* history: cards whose latest save failed
    used        \* bounds: commands, reboots, NVS failures so far

safetyTask == <<base, inuse, radar, requireAll, running>>
history == <<asked, refused, unsaved>>
vars == <<saved, mqtt, pending, newBase, safetyTask, history, used>>

-----------------------------------------------------------------------------
(* The configuration *)

NotBelow0(n) == IF n > 0 THEN n ELSE 0

\* safety_config_valid, for what the cards can change.
TimesValid(t) ==
    /\ t.warning > 0 /\ t.shutdown > 0
    /\ AfterUnattendedStart => t.shutdown > t.warning

Valid(cfg) ==
    LET On == {k \in DOMAIN cfg.tiers : cfg.tiers[k].temp > 0}
    IN  /\ TimesValid(cfg)
        /\ cfg.off <= cfg.on
        /\ cfg.pause <= 100
        /\ \A k \in On : TimesValid(cfg.tiers[k])
        /\ \A j, k \in On : j < k => cfg.tiers[j].temp <= cfg.tiers[k].temp

\* "No card" and what an older firmware left are no values of a card, and Kconfig
\* is checked when it is built.
ASSUME SettingsAssumption ==
    /\ Foreign # Menuconfig /\ \A c \in Cards : Menuconfig \notin Values[c] /\ Foreign \notin Values[c]
    /\ \A v \in Values["attendance"] : v.all \in BOOLEAN
    /\ RequireAll \in BOOLEAN /\ Valid(Normal)

\* What the commands and the loads check of a card by itself, and what
\* rb_controller_set_safety_config checks of a configuration.
ASSUME RangeAssumption ==
    /\ Values["cooking_temp"] \subseteq Nat
    /\ \A p \in Values["params"] : p.gap \in Nat
    /\ \A v \in Values["attendance"] : v.pause <= 100
    /\ \A cfg \in {Normal, Test} :
          /\ {"warning", "shutdown", "on", "off", "pause", "tiers", "cookware", "tau"} \subseteq DOMAIN cfg
          /\ Valid(cfg) /\ cfg.on \in Nat /\ cfg.off \in Nat

\* rb_params_write: the rows of rb_params.def that interact with a card.
WriteParams(cfg, p) ==
    [cfg EXCEPT !.off = NotBelow0(cfg.on - p.gap),
                !.tau = IF p.trend THEN Tau(cfg.cookware) ELSE 0]

\* The temperature at which cooking ends stays where it was.
ApplyCookingTempMutant(cfg, on) == [cfg EXCEPT !.on = on]

ApplyCookingTemp(cfg, on) ==
    [cfg EXCEPT !.on = on, !.off = NotBelow0(on - (cfg.on - cfg.off))]

\* The cards in the order the safety task applies them.
Merge(b, cards) ==
    LET c1 == IF cards["params"] = Menuconfig THEN b ELSE WriteParams(b, cards["params"])
        c2 == IF cards["cooking_temp"] = Menuconfig THEN c1 ELSE ApplyCookingTemp(c1, cards["cooking_temp"])
        c3 == IF cards["attendance"] = Menuconfig THEN c2
              ELSE [c2 EXCEPT !.pause = cards["attendance"].pause]
        c4 == IF cards["tiers"] = Menuconfig THEN c3 ELSE [c3 EXCEPT !.tiers = cards["tiers"]]
        c5 == IF cards["cookware"] = Menuconfig \/ c4.tau = 0 THEN c4
              ELSE [c4 EXCEPT !.cookware = cards["cookware"], !.tau = Tau(cards["cookware"])]
    IN  IF cards["presence_filter"] = Menuconfig THEN c5
        ELSE [c5 EXCEPT !.warning = cards["presence_filter"].warning, !.shutdown = cards["presence_filter"].shutdown]

\* What a reader would call an inconsistent card; the command's range checks let it through.
Inconsistent(card, v) ==
    /\ v # Menuconfig
    /\ \/ card = "presence_filter" /\ ~TimesValid(v)
       \/ card = "tiers" /\ ~Valid([Normal EXCEPT !.tiers = v])

-----------------------------------------------------------------------------
(* The saved cards.  A blob that is absent, of another length, version or   *)
(* layout, or out of range posts nothing.                                   *)

Load(card) == IF saved[card] \in Values[card] THEN {saved[card]} ELSE {}

FilterLoad == Load("presence_filter")
CookingTempLoad == Load("cooking_temp")
CookwareLoad == Load("cookware")
TiersLoad == Load("tiers")
AttendanceLoad == Load("attendance")
RadarRulesLoad == Load("radar_rules")
ParamsLoad == Load("params")

\* rb_controller_app_start: every saved card is posted before the safety task starts.
Loaded ==
    [ presence_filter |-> FilterLoad, cooking_temp |-> CookingTempLoad,
      cookware |-> CookwareLoad, tiers |-> TiersLoad, attendance |-> AttendanceLoad,
      radar_rules |-> RadarRulesLoad, params |-> ParamsLoad ]

Latest(slots, otherwise) ==
    [c \in Cards |-> IF slots[c] = {} THEN otherwise[c] ELSE CHOOSE v \in slots[c] : TRUE]

NoCards == [c \in Cards |-> Menuconfig]

Init ==
    /\ saved \in {NoCards} \cup {[NoCards EXCEPT ![c] = Foreign] : c \in Cards}
    /\ mqtt = {} /\ pending = [c \in Cards |-> {}] /\ newBase = {}
    /\ base = Normal /\ running = Normal /\ inuse = NoCards
    /\ radar = RadarRules /\ requireAll = RequireAll
    /\ asked = NoCards /\ refused = {} /\ unsaved = {}
    /\ used = [commands |-> 0, reboots |-> 0, failures |-> 0]

-----------------------------------------------------------------------------
(* The MQTT task *)

Post(m) ==
    /\ mqtt = {}
    /\ used.commands < MaxCommands
    /\ mqtt' = {m}
    /\ pending' = [pending EXCEPT ![m.card] = {m.value}]
    /\ asked' = [asked EXCEPT ![m.card] = m.value]
    /\ refused' = refused \ {m.card}
    /\ used' = [used EXCEPT !.commands = @ + 1]
    /\ UNCHANGED <<saved, newBase, safetyTask, unsaved>>

\* Back to menuconfig leaves the key.
StoredMutant(m) ==
    IF m.value = Menuconfig THEN saved ELSE [saved EXCEPT ![m.card] = m.value]

\* Back to menuconfig erases the key.
Stored(m) == [saved EXCEPT ![m.card] = m.value]

\* NVS may be unavailable or full: the setting lasts until the next reboot.
Save(m, ok) ==
    /\ mqtt = {m}
    /\ mqtt' = {}
    /\ ok \/ used.failures < MaxFailures
    /\ saved' = IF ok THEN Stored(m) ELSE saved
    /\ unsaved' = IF ok THEN unsaved \ {m.card} ELSE unsaved \cup {m.card}
    /\ used' = IF ok THEN used ELSE [used EXCEPT !.failures = @ + 1]
    /\ UNCHANGED <<pending, newBase, safetyTask, asked, refused>>

Handler(card) ==
    \E m \in AcceptedMessages :
        /\ m.card = card
        /\ Post(m) \/ \E ok \in BOOLEAN : Save(m, ok)

SetPresenceFilter == Handler("presence_filter")
SetCookingTemp == Handler("cooking_temp")
SetCookware == Handler("cookware")
SetTiers == Handler("tiers")
SetAttendance == Handler("attendance")
SetRadarRules == Handler("radar_rules")
SetParams == Handler("params")

OnControllerCommand ==
    \/ SetPresenceFilter \/ SetCookingTemp \/ SetCookware \/ SetTiers
    \/ SetAttendance \/ SetRadarRules \/ SetParams

\* The console switches between Kconfig's timers and the test timers; both are valid.
SetSafetyConfig ==
    /\ used.commands < MaxCommands
    /\ \E cfg \in {Normal, Test} : newBase' = {cfg}
    /\ used' = [used EXCEPT !.commands = @ + 1]
    /\ UNCHANGED <<saved, mqtt, pending, safetyTask, history>>

-----------------------------------------------------------------------------
(* The safety task *)

Taken == {c \in Cards : pending[c] # {}}
NextCards == Latest(pending, inuse)
NextBase == IF newBase = {} THEN base ELSE CHOOSE b \in newBase : TRUE

\* A change is made to the configuration in force, not to the base.
NextConfigMutant == Merge(IF newBase = {} THEN running ELSE NextBase, NextCards)

NextConfig == Merge(NextBase, NextCards)

Accepted == Valid(NextConfig)

TakeRadarRules ==
    radar' = IF pending["radar_rules"] = {} THEN radar
             ELSE IF NextCards["radar_rules"] = Menuconfig THEN RadarRules ELSE NextCards["radar_rules"]

TakeBatch ==
    /\ Accepted
    /\ inuse' = NextCards
    /\ base' = NextBase
    /\ running' = NextConfig
    /\ requireAll' = IF pending["attendance"] = {} THEN requireAll
                     ELSE IF NextCards["attendance"] = Menuconfig THEN RequireAll
                     ELSE NextCards["attendance"].all
    /\ refused' = refused \ Taken

\* The cards in use are kept; the slots are empty all the same.
RefuseBatch ==
    /\ ~Accepted
    /\ inuse' = [inuse EXCEPT !["radar_rules"] = NextCards["radar_rules"]]
    /\ refused' = (refused \ {"radar_rules"}) \cup (Taken \cap Merged)
    /\ UNCHANGED <<base, running, requireAll>>

\* One loop of the safety task that finds a request.
SafetyTask ==
    /\ Taken # {} \/ newBase # {}
    /\ pending' = [c \in Cards |-> {}]
    /\ newBase' = {}
    /\ TakeRadarRules
    /\ TakeBatch \/ RefuseBatch
    /\ UNCHANGED <<saved, mqtt, asked, unsaved, used>>

\* Power is cut and comes back: the cards are loaded, the safety task starts.
Reboot ==
    /\ used.reboots < MaxReboots
    /\ used' = [used EXCEPT !.reboots = @ + 1]
    /\ pending' = Loaded
    /\ mqtt' = {} /\ newBase' = {}
    /\ base' = Normal /\ running' = Normal /\ inuse' = NoCards
    /\ radar' = RadarRules /\ requireAll' = RequireAll
    /\ asked' = Latest(Loaded, NoCards)
    /\ refused' = {} /\ unsaved' = {}
    /\ UNCHANGED saved

Next == OnControllerCommand \/ SetSafetyConfig \/ SafetyTask \/ Reboot

Spec == Init /\ [][Next]_vars

-----------------------------------------------------------------------------
(* Properties *)

\* Every variable stays within its type.
TypeOK ==
    /\ \A c \in Cards :
          /\ saved[c] \in Values[c] \cup {Menuconfig, Foreign}
          /\ inuse[c] \in Values[c] \cup {Menuconfig}
          /\ pending[c] \subseteq Values[c] \cup {Menuconfig} /\ Cardinality(pending[c]) <= 1
    /\ base \in {Normal, Test} /\ newBase \subseteq {Normal, Test}
    /\ requireAll \in BOOLEAN /\ radar \in Values["radar_rules"] \cup {RadarRules}
    /\ refused \subseteq Merged /\ unsaved \subseteq Cards

\* The machine never runs a configuration it would refuse, and what it runs is
\* at any time the base and the cards in force, whatever batches led there: a
\* card taken back leaves nothing behind.
RunsItsCards ==
    /\ TypeOK /\ Valid(running)
    /\ running = Merge(base, inuse)
    /\ requireAll = IF inuse["attendance"] = Menuconfig THEN RequireAll ELSE inuse["attendance"].all
    /\ radar = IF inuse["radar_rules"] = Menuconfig THEN RadarRules ELSE inuse["radar_rules"]

\* Once a card is out of its slot, what is in force is the latest value asked
\* for, unless that card's batch was refused; and once its handler is done,
\* the next boot would load the same.
InForceIsSaved ==
    \A c \in Cards :
        (pending[c] = {} /\ c \notin refused) =>
            /\ inuse[c] = asked[c]
            /\ (mqtt = {} /\ c \notin unsaved /\ saved[c] # Foreign) => saved[c] = asked[c]

\* A batch is refused only when it brings a card that is inconsistent by
\* itself, never for how consistent cards combine with each other, with the
\* cards in force or with the test timers.
RefusedForABadCard ==
    [][ \A c \in Cards : (c \notin refused /\ c \in refused') =>
            \E d \in Merged : pending[d] # {} /\ Inconsistent(d, NextCards[d]) ]_vars
=============================================================================
