------------------------------ MODULE Presence ------------------------------
(***************************************************************************)
(* What the state machine is told of the people at the stove: the episodes   *)
(* of each radar, and the fusion of the radars, sensor_node.c.               *)
(*                                                                         *)
(* A step is one loop of the safety task: the packets received since the     *)
(* last one, the dashboard's settings, the health of the nodes and their     *)
(* episodes, the fused presence.  Which packets count is SensorNode's        *)
(* business: those of News are accepted.  Instants are kept as ages, up to   *)
(* the longest anything compares.                                           *)
(***************************************************************************)
EXTENDS Integers, FiniteSets

CONSTANTS
    Radars,                       \* the presence nodes that are enabled
    Distances,                    \* in cm, and what stands for no distance
    Stale,                        \* the health setting
    Second,                       \* the constant of radar_episode_tick
    RingSize,                     \* RADAR_RING
    Settings,                     \* the settings the dashboard may choose
    QuietMax, DwellMax, WindowMax, \* bounds on them
    Gaps, GapMax                  \* the times between two loops

Unknown == 65535                  \* CM_UNKNOWN

Modes == {"off", "observe", "enforce"}

Setting ==
    [ fusion_all : BOOLEAN, mode : Modes,
      quiet : 0..QuietMax, dwell : 0..DwellMax, still : 0..DwellMax,
      window : 0..WindowMax, span : Nat, zone : Nat ]

ASSUME PresenceAssumption ==
    /\ Distances \subseteq Nat /\ GapMax \in Nat /\ Gaps \subseteq 1..GapMax
    /\ Stale \in Nat \ {0} /\ Second \in Nat \ {0} /\ RingSize \in Nat \ {0}
    /\ QuietMax \in Nat /\ DwellMax \in Nat /\ WindowMax \in Nat
    /\ Settings \subseteq Setting

VARIABLES
    settings,  \* require_all, rules_mode and rules of the node set
    radar,     \* the slot of each radar: its reading and its episode
    presence,  \* the fused presence of the last loop
    stay       \* history: what each radar was told of whoever is there

pvars == <<settings, radar, presence, stay>>

Tristate == {"present", "absent", "unknown"}

\* What a radar reports: nobody, or a target and how far away it is.
Sightings == [state : {"moving", "still"}, cm : Distances]
Nobody == [state |-> "none", cm |-> Unknown]
Invalid == [state |-> "invalid", cm |-> Unknown]
Silence == [state |-> "silence", cm |-> Unknown]

Samples == Sightings \cup {Nobody}
News == Samples \cup {Invalid, Silence}

\* The samples of a ring differ in age, so it is the set of them; those older
\* than any window are left out.
Place == [cm : Distances, age : 0..WindowMax]

AtMost(n, max) == IF n < max THEN n ELSE max

\* No comparison tells ages above these apart.
SinceMax == 4 * QuietMax + 2 * Second
GoneMax == 3 * QuietMax + Second + GapMax
NeededMax == IF DwellMax > WindowMax THEN DwellMax ELSE WindowMax + 1

Episode ==
    [ active : BOOLEAN, dwelling : BOOLEAN,
      since : 0..SinceMax,            \* since last_sample_ms
      gone : 0..QuietMax,             \* since last_present_ms
      prev : Samples,
      zone : 0..DwellMax, still : 0..DwellMax,
      recent : SUBSET Distances,      \* those recent_span_cm is the span of
      ring : SUBSET Place ]

\* Nothing of an episode that is over is read again.
Idle ==
    [ active |-> FALSE, dwelling |-> FALSE, since |-> 0, gone |-> 0, prev |-> Nobody,
      zone |-> 0, still |-> 0, recent |-> {}, ring |-> {} ]

Slot == [reading : Samples \cup {Invalid}, age : 0..Stale, episode : Episode]

Stay ==
    [ gone : 0..GoneMax,              \* since somebody was last seen
      place : Samples,                \* the last sample the rules were given
      heard : 0..QuietMax + 1,        \* since then
      zone : 0..DwellMax, still : 0..DwellMax, \* time in the zone, and still there
      steady : 0..NeededMax,          \* time in one place
      fed : BOOLEAN ]                 \* the rules were given the last reading

-----------------------------------------------------------------------------
(* radar_episode_update. *)

InZone(s, cm) == s.zone = 0 \/ cm = Unknown \/ cm <= s.zone

Begin == [Idle EXCEPT !.active = TRUE]

\* A mutant: any time since the last sample counts.
CreditMutant(s, ep) ==
    [ep EXCEPT !.zone = AtMost(@ + ep.since, DwellMax), !.still = AtMost(@ + ep.since, DwellMax)]

\* The time since the last sample counts as what that sample saw; a packet gap
\* is not time spent present.
Credit(s, ep) ==
    LET dt == AtMost(ep.since, s.quiet)
        spent == ep.prev.state # "none" /\ InZone(s, ep.prev.cm)
    IN  [ep EXCEPT !.zone = IF spent THEN AtMost(@ + dt, DwellMax) ELSE @,
                   !.still = IF spent /\ ep.prev.state = "still" THEN AtMost(@ + dt, DwellMax)
                             ELSE @]

Within(places, window) == {p.cm : p \in {q \in places : q.age <= window}}

Settled(distances, span) == \A a, b \in distances : a - b <= span

\* The newest RingSize samples.
Push(ring, cm) ==
    {[cm |-> cm, age |-> 0]} \cup
    {p \in ring : Cardinality({q \in ring : q.age < p.age}) < RingSize - 1}

Locate(s, ep, cm) ==
    LET ring == Push(ep.ring, cm)
    IN  [ep EXCEPT !.ring = ring, !.recent = Within(ring, s.window)]

Saw(s, ep, sample) ==
    LET seen == [ep EXCEPT !.since = 0, !.prev = sample]
        here == [seen EXCEPT !.gone = 0]
    IN  IF sample.state = "none" THEN seen
        ELSE IF sample.cm = Unknown THEN here
        ELSE Locate(s, here, sample.cm)

\* Arrived and settled: latched until the episode ends.
Judge(s, ep) ==
    [ep EXCEPT !.dwelling = @ \/ /\ ep.zone >= s.dwell /\ ep.still >= s.still
                                 /\ Settled(ep.recent, s.span)]

Update(s, ep0, sample) ==
    LET ep == IF ep0.active /\ ep0.since > 4 * s.quiet THEN Idle ELSE ep0
        running == IF ep.active THEN Credit(s, ep) ELSE Begin
        seen == Saw(s, running, sample)
    IN  IF ~ep.active /\ sample.state = "none" THEN Idle
        ELSE IF sample.state = "none" /\ seen.gone >= s.quiet THEN Idle
        ELSE Judge(s, seen)

\* radar_episode_tick: no packets, the episode is over.
EpisodeTick(s, ep) ==
    IF ep.active /\ ep.since >= 2 * s.quiet + Second THEN Idle ELSE ep

-----------------------------------------------------------------------------
(* node_set_on_packet, node_set_evaluate. *)

Aged(places, gap) ==
    {[p EXCEPT !.age = @ + gap] : p \in {q \in places : q.age + gap <= WindowMax}}

OlderEpisode(ep, gap) ==
    IF ~ep.active THEN ep
    ELSE [ep EXCEPT !.since = AtMost(@ + gap, SinceMax), !.gone = AtMost(@ + gap, QuietMax),
                    !.ring = Aged(@, gap)]

Older(slot, gap) ==
    [slot EXCEPT !.age = AtMost(@ + gap, Stale), !.episode = OlderEpisode(@, gap)]

\* A reading that is not valid, or comes with the rules off, leaves the episode
\* as it is.
OnPacket(s, slot, news) ==
    IF news = Silence THEN slot
    ELSE [reading |-> news, age |-> 0,
          episode |-> IF s.mode = "off" \/ news = Invalid THEN slot.episode
                      ELSE Update(s, slot.episode, news)]

Evaluate(s, slot) ==
    IF s.mode = "off" THEN slot ELSE [slot EXCEPT !.episode = EpisodeTick(s, @)]

\* sensor_node_presence: any packet keeps the link, so the reading decides.
Works(slot) == slot.age < Stale /\ slot.reading # Invalid

Each(slot) ==
    IF ~Works(slot) THEN "unknown"
    ELSE IF slot.reading = Nobody THEN "absent"
    ELSE "present"

-----------------------------------------------------------------------------
(* node_set_inputs. *)

\* Mutants: an unknown reading is left out; one that is down does not agree.
FuseMutant(readings) ==
    IF "present" \in readings THEN "present" ELSE IF "absent" \in readings THEN "absent" ELSE "unknown"
FuseAllMutant(readings) ==
    IF readings = {"present"} THEN "present" ELSE IF "absent" \in readings THEN "absent" ELSE "unknown"

\* presence_fuse: one that sees somebody is enough, absence takes all.
Fuse(readings) ==
    IF "present" \in readings THEN "present"
    ELSE IF readings = {"absent"} THEN "absent"
    ELSE "unknown"

\* presence_fuse_all: all that work must see somebody.
FuseAll(readings) ==
    IF "absent" \in readings THEN "absent"
    ELSE IF "present" \in readings THEN "present"
    ELSE "unknown"

\* ENFORCE: a radar that sees somebody who is only passing does not count.
AtStove(s, slot) ==
    IF s.mode = "enforce" /\ Each(slot) = "present" /\ ~slot.episode.dwelling
    THEN "absent" ELSE Each(slot)

Inputs(s, slots) ==
    LET readings == {AtStove(s, slots[r]) : r \in Radars}
    IN  IF s.fusion_all THEN FuseAll(readings) ELSE Fuse(readings)

-----------------------------------------------------------------------------
(* The history: of what the rules were given, not of what they made of it.   *)

InSomeZone(place) == place.state # "none" /\ \E s \in Settings : InZone(s, place.cm)

Passed(st, gap) ==
    LET spent == InSomeZone(st.place)
    IN  [st EXCEPT !.gone = AtMost(@ + gap, GoneMax),
                   !.heard = AtMost(@ + gap, QuietMax + 1),
                   !.zone = IF spent THEN AtMost(@ + gap, DwellMax) ELSE @,
                   !.still = IF spent /\ st.place.state = "still" THEN AtMost(@ + gap, DwellMax) ELSE @]

\* Nobody was seen for longer than an episode can last: whoever comes is new.
Newcomer(st) == IF st.gone = GoneMax THEN [st EXCEPT !.zone = 0, !.still = 0] ELSE st

\* As still, in time and place, as in the sample before.
Stays(s, st, sample) ==
    /\ sample.state = "still" /\ sample = st.place /\ sample.cm # Unknown
    /\ InZone(s, sample.cm) /\ st.heard <= s.quiet

Told(s, st, sample) ==
    [st EXCEPT !.gone = IF sample = Nobody THEN @ ELSE 0,
               !.place = sample, !.heard = 0, !.fed = TRUE,
               !.steady = IF Stays(s, st, sample) THEN AtMost(@ + st.heard, NeededMax) ELSE 0]

\* With the rules off nothing is known of the stay.
Watch(s, st, news) ==
    IF news = Silence THEN st
    ELSE IF news = Invalid THEN [st EXCEPT !.fed = (s.mode # "off")]
    ELSE IF s.mode = "off"
    THEN [st EXCEPT !.gone = IF news = Nobody THEN @ ELSE 0, !.fed = FALSE, !.steady = 0]
    ELSE Told(s, Newcomer(st), news)

\* Other rules judge from now on.
Close(st, changed) == IF changed THEN [st EXCEPT !.steady = 0, !.heard = QuietMax + 1] ELSE st

-----------------------------------------------------------------------------
TypeOK ==
    /\ settings \in Settings
    /\ radar \in [Radars -> Slot]
    /\ presence \in Tristate
    /\ stay \in [Radars -> Stay]

Init ==
    /\ settings \in Settings
    /\ radar = [r \in Radars |-> [reading |-> Invalid, age |-> Stale, episode |-> Idle]]
    /\ presence = "unknown"
    /\ stay = [r \in Radars |->
                 [gone |-> GoneMax, place |-> Nobody, heard |-> QuietMax + 1, zone |-> 0, still |-> 0,
                  steady |-> 0, fed |-> TRUE]]

Loop(gap, news, s) ==
    /\ settings' = s
    /\ radar' = [r \in Radars |->
                   Evaluate(s, OnPacket(settings, Older(radar[r], gap), news[r]))]
    /\ presence' = Inputs(s, radar')
    /\ stay' = [r \in Radars |->
                  Close(Watch(settings, Passed(stay[r], gap), news[r]), s # settings)]

Next == \E gap \in Gaps, news \in [Radars -> News], s \in Settings : Loop(gap, news, s)

Spec == Init /\ [][Next]_pvars

-----------------------------------------------------------------------------
\* A radar is held to see somebody at the stove only once they have been long
\* enough in the zone, and still there, since they came: what an earlier visitor
\* spent there does not count, nor does the time a packet was missing twice.
EarnedInThisStay ==
    [][\A r \in Radars :
          radar'[r].episode.dwelling /\ ~radar[r].episode.dwelling =>
            /\ stay'[r].zone >= settings.dwell /\ stay'[r].still >= settings.still]_pvars

\* A verdict does not outlive the visitor: once it is used, somebody was seen
\* less than three quiet gaps and a second before, whatever packets were lost
\* and whatever rules came and went.
VerdictIsRecent ==
    \A r \in Radars :
       settings.mode # "off" /\ radar[r].episode.active => stay[r].gone < 3 * QuietMax + Second

\* Somebody who has stood still at the stove for as long as the rules ask.
AsLongAsAsked(s, time) == time >= s.dwell /\ time >= s.still /\ time > s.window

AtTheStove(r) ==
    /\ Works(radar[r]) /\ radar[r].reading.state = "still" /\ stay[r].fed
    /\ AsLongAsAsked(settings, stay[r].steady)

\* The cook is present: for the fusion of either radar if one sees them settled,
\* for that of all if each one that works does.
TheCookCounts ==
    /\ \E r \in Radars : AtTheStove(r)
    /\ settings.fusion_all => \A r \in Radars : Works(radar[r]) => AtTheStove(r)
    => presence = "present"

\* Missing data never turns into ABSENT, and into PRESENT only where all radars
\* must agree and the one that did not is gone.
Quiet == [r \in Radars |-> Silence]

SilenceTellsNothing ==
    [][\A gap \in Gaps :
          (\A r \in Radars : stay[r].fed) /\ Loop(gap, Quiet, settings) =>
            /\ presence' = "absent" => presence = "absent"
            /\ presence' = "present" =>
                 \/ presence = "present"
                 \/ settings.fusion_all /\ \E r \in Radars : Works(radar[r]) /\ ~Works(radar[r])']_pvars
=============================================================================
