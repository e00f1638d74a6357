--------------------------- MODULE PresenceProofs ---------------------------
(***************************************************************************)
(* Proofs about the sensor nodes as the controller sees them.                *)
(*                                                                         *)
(* What the presence of the state machine keeps for any number of radars,    *)
(* any settings and any times between the loops: a verdict is recent, it is   *)
(* earned by the visitor it is about, silence makes nobody leave, and whoever *)
(* stays at the stove counts.                                                *)
(***************************************************************************)
EXTENDS Presence, TLAPS

LEMMA SampleKinds ==
    /\ Nobody \in Samples /\ Invalid \notin Samples /\ Silence \notin Samples
    /\ Silence # Invalid
    /\ \A x \in Samples : x.state = "none" <=> x = Nobody
    /\ \A x \in Samples : x # Nobody => x.cm \in Distances
  BY DEF Nobody, Invalid, Silence, Samples, Sightings

LEMMA SettingType ==
    ASSUME NEW s \in Settings
    PROVE  /\ s.quiet \in 0..QuietMax /\ s.dwell \in 0..DwellMax /\ s.still \in 0..DwellMax
           /\ s.mode \in Modes /\ s.fusion_all \in BOOLEAN
  BY PresenceAssumption DEF Setting

LEMMA GapType ==
    ASSUME NEW gap \in Gaps
    PROVE  gap \in Nat \ {0} /\ gap <= GapMax
  BY PresenceAssumption

LEMMA AgedType ==
    ASSUME NEW places \in SUBSET Place, NEW gap \in Gaps
    PROVE  Aged(places, gap) \in SUBSET Place
  BY GapType, PresenceAssumption DEF Aged, Place

LEMMA IdleType == Idle \in Episode /\ Begin \in Episode
  <1>1. 0 \in 0..SinceMax /\ 0 \in 0..QuietMax /\ 0 \in 0..DwellMax
    BY PresenceAssumption DEF SinceMax
  <1>2. {} \in SUBSET Distances /\ {} \in SUBSET Place
    OBVIOUS
  <1>3. Idle \in Episode
    BY <1>1, <1>2, SampleKinds DEF Idle, Episode
  <1>4. Begin = [Idle EXCEPT !.active = TRUE]
    BY DEF Begin
  <1>5. Begin \in Episode
    BY <1>3, <1>4 DEF Episode
  <1> QED
    BY <1>3, <1>5

-----------------------------------------------------------------------------
(* An episode. *)

\* How much the time since the last sample may add.
More(n, since, counts) == IF counts THEN AtMost(n + since, DwellMax) ELSE n

LEMMA CreditFacts ==
    ASSUME NEW s \in Settings, NEW ep \in Episode
    PROVE  LET c == Credit(s, ep)
           IN  /\ c \in Episode
               /\ c.active = ep.active /\ c.dwelling = ep.dwelling
               /\ c.gone = ep.gone
               /\ c.zone <= More(ep.zone, ep.since, InSomeZone(ep.prev))
               /\ c.still <= More(ep.still, ep.since, InSomeZone(ep.prev) /\ ep.prev.state = "still")
  <1> DEFINE spent == ep.prev.state # "none" /\ InZone(s, ep.prev.cm)
             dt == AtMost(ep.since, s.quiet)
  <1>1. dt \in Nat /\ dt <= ep.since
    BY SettingType, PresenceAssumption DEF AtMost, Episode, SinceMax
  <1>2. spent => InSomeZone(ep.prev)
    BY DEF InSomeZone
  <1>3. ep.zone \in 0..DwellMax /\ ep.still \in 0..DwellMax /\ ep.since \in Nat /\ DwellMax \in Nat
    BY PresenceAssumption DEF Episode, SinceMax
  <1> DEFINE zone == IF spent THEN AtMost(ep.zone + dt, DwellMax) ELSE ep.zone
             still == IF spent /\ ep.prev.state = "still" THEN AtMost(ep.still + dt, DwellMax)
                      ELSE ep.still
  <1>4. Credit(s, ep) = [ep EXCEPT !.zone = zone, !.still = still]
    BY DEF Credit, Episode
  <1>5. zone \in 0..DwellMax /\ zone <= More(ep.zone, ep.since, InSomeZone(ep.prev))
    BY <1>1, <1>2, <1>3 DEF AtMost, More
  <1>6. /\ still \in 0..DwellMax
        /\ still <= More(ep.still, ep.since, InSomeZone(ep.prev) /\ ep.prev.state = "still")
    BY <1>1, <1>2, <1>3 DEF AtMost, More
  <1> HIDE DEF zone, still, dt, spent
  <1> QED
    BY <1>4, <1>5, <1>6 DEF Episode

LEMMA SawFacts ==
    ASSUME NEW s \in Settings, NEW ep \in Episode, NEW sample \in Samples
    PROVE  LET c == Saw(s, ep, sample)
           IN  /\ c \in Episode
               /\ c.active = ep.active /\ c.dwelling = ep.dwelling
               /\ c.since = 0 /\ c.prev = sample
               /\ c.zone = ep.zone /\ c.still = ep.still
               /\ c.gone = IF sample = Nobody THEN ep.gone ELSE 0
  <1> DEFINE seen == [ep EXCEPT !.since = 0, !.prev = sample]
             here == [seen EXCEPT !.gone = 0]
  <1>1. 0 \in 0..SinceMax /\ 0 \in 0..QuietMax /\ 0 \in 0..WindowMax
    BY PresenceAssumption DEF SinceMax
  <1>2. /\ seen \in Episode /\ here \in Episode
        /\ seen.active = ep.active /\ seen.dwelling = ep.dwelling
        /\ seen.since = 0 /\ seen.prev = sample /\ seen.zone = ep.zone /\ seen.still = ep.still
        /\ seen.gone = ep.gone
        /\ here.active = ep.active /\ here.dwelling = ep.dwelling
        /\ here.since = 0 /\ here.prev = sample /\ here.zone = ep.zone /\ here.still = ep.still
        /\ here.gone = 0
    BY <1>1 DEF Episode
  <1> HIDE DEF seen, here
  <1>3. CASE sample = Nobody
    BY <1>2, <1>3, SampleKinds DEF Saw, seen
  <1>4. CASE sample # Nobody /\ sample.cm = Unknown
    BY <1>2, <1>4, SampleKinds DEF Saw, seen, here
  <1>5. CASE sample # Nobody /\ sample.cm # Unknown
    <2> DEFINE ring == Push(here.ring, sample.cm)
               recent == Within(ring, s.window)
    <2>1. Saw(s, ep, sample) = [here EXCEPT !.ring = ring, !.recent = recent]
      BY <1>5, SampleKinds DEF Saw, Locate, seen, here
    <2>2. sample.cm \in Distances
      BY <1>5, SampleKinds
    <2>3. ring \in SUBSET Place
      BY <1>1, <1>2, <2>2 DEF Push, Place, Episode
    <2>4. recent \in SUBSET Distances
      BY <2>3 DEF Within, Place
    <2> HIDE DEF ring, recent
    <2> QED
      BY <1>2, <1>5, <2>1, <2>3, <2>4 DEF Episode
  <1> QED
    BY <1>3, <1>4, <1>5

LEMMA JudgeFacts ==
    ASSUME NEW s, NEW ep \in Episode
    PROVE  LET c == Judge(s, ep)
           IN  /\ c \in Episode
               /\ c.active = ep.active /\ c.since = ep.since /\ c.gone = ep.gone /\ c.prev = ep.prev
               /\ c.zone = ep.zone /\ c.still = ep.still
               /\ c.dwelling /\ ~ep.dwelling => ep.zone >= s.dwell /\ ep.still >= s.still
  <1> DEFINE latch == ep.dwelling \/ (ep.zone >= s.dwell /\ ep.still >= s.still
                                      /\ Settled(ep.recent, s.span))
  <1>1. latch \in BOOLEAN
    BY DEF Episode
  <1>2. Judge(s, ep) = [ep EXCEPT !.dwelling = latch]
    BY DEF Judge, Episode
  <1>3. latch /\ ~ep.dwelling => ep.zone >= s.dwell /\ ep.still >= s.still
    OBVIOUS
  <1> HIDE DEF latch
  <1> QED
    BY <1>1, <1>2, <1>3 DEF Episode

\* What one sample makes of an episode.
LEMMA UpdateFacts ==
    ASSUME NEW s \in Settings, NEW ep \in Episode, NEW sample \in Samples,
           ep.dwelling => ep.active
    PROVE  LET u == Update(s, ep, sample)
           IN  /\ u \in Episode
               /\ u.dwelling => u.active
               /\ u.active => /\ u.since = 0 /\ u.prev = sample
                              /\ sample # Nobody => u.gone = 0
                              /\ sample = Nobody => ep.active /\ u.gone = ep.gone /\ ep.gone < s.quiet
                              /\ u.zone <= IF ep.active THEN More(ep.zone, ep.since, InSomeZone(ep.prev))
                                           ELSE 0
                              /\ u.still <= IF ep.active
                                            THEN More(ep.still, ep.since,
                                                      InSomeZone(ep.prev) /\ ep.prev.state = "still")
                                            ELSE 0
               /\ u.dwelling /\ ~ep.dwelling => u.zone >= s.dwell /\ u.still >= s.still
  <1> DEFINE over == ep.active /\ ep.since > 4 * s.quiet
             cur == IF over THEN Idle ELSE ep
             running == IF cur.active THEN Credit(s, cur) ELSE Begin
             seen == Saw(s, running, sample)
             new == Judge(s, seen)
  <1>1. /\ Idle.active = FALSE /\ Idle.dwelling = FALSE
        /\ Begin.active = TRUE /\ Begin.dwelling = FALSE /\ Begin.zone = 0 /\ Begin.still = 0
    BY DEF Idle, Begin
  <1>2. Update(s, ep, sample) =
          IF ~cur.active /\ sample = Nobody THEN Idle
          ELSE IF sample = Nobody /\ seen.gone >= s.quiet THEN Idle
          ELSE new
    BY SampleKinds DEF Update
  <1>3. cur \in Episode /\ running \in Episode /\ running.active
    BY IdleType, CreditFacts, <1>1
  <1>4. seen \in Episode /\ seen.active /\ seen.since = 0 /\ seen.prev = sample
    BY <1>3, SawFacts
  <1>5. /\ seen.dwelling = running.dwelling /\ seen.zone = running.zone /\ seen.still = running.still
        /\ seen.gone = IF sample = Nobody THEN running.gone ELSE 0
    BY <1>3, SawFacts
  <1>6. /\ new \in Episode /\ new.active /\ new.since = 0 /\ new.prev = sample /\ new.gone = seen.gone
        /\ new.zone = seen.zone /\ new.still = seen.still
        /\ new.dwelling /\ ~running.dwelling => new.zone >= s.dwell /\ new.still >= s.still
    BY <1>4, <1>5, JudgeFacts
  <1>7. CASE cur.active
    <2>1. cur = ep /\ ep.active
      BY <1>1, <1>7
    <2>2. /\ running.dwelling = ep.dwelling /\ running.gone = ep.gone
          /\ running.zone <= More(ep.zone, ep.since, InSomeZone(ep.prev))
          /\ running.still <= More(ep.still, ep.since, InSomeZone(ep.prev) /\ ep.prev.state = "still")
      BY <2>1, CreditFacts
    <2>3. ep.gone \in Nat /\ s.quiet \in Nat
      BY SettingType, PresenceAssumption DEF Episode
    <2> HIDE DEF cur, running, seen, new
    <2> QED
      BY <1>1, <1>2, <1>5, <1>6, <1>7, <2>1, <2>2, <2>3, IdleType
  <1>8. CASE ~cur.active
    <2>1. running = Begin
      BY <1>8
    <2>2. running.zone = 0 /\ running.still = 0 /\ running.dwelling = FALSE
      BY <2>1, <1>1
    <2>3. /\ 0 <= More(ep.zone, ep.since, InSomeZone(ep.prev))
          /\ 0 <= More(ep.still, ep.since, InSomeZone(ep.prev) /\ ep.prev.state = "still")
      BY PresenceAssumption DEF More, AtMost, Episode, SinceMax
    <2> HIDE DEF cur, running, seen, new
    <2> QED
      BY <1>1, <1>2, <1>5, <1>6, <1>8, <2>2, <2>3, IdleType
  <1> QED
    BY <1>7, <1>8

-----------------------------------------------------------------------------
(* A slot and what is known of the stay, through the stages of a loop. *)

Related(slot, st) ==
    LET ep == slot.episode
    IN  /\ ep.dwelling => ep.active
        /\ ep.active =>
             /\ ep.since = SinceMax \/ st.gone <= ep.since \/ st.gone < ep.since + QuietMax
             /\ ep.gone < QuietMax => st.gone <= ep.gone
             /\ ep.prev = st.place
             /\ More(ep.zone, ep.since, InSomeZone(ep.prev)) <= st.zone
             /\ More(ep.still, ep.since, InSomeZone(ep.prev) /\ ep.prev.state = "still") <= st.still
             /\ st.fed /\ slot.reading # Invalid /\ slot.age < Stale => ep.since <= slot.age

Ticked(s, slot) ==
    s.mode # "off" /\ slot.episode.active => slot.episode.since < 2 * s.quiet + Second

LEMMA SlotType ==
    ASSUME NEW slot \in Slot
    PROVE  /\ slot.episode \in Episode /\ slot.age \in 0..Stale /\ slot.reading \in Samples \cup {Invalid}
           /\ slot.episode.active \in BOOLEAN /\ slot.episode.dwelling \in BOOLEAN
           /\ slot.episode.since \in 0..SinceMax /\ slot.episode.gone \in 0..QuietMax
           /\ slot.episode.zone \in 0..DwellMax /\ slot.episode.still \in 0..DwellMax
           /\ slot.episode.prev \in Samples /\ slot.episode.ring \in SUBSET Place
  BY DEF Slot, Episode

LEMMA StayType ==
    ASSUME NEW st \in Stay
    PROVE  /\ st.gone \in 0..GoneMax /\ st.place \in Samples /\ st.heard \in 0..QuietMax + 1
           /\ st.zone \in 0..DwellMax /\ st.still \in 0..DwellMax /\ st.steady \in 0..NeededMax
           /\ st.fed \in BOOLEAN
  BY DEF Stay

LEMMA Bounds ==
    /\ SinceMax \in Nat /\ GoneMax \in Nat /\ NeededMax \in Nat /\ QuietMax \in Nat /\ DwellMax \in Nat
    /\ Stale \in Nat \ {0} /\ Second \in Nat \ {0} /\ GapMax \in Nat
    /\ SinceMax = 4 * QuietMax + 2 * Second /\ GoneMax = 3 * QuietMax + Second + GapMax
  BY PresenceAssumption DEF SinceMax, GoneMax, NeededMax

LEMMA OlderFacts ==
    ASSUME NEW slot \in Slot, NEW gap \in Gaps
    PROVE  LET o == Older(slot, gap)
           IN  /\ o \in Slot
               /\ o.reading = slot.reading /\ o.age = AtMost(slot.age + gap, Stale)
               /\ ~slot.episode.active => o.episode = slot.episode
               /\ slot.episode.active =>
                    /\ o.episode.active /\ o.episode.dwelling = slot.episode.dwelling
                    /\ o.episode.since = AtMost(slot.episode.since + gap, SinceMax)
                    /\ o.episode.gone = AtMost(slot.episode.gone + gap, QuietMax)
                    /\ o.episode.prev = slot.episode.prev
                    /\ o.episode.zone = slot.episode.zone /\ o.episode.still = slot.episode.still
  <1> DEFINE ep == slot.episode
             age == AtMost(slot.age + gap, Stale)
             since == AtMost(ep.since + gap, SinceMax)
             gone == AtMost(ep.gone + gap, QuietMax)
             ring == Aged(ep.ring, gap)
             older == [ep EXCEPT !.since = since, !.gone = gone, !.ring = ring]
  <1>1. age \in 0..Stale /\ since \in 0..SinceMax /\ gone \in 0..QuietMax
    BY GapType, SlotType, Bounds DEF AtMost
  <1>2. ring \in SUBSET Place
    BY AgedType, SlotType
  <1>3. ep \in Episode
    BY SlotType
  <1>4. Older(slot, gap) = [slot EXCEPT !.age = age, !.episode = IF ~ep.active THEN ep ELSE older]
    <2>1. OlderEpisode(ep, gap) = IF ~ep.active THEN ep ELSE older
      BY Zenon DEF OlderEpisode
    <2> QED
      BY <2>1, Zenon DEF Older
  <1> HIDE DEF age, since, gone, ring
  <1>5. /\ older \in Episode /\ older.active = ep.active /\ older.dwelling = ep.dwelling
        /\ older.since = since /\ older.gone = gone /\ older.prev = ep.prev
        /\ older.zone = ep.zone /\ older.still = ep.still
    BY <1>1, <1>2, <1>3 DEF Episode
  <1> HIDE DEF older
  <1>6. (IF ~ep.active THEN ep ELSE older) \in Episode
    BY <1>3, <1>5
  <1> QED
    BY <1>1, <1>4, <1>5, <1>6 DEF Slot, age, since, gone

LEMMA PassedFacts ==
    ASSUME NEW st \in Stay, NEW gap \in Gaps
    PROVE  LET p == Passed(st, gap)
           IN  /\ p \in Stay
               /\ p.gone = AtMost(st.gone + gap, GoneMax)
               /\ p.place = st.place /\ p.fed = st.fed
               /\ p.zone = More(st.zone, gap, InSomeZone(st.place))
               /\ p.still = More(st.still, gap, InSomeZone(st.place) /\ st.place.state = "still")
  <1> DEFINE gone == AtMost(st.gone + gap, GoneMax)
             heard == AtMost(st.heard + gap, QuietMax + 1)
             zone == More(st.zone, gap, InSomeZone(st.place))
             still == More(st.still, gap, InSomeZone(st.place) /\ st.place.state = "still")
  <1>1. gone \in 0..GoneMax /\ heard \in 0..QuietMax + 1 /\ zone \in 0..DwellMax /\ still \in 0..DwellMax
    BY GapType, StayType, Bounds DEF AtMost, More
  <1>3. Passed(st, gap) = [st EXCEPT !.gone = gone, !.heard = heard, !.zone = zone, !.still = still]
    BY Zenon DEF Passed, More
  <1> HIDE DEF gone, heard, zone, still
  <1>4. [st EXCEPT !.gone = gone, !.heard = heard, !.zone = zone, !.still = still] \in Stay
    BY <1>1 DEF Stay
  <1> QED
    BY <1>3, <1>4 DEF Stay, gone, zone, still

\* Time passes for both alike.
LEMMA TimePasses ==
    ASSUME NEW slot \in Slot, NEW st \in Stay, NEW gap \in Gaps, NEW s \in Settings,
           Related(slot, st), Ticked(s, slot)
    PROVE  /\ Older(slot, gap) \in Slot /\ Passed(st, gap) \in Stay
           /\ Related(Older(slot, gap), Passed(st, gap))
           /\ s.mode # "off" /\ Older(slot, gap).episode.active => Passed(st, gap).gone # GoneMax
  <1> DEFINE o == Older(slot, gap)  p == Passed(st, gap)
  <1>1. o \in Slot /\ p \in Stay
    BY OlderFacts, PassedFacts
  <1>2. CASE ~slot.episode.active
    BY <1>1, <1>2, OlderFacts DEF Related
  <1>3. CASE slot.episode.active
    <2> DEFINE in == InSomeZone(slot.episode.prev)
               quietIn == in /\ slot.episode.prev.state = "still"
    <2>1. /\ o.reading = slot.reading /\ o.age = AtMost(slot.age + gap, Stale)
          /\ o.episode.active /\ o.episode.dwelling = slot.episode.dwelling
          /\ o.episode.since = AtMost(slot.episode.since + gap, SinceMax)
          /\ o.episode.gone = AtMost(slot.episode.gone + gap, QuietMax)
          /\ o.episode.prev = slot.episode.prev
          /\ o.episode.zone = slot.episode.zone /\ o.episode.still = slot.episode.still
      BY <1>3, OlderFacts
    <2>2. slot.episode.prev = st.place
      BY <1>3 DEF Related
    <2>3. /\ p.gone = AtMost(st.gone + gap, GoneMax) /\ p.place = st.place /\ p.fed = st.fed
          /\ p.zone = More(st.zone, gap, in) /\ p.still = More(st.still, gap, quietIn)
      BY <2>2, PassedFacts
    <2>4. /\ slot.episode.since = SinceMax \/ st.gone <= slot.episode.since
                \/ st.gone < slot.episode.since + QuietMax
          /\ slot.episode.gone < QuietMax => st.gone <= slot.episode.gone
          /\ More(slot.episode.zone, slot.episode.since, in) <= st.zone
          /\ More(slot.episode.still, slot.episode.since, quietIn) <= st.still
          /\ st.fed /\ slot.reading # Invalid /\ slot.age < Stale => slot.episode.since <= slot.age
      BY <1>3 DEF Related
    <2> HIDE DEF in, quietIn, o, p
    <2>5. o.episode.since = SinceMax \/ p.gone <= o.episode.since \/ p.gone < o.episode.since + QuietMax
      BY <2>1, <2>3, <2>4, SlotType, StayType, GapType, Bounds DEF AtMost
    <2>6. o.episode.gone < QuietMax => p.gone <= o.episode.gone
      BY <2>1, <2>3, <2>4, SlotType, StayType, GapType, Bounds DEF AtMost
    <2>7. /\ More(o.episode.zone, o.episode.since, in) <= p.zone
          /\ More(o.episode.still, o.episode.since, quietIn) <= p.still
      BY <2>1, <2>3, <2>4, SlotType, StayType, GapType, Bounds DEF AtMost, More
    <2>8. p.fed /\ o.reading # Invalid /\ o.age < Stale => o.episode.since <= o.age
      BY <2>1, <2>3, <2>4, SlotType, StayType, GapType, Bounds DEF AtMost
    <2>9. Related(o, p)
      BY <2>1, <2>2, <2>3, <2>5, <2>6, <2>7, <2>8 DEF Related, in, quietIn
    <2>10. s.mode # "off" => p.gone # GoneMax
      <3> SUFFICES ASSUME s.mode # "off" PROVE p.gone # GoneMax
        OBVIOUS
      <3>1. slot.episode.since < 2 * s.quiet + Second
        BY <1>3 DEF Ticked
      <3>2. s.quiet \in 0..QuietMax
        BY SettingType
      <3>3. st.gone + gap < GoneMax
        BY <2>4, <3>1, <3>2, SlotType, StayType, GapType, Bounds
      <3> QED
        BY <2>3, <3>3, StayType, GapType, Bounds DEF AtMost
    <2> QED
      BY <1>1, <2>9, <2>10 DEF o, p
  <1> QED
    BY <1>2, <1>3

LEMMA NewcomerFacts ==
    ASSUME NEW st \in Stay
    PROVE  LET n == Newcomer(st)
           IN  /\ n \in Stay /\ n.gone = st.gone
               /\ n.zone = IF st.gone = GoneMax THEN 0 ELSE st.zone
               /\ n.still = IF st.gone = GoneMax THEN 0 ELSE st.still
  <1>1. CASE st.gone = GoneMax
    <2>1. Newcomer(st) = [st EXCEPT !.zone = 0, !.still = 0]
      BY <1>1 DEF Newcomer
    <2>2. 0 \in 0..DwellMax
      BY Bounds
    <2> QED
      BY <1>1, <2>1, <2>2 DEF Stay
  <1>2. CASE st.gone # GoneMax
    BY <1>2 DEF Newcomer
  <1> QED
    BY <1>1, <1>2

LEMMA ToldFacts ==
    ASSUME NEW known \in Stay, NEW s \in Settings, NEW sample \in Samples
    PROVE  LET t == Told(s, known, sample)
           IN  /\ t \in Stay
               /\ t.gone = IF sample = Nobody THEN known.gone ELSE 0
               /\ t.place = sample /\ t.fed = TRUE
               /\ t.zone = known.zone /\ t.still = known.still
  <1> DEFINE gone == IF sample = Nobody THEN known.gone ELSE 0
             steady == IF Stays(s, known, sample) THEN AtMost(known.steady + known.heard, NeededMax)
                       ELSE 0
  <1>2. Told(s, known, sample) =
          [known EXCEPT !.gone = gone, !.place = sample, !.heard = 0, !.fed = TRUE,
                        !.steady = steady]
    BY Zenon DEF Told
  <1>3. gone \in 0..GoneMax
    BY StayType, Bounds
  <1>4. steady \in 0..NeededMax
    BY StayType, Bounds DEF AtMost
  <1>6. 0 \in 0..QuietMax + 1
    BY Bounds
  <1>7. gone = IF sample = Nobody THEN known.gone ELSE 0
    OBVIOUS
  <1> HIDE DEF gone, steady
  <1>8. [known EXCEPT !.gone = gone, !.place = sample, !.heard = 0, !.fed = TRUE,
                      !.steady = steady] \in Stay
    BY <1>3, <1>4, <1>6 DEF Stay
  <1> QED
    BY <1>2, <1>7, <1>8 DEF Stay

LEMMA NewsTold ==
    ASSUME NEW st \in Stay, NEW s \in Settings, NEW sample \in Samples
    PROVE  LET t == Told(s, Newcomer(st), sample)
           IN  /\ t \in Stay
               /\ t.gone = IF sample = Nobody THEN st.gone ELSE 0
               /\ t.place = sample
               /\ t.zone = IF st.gone = GoneMax THEN 0 ELSE st.zone
               /\ t.still = IF st.gone = GoneMax THEN 0 ELSE st.still
  <1> DEFINE n == Newcomer(st)
  <1>1. /\ n \in Stay /\ n.gone = st.gone
        /\ n.zone = IF st.gone = GoneMax THEN 0 ELSE st.zone
        /\ n.still = IF st.gone = GoneMax THEN 0 ELSE st.still
    BY NewcomerFacts
  <1> HIDE DEF n
  <1>2. LET t == Told(s, n, sample)
        IN  /\ t \in Stay
            /\ t.gone = IF sample = Nobody THEN n.gone ELSE 0
            /\ t.place = sample
            /\ t.zone = n.zone /\ t.still = n.still
    BY <1>1, ToldFacts
  <1> QED
    BY <1>1, <1>2 DEF n

\* The rules and the history hear the same news.
LEMMA NewsHeard ==
    ASSUME NEW slot \in Slot, NEW st \in Stay, NEW s \in Settings, NEW news \in News,
           Related(slot, st),
           s.mode # "off" /\ slot.episode.active => st.gone # GoneMax
    PROVE  LET o == OnPacket(s, slot, news)
               w == Watch(s, st, news)
           IN  /\ o \in Slot /\ w \in Stay /\ Related(o, w)
               /\ o.episode.dwelling /\ ~slot.episode.dwelling =>
                    o.episode.zone >= s.dwell /\ o.episode.still >= s.still
  <1> DEFINE o == OnPacket(s, slot, news)  w == Watch(s, st, news)
  <1> USE SampleKinds
  <1>1. CASE news = Silence
    BY <1>1 DEF OnPacket, Watch
  <1>2. CASE news = Invalid
    <2>1. o = [reading |-> Invalid, age |-> 0, episode |-> slot.episode]
      BY <1>2 DEF OnPacket
    <2>2. w = [st EXCEPT !.fed = (s.mode # "off")]
      BY <1>2 DEF Watch
    <2>3. (s.mode # "off") \in BOOLEAN
      OBVIOUS
    <2>4. w \in Stay /\ w.gone = st.gone /\ w.place = st.place /\ w.zone = st.zone /\ w.still = st.still
      BY <2>2, <2>3 DEF Stay
    <2>5. o \in Slot /\ o.episode = slot.episode /\ o.reading = Invalid
      BY <2>1, SlotType, Bounds DEF Slot
    <2> HIDE DEF o, w
    <2>6. Related(o, w)
      BY <2>4, <2>5 DEF Related
    <2> QED
      BY <2>4, <2>5, <2>6 DEF o, w
  <1>3. CASE news \in Samples /\ s.mode = "off"
    <2>1. o = [reading |-> news, age |-> 0, episode |-> slot.episode]
      BY <1>3 DEF OnPacket
    <2> DEFINE gone == IF news = Nobody THEN st.gone ELSE 0
    <2>2. w = [st EXCEPT !.gone = gone, !.fed = FALSE, !.steady = 0]
      BY <1>3 DEF Watch
    <2>3. gone \in 0..GoneMax /\ 0 \in 0..NeededMax /\ gone <= st.gone
      BY StayType, Bounds
    <2> HIDE DEF gone
    <2>4. /\ w \in Stay /\ w.gone = gone /\ w.place = st.place /\ w.zone = st.zone /\ w.still = st.still
          /\ w.fed = FALSE
      BY <2>2, <2>3 DEF Stay
    <2>5. o \in Slot /\ o.episode = slot.episode
      BY <1>3, <2>1, SlotType, Bounds DEF Slot
    <2> HIDE DEF o, w
    <2>6. Related(o, w)
      BY <2>3, <2>4, <2>5, SlotType, StayType, Bounds DEF Related
    <2> QED
      BY <2>4, <2>5, <2>6 DEF o, w
  <1>4. CASE news \in Samples /\ s.mode # "off"
    <2> DEFINE ep == slot.episode
               u == Update(s, ep, news)
               in == InSomeZone(ep.prev)
               quietIn == in /\ ep.prev.state = "still"
    <2>1. o = [reading |-> news, age |-> 0, episode |-> u]
      BY <1>4 DEF OnPacket
    <2>2. w = Told(s, Newcomer(st), news)
      BY <1>4, Zenon DEF Watch
    <2>3. /\ w \in Stay
          /\ w.gone = IF news = Nobody THEN st.gone ELSE 0
          /\ w.place = news
          /\ w.zone = IF st.gone = GoneMax THEN 0 ELSE st.zone
          /\ w.still = IF st.gone = GoneMax THEN 0 ELSE st.still
      BY <1>4, <2>2, NewsTold
    <2>4. ep \in Episode /\ (ep.dwelling => ep.active)
      BY SlotType DEF Related
    <2>5. /\ u \in Episode
          /\ u.dwelling => u.active
          /\ u.active => /\ u.since = 0 /\ u.prev = news
                         /\ news # Nobody => u.gone = 0
                         /\ news = Nobody => ep.active /\ u.gone = ep.gone /\ ep.gone < s.quiet
                         /\ u.zone <= IF ep.active THEN More(ep.zone, ep.since, in) ELSE 0
                         /\ u.still <= IF ep.active THEN More(ep.still, ep.since, quietIn) ELSE 0
          /\ u.dwelling /\ ~ep.dwelling => u.zone >= s.dwell /\ u.still >= s.still
      BY <1>4, <2>4, UpdateFacts
    <2>6. ep.active => /\ ep.gone < QuietMax => st.gone <= ep.gone
                       /\ More(ep.zone, ep.since, in) <= st.zone
                       /\ More(ep.still, ep.since, quietIn) <= st.still
                       /\ st.gone # GoneMax
      BY <1>4 DEF Related
    <2>7. o \in Slot /\ o.episode = u /\ o.age = 0
      BY <1>4, <2>1, <2>5, Bounds DEF Slot
    <2>8. u.zone \in 0..DwellMax /\ u.still \in 0..DwellMax /\ u.gone \in 0..QuietMax
      BY <2>5 DEF Episode
    <2> HIDE DEF o, w, u, ep, in, quietIn
    <2>9. u.active => /\ w.gone <= 0 \/ w.gone < 0 + QuietMax
                      /\ u.gone < QuietMax => w.gone <= u.gone
      BY <2>3, <2>4, <2>5, <2>6, <2>8, SettingType, StayType, Bounds DEF Episode
    <2>10. /\ More(u.zone, 0, InSomeZone(news)) = u.zone
           /\ More(u.still, 0, InSomeZone(news) /\ news.state = "still") = u.still
      BY <2>8, Bounds DEF More, AtMost
    <2>11. w.zone \in Nat /\ w.still \in Nat /\ st.zone \in Nat /\ st.still \in Nat
      BY <2>3, StayType, Bounds
    <2>14. ep.active => /\ More(ep.zone, ep.since, in) \in Nat
                        /\ More(ep.still, ep.since, quietIn) \in Nat
      BY <2>4, Bounds DEF More, AtMost, Episode
    <2>12. u.active => u.zone <= w.zone /\ u.still <= w.still
      BY <2>3, <2>5, <2>6, <2>8, <2>11, <2>14
    <2>13. Related(o, w)
      BY <2>3, <2>5, <2>7, <2>9, <2>10, <2>12 DEF Related
    <2> QED
      BY <2>3, <2>5, <2>7, <2>13 DEF o, w, ep
  <1> QED
    BY <1>1, <1>2, <1>3, <1>4 DEF News

LEMMA EvaluateFacts ==
    ASSUME NEW slot \in Slot, NEW s \in Settings
    PROVE  LET e == Evaluate(s, slot)
           IN  /\ e \in Slot /\ e.reading = slot.reading /\ e.age = slot.age
               /\ e.episode = slot.episode
                  \/ /\ e.episode = Idle /\ s.mode # "off"
                     /\ slot.episode.active /\ slot.episode.since >= 2 * s.quiet + Second
               /\ Ticked(s, e)
  <1> DEFINE e == Evaluate(s, slot)  ticked == EpisodeTick(s, slot.episode)
  <1>1. Idle.active = FALSE
    BY DEF Idle
  <1>2. CASE s.mode = "off"
    BY <1>2 DEF Evaluate, Ticked
  <1>3. CASE s.mode # "off"
    <2>1. e = [slot EXCEPT !.episode = ticked]
      BY <1>3 DEF Evaluate
    <2>2. \/ ticked = slot.episode /\ ~(slot.episode.active /\ slot.episode.since >= 2 * s.quiet + Second)
          \/ ticked = Idle /\ slot.episode.active /\ slot.episode.since >= 2 * s.quiet + Second
      BY DEF EpisodeTick
    <2>3. ticked \in Episode
      BY <2>2, SlotType, IdleType
    <2> HIDE DEF ticked
    <2>4. e \in Slot /\ e.reading = slot.reading /\ e.age = slot.age /\ e.episode = ticked
      BY <2>1, <2>3 DEF Slot
    <2> HIDE DEF e
    <2>5. Ticked(s, e)
      <3>1. slot.episode.since \in Nat /\ s.quiet \in Nat /\ Second \in Nat
        BY SlotType, SettingType, Bounds
      <3> QED
        BY <1>1, <2>2, <2>4, <3>1 DEF Ticked
    <2> QED
      BY <1>3, <2>2, <2>4, <2>5 DEF e
  <1> QED
    BY <1>2, <1>3

LEMMA CloseFacts ==
    ASSUME NEW st \in Stay, NEW changed \in BOOLEAN
    PROVE  LET c == Close(st, changed)
           IN  /\ c \in Stay /\ c.gone = st.gone /\ c.place = st.place /\ c.fed = st.fed
               /\ c.zone = st.zone /\ c.still = st.still
  <1>1. 0 \in 0..NeededMax /\ QuietMax + 1 \in 0..QuietMax + 1
    BY Bounds
  <1> QED
    BY <1>1 DEF Close, Stay

\* One loop, for one radar.
LEMMA LoopFacts ==
    ASSUME NEW slot \in Slot, NEW st \in Stay, NEW gap \in Gaps, NEW news \in News,
           NEW old \in Settings, NEW s \in Settings,
           Related(slot, st), Ticked(old, slot)
    PROVE  LET e == Evaluate(s, OnPacket(old, Older(slot, gap), news))
               c == Close(Watch(old, Passed(st, gap), news), s # old)
           IN  /\ e \in Slot /\ c \in Stay /\ Related(e, c) /\ Ticked(s, e)
               /\ e.episode.dwelling /\ ~slot.episode.dwelling =>
                    c.zone >= old.dwell /\ c.still >= old.still
  <1> DEFINE a == Older(slot, gap)          p == Passed(st, gap)
             o == OnPacket(old, a, news)    w == Watch(old, p, news)
             e == Evaluate(s, o)            c == Close(w, s # old)
  <1>1. /\ a \in Slot /\ p \in Stay /\ Related(a, p)
        /\ old.mode # "off" /\ a.episode.active => p.gone # GoneMax
    BY TimePasses
  <1>2. a.episode.dwelling = slot.episode.dwelling
    BY OlderFacts
  <1> HIDE DEF a, p
  <1>3. /\ o \in Slot /\ w \in Stay /\ Related(o, w)
        /\ o.episode.dwelling /\ ~a.episode.dwelling =>
             o.episode.zone >= old.dwell /\ o.episode.still >= old.still
    BY <1>1, NewsHeard
  <1> HIDE DEF o, w
  <1>4. /\ e \in Slot /\ e.reading = o.reading /\ e.age = o.age /\ Ticked(s, e)
        /\ e.episode = o.episode \/ e.episode = Idle
    BY <1>3, EvaluateFacts
  <1> HIDE DEF e
  <1>5. (s # old) \in BOOLEAN
    OBVIOUS
  <1>6. /\ c \in Stay /\ c.gone = w.gone /\ c.place = w.place /\ c.fed = w.fed
        /\ c.zone = w.zone /\ c.still = w.still
    BY <1>3, <1>5, CloseFacts
  <1> HIDE DEF c
  <1>7. Idle.active = FALSE /\ Idle.dwelling = FALSE
    BY DEF Idle
  <1>8. Related(e, c)
    <2>1. CASE e.episode = o.episode
      BY <1>3, <1>4, <1>6, <2>1 DEF Related
    <2>2. CASE e.episode = Idle
      BY <1>7, <2>2 DEF Related
    <2> QED
      BY <1>4, <2>1, <2>2
  <1>9. e.episode.dwelling /\ ~slot.episode.dwelling => c.zone >= old.dwell /\ c.still >= old.still
    <2> SUFFICES ASSUME e.episode.dwelling, ~slot.episode.dwelling
                 PROVE  c.zone >= old.dwell /\ c.still >= old.still
      OBVIOUS
    <2>1. e.episode = o.episode
      BY <1>4, <1>7
    <2>2. o.episode.zone >= old.dwell /\ o.episode.still >= old.still /\ o.episode.active
      BY <1>2, <1>3, <2>1 DEF Related
    <2> DEFINE in == InSomeZone(o.episode.prev)
               quietIn == in /\ o.episode.prev.state = "still"
    <2>3. /\ More(o.episode.zone, o.episode.since, in) <= w.zone
          /\ More(o.episode.still, o.episode.since, quietIn) <= w.still
      BY <1>3, <2>2 DEF Related
    <2> HIDE DEF in, quietIn
    <2> QED
      BY <1>3, <1>6, <2>2, <2>3, SlotType, StayType, SettingType, Bounds DEF More, AtMost
  <1> QED
    BY <1>4, <1>6, <1>8, <1>9 DEF e, c, o, w, a, p

-----------------------------------------------------------------------------
(* The invariant. *)

Inv ==
    /\ TypeOK
    /\ \A r \in Radars : Related(radar[r], stay[r]) /\ Ticked(settings, radar[r])
    /\ presence = Inputs(settings, radar)

LEMMA FusionType ==
    ASSUME NEW s \in Settings, NEW slots \in [Radars -> Slot]
    PROVE  Inputs(s, slots) \in Tristate
  BY DEF Inputs, Fuse, FuseAll, Tristate

LEMMA InitInv == Init => Inv
  <1> SUFFICES ASSUME Init PROVE Inv
    OBVIOUS
  <1> DEFINE slot == [reading |-> Invalid, age |-> Stale, episode |-> Idle]
             st == [gone |-> GoneMax, place |-> Nobody, heard |-> QuietMax + 1, zone |-> 0, still |-> 0,
                    steady |-> 0, fed |-> TRUE]
  <1>1. Idle.active = FALSE /\ Idle.dwelling = FALSE
    BY DEF Idle
  <1>2. radar = [r \in Radars |-> slot] /\ stay = [r \in Radars |-> st]
    BY DEF Init
  <1>3. slot \in Slot
    BY IdleType, Bounds DEF Slot
  <1>4. st \in Stay
    BY SampleKinds, Bounds DEF Stay
  <1>5. Related(slot, st) /\ Ticked(settings, slot)
    BY <1>1 DEF Related, Ticked
  <1>6. AtStove(settings, slot) = "unknown"
    BY DEF AtStove, Each, Works
  <1> HIDE DEF slot, st
  <1>7. \A r \in Radars : radar[r] = slot /\ stay[r] = st
    BY <1>2
  <1>8. TypeOK
    BY <1>2, <1>3, <1>4 DEF TypeOK, Init, Tristate
  <1>9. presence = Inputs(settings, radar)
    <2> DEFINE readings == {AtStove(settings, radar[r]) : r \in Radars}
    <2>1. \A x \in readings : x = "unknown"
      BY <1>6, <1>7
    <2>2. Fuse(readings) = "unknown" /\ FuseAll(readings) = "unknown"
      <3> HIDE DEF readings
      <3> QED
        BY <2>1 DEF Fuse, FuseAll
    <2> QED
      BY <2>2 DEF Inputs, Init
  <1> QED
    BY <1>5, <1>7, <1>8, <1>9 DEF Inv

LEMMA LoopInv ==
    ASSUME Inv, NEW gap \in Gaps, NEW news \in [Radars -> News], NEW s \in Settings,
           Loop(gap, news, s)
    PROVE  /\ Inv'
           /\ \A r \in Radars :
                radar'[r].episode.dwelling /\ ~radar[r].episode.dwelling =>
                  stay'[r].zone >= settings.dwell /\ stay'[r].still >= settings.still
  <1>1. settings \in Settings /\ radar \in [Radars -> Slot] /\ stay \in [Radars -> Stay]
    BY DEF Inv, TypeOK
  <1>2. /\ settings' = s
        /\ radar' = [r \in Radars |-> Evaluate(s, OnPacket(settings, Older(radar[r], gap), news[r]))]
        /\ presence' = Inputs(s, radar')
        /\ stay' = [r \in Radars |->
                      Close(Watch(settings, Passed(stay[r], gap), news[r]), s # settings)]
    BY DEF Loop
  <1>3. ASSUME NEW r \in Radars
        PROVE  /\ radar'[r] \in Slot /\ stay'[r] \in Stay
               /\ Related(radar'[r], stay'[r]) /\ Ticked(s, radar'[r])
               /\ radar'[r].episode.dwelling /\ ~radar[r].episode.dwelling =>
                    stay'[r].zone >= settings.dwell /\ stay'[r].still >= settings.still
    <2>1. radar[r] \in Slot /\ stay[r] \in Stay /\ news[r] \in News
      BY <1>1
    <2>2. Related(radar[r], stay[r]) /\ Ticked(settings, radar[r])
      BY DEF Inv
    <2> DEFINE e == Evaluate(s, OnPacket(settings, Older(radar[r], gap), news[r]))
               c == Close(Watch(settings, Passed(stay[r], gap), news[r]), s # settings)
    <2>3. radar'[r] = e
      BY <1>2
    <2>4. stay'[r] = c
      BY <1>2, <2>3
    <2>5. /\ e \in Slot /\ c \in Stay /\ Related(e, c) /\ Ticked(s, e)
          /\ e.episode.dwelling /\ ~radar[r].episode.dwelling =>
               c.zone >= settings.dwell /\ c.still >= settings.still
      BY <1>1, <2>1, <2>2, LoopFacts
    <2> HIDE DEF e, c
    <2> QED
      BY <2>3, <2>4, <2>5
  <1>4. radar' \in [Radars -> Slot] /\ stay' \in [Radars -> Stay]
    BY <1>2, <1>3
  <1>5. TypeOK'
    BY <1>2, <1>4, FusionType DEF TypeOK
  <1>6. \A r \in Radars : Related(radar'[r], stay'[r]) /\ Ticked(settings', radar'[r])
    BY <1>2, <1>3
  <1>7. Inv'
    BY <1>2, <1>5, <1>6 DEF Inv
  <1> QED
    BY <1>3, <1>7

LEMMA StepInv == Inv /\ [Next]_pvars => Inv'
  <1> SUFFICES ASSUME Inv, [Next]_pvars PROVE Inv'
    OBVIOUS
  <1>1. CASE Next
    BY <1>1, LoopInv DEF Next
  <1>2. CASE UNCHANGED pvars
    BY <1>2 DEF pvars, Inv, TypeOK
  <1> QED
    BY <1>1, <1>2

LEMMA Invariance == Spec => []Inv
  BY InitInv, StepInv, PTL DEF Spec

-----------------------------------------------------------------------------
(* What follows. *)

\* A verdict that the fusion may use is about somebody seen lately: the
\* watchdog of radar_episode_tick ends an episode even when no packet does.
THEOREM Recent == Spec => []VerdictIsRecent
  <1>1. Inv => VerdictIsRecent
    <2> SUFFICES ASSUME Inv, NEW r \in Radars, settings.mode # "off", radar[r].episode.active
                 PROVE  stay[r].gone < 3 * QuietMax + Second
      BY DEF VerdictIsRecent
    <2>1. settings \in Settings /\ radar[r] \in Slot /\ stay[r] \in Stay
      BY DEF Inv, TypeOK
    <2>2. Related(radar[r], stay[r]) /\ Ticked(settings, radar[r])
      BY DEF Inv
    <2> DEFINE since == radar[r].episode.since
    <2>3. since = SinceMax \/ stay[r].gone <= since \/ stay[r].gone < since + QuietMax
      BY <2>2 DEF Related
    <2>4. since < 2 * settings.quiet + Second
      BY <2>2 DEF Ticked
    <2>5. settings.quiet \in 0..QuietMax
      BY <2>1, SettingType
    <2>6. since \in 0..SinceMax /\ stay[r].gone \in 0..GoneMax
      BY <2>1, SlotType, StayType
    <2> HIDE DEF since
    <2> QED
      BY <2>3, <2>4, <2>5, <2>6, Bounds
  <1> QED
    BY <1>1, Invariance, PTL

\* The time radar_episode_update credits is time this visitor spent there.
THEOREM Earned == Spec => EarnedInThisStay
  <1>1. ASSUME Inv, [Next]_pvars, NEW r \in Radars,
               radar'[r].episode.dwelling, ~radar[r].episode.dwelling
        PROVE  stay'[r].zone >= settings.dwell /\ stay'[r].still >= settings.still
    <2>1. CASE Next
      BY <1>1, <2>1, LoopInv DEF Next
    <2>2. CASE UNCHANGED pvars
      BY <1>1, <2>2 DEF pvars
    <2> QED
      BY <1>1, <2>1, <2>2
  <1>2. Inv /\ [Next]_pvars =>
          [\A r \in Radars :
              radar'[r].episode.dwelling /\ ~radar[r].episode.dwelling =>
                /\ stay'[r].zone >= settings.dwell /\ stay'[r].still >= settings.still]_pvars
    BY <1>1
  <1> QED
    BY <1>2, Invariance, PTL DEF Spec, EarnedInThisStay

-----------------------------------------------------------------------------
(* Silence. *)

\* Where the rules are in force, an episode outlives the reading it is about.
PatientRules == \A s \in Settings : s.mode = "enforce" => 2 * s.quiet + Second >= Stale

LEMMA SilentRadar ==
    ASSUME PatientRules, NEW s \in Settings, NEW slot \in Slot, NEW st \in Stay, NEW gap \in Gaps,
           Related(slot, st), Ticked(s, slot), st.fed
    PROVE  LET e == Evaluate(s, Older(slot, gap))
           IN  \/ Works(slot) /\ Works(e) /\ AtStove(s, e) = AtStove(s, slot)
               \/ ~Works(e) /\ AtStove(s, e) = "unknown"
  <1> DEFINE a == Older(slot, gap)  p == Passed(st, gap)  e == Evaluate(s, a)
  <1>1. a \in Slot /\ p \in Stay /\ Related(a, p)
    BY TimePasses
  <1>2. /\ a.reading = slot.reading /\ a.age = AtMost(slot.age + gap, Stale)
        /\ a.episode.dwelling = slot.episode.dwelling
    BY OlderFacts
  <1>3. p.fed
    BY PassedFacts
  <1> HIDE DEF a, p
  <1>4. /\ e \in Slot /\ e.reading = a.reading /\ e.age = a.age
        /\ e.episode = a.episode
             \/ /\ s.mode # "off"
                /\ a.episode.active /\ a.episode.since >= 2 * s.quiet + Second
    BY <1>1, EvaluateFacts
  <1> HIDE DEF e
  <1>5. CASE ~Works(e)
    <2>1. AtStove(s, e) = "unknown"
      BY <1>5 DEF AtStove, Each
    <2> QED
      BY <1>5, <2>1 DEF e, a
  <1>6. CASE Works(e)
    <2>1. slot.age < Stale /\ slot.reading # Invalid /\ a.age < Stale /\ a.reading # Invalid
      BY <1>2, <1>4, <1>6, SlotType, GapType, Bounds DEF Works, AtMost
    <2>2. Works(slot)
      BY <2>1 DEF Works
    <2>3. Each(e) = Each(slot)
      BY <1>2, <1>4, <1>6, <2>2 DEF Each
    <2>4. s.mode = "enforce" => e.episode.dwelling = slot.episode.dwelling
      <3> SUFFICES ASSUME s.mode = "enforce" PROVE e.episode = a.episode
        BY <1>2
      <3>1. 2 * s.quiet + Second >= Stale
        BY DEF PatientRules
      <3>2. a.episode.active => a.episode.since <= a.age
        BY <1>1, <1>3, <2>1 DEF Related
      <3>3. a.episode.since \in Nat /\ a.age \in Nat /\ s.quiet \in Nat
        BY <1>1, SlotType, SettingType, Bounds
      <3> QED
        BY <1>4, <2>1, <3>1, <3>2, <3>3, Bounds
    <2>5. AtStove(s, e) = AtStove(s, slot)
      BY <2>3, <2>4 DEF AtStove
    <2> QED
      BY <1>6, <2>2, <2>5 DEF e, a
  <1> QED
    BY <1>5, <1>6 DEF e, a

LEMMA SilentLoop ==
    ASSUME PatientRules, Inv, NEW gap \in Gaps, \A r \in Radars : stay[r].fed,
           Loop(gap, Quiet, settings)
    PROVE  /\ presence' = "absent" => presence = "absent"
           /\ presence' = "present" =>
                \/ presence = "present"
                \/ settings.fusion_all /\ \E r \in Radars : Works(radar[r]) /\ ~Works(radar[r])'
  <1> DEFINE before == {AtStove(settings, radar[r]) : r \in Radars}
             after == {AtStove(settings, radar'[r]) : r \in Radars}
  <1>1. /\ settings \in Settings /\ presence = Inputs(settings, radar)
        /\ settings' = settings /\ presence' = Inputs(settings, radar')
    BY DEF Inv, TypeOK, Loop
  <1>2. ASSUME NEW r \in Radars
        PROVE  \/ /\ Works(radar[r]) /\ Works(radar'[r])
                  /\ AtStove(settings, radar'[r]) = AtStove(settings, radar[r])
               \/ ~Works(radar'[r]) /\ AtStove(settings, radar'[r]) = "unknown"
    <2>1. radar[r] \in Slot /\ stay[r] \in Stay /\ stay[r].fed
      BY DEF Inv, TypeOK
    <2>2. Related(radar[r], stay[r]) /\ Ticked(settings, radar[r])
      BY DEF Inv
    <2>3. radar'[r] = Evaluate(settings, Older(radar[r], gap))
      BY DEF Loop, Quiet, OnPacket
    <2> QED
      BY <1>1, <2>1, <2>2, <2>3, SilentRadar
  <1>3. \A x \in after : x # "unknown" => x \in before
    BY <1>2
  <1>4. ASSUME NEW r \in Radars, AtStove(settings, radar[r]) = "absent", "absent" \notin after
        PROVE  Works(radar[r]) /\ ~Works(radar'[r])
    <2>1. Works(radar[r])
      BY <1>4 DEF AtStove, Each
    <2>2. AtStove(settings, radar'[r]) # "absent"
      BY <1>4
    <2> QED
      BY <1>2, <1>4, <2>1, <2>2
  <1>5. CASE ~settings.fusion_all
    <2>1. presence = Fuse(before) /\ presence' = Fuse(after)
      BY <1>1, <1>5 DEF Inputs
    <2>2. after = {"absent"} => before = {"absent"}
      <3> SUFFICES ASSUME after = {"absent"} PROVE before = {"absent"}
        OBVIOUS
      <3>1. \A r \in Radars : AtStove(settings, radar[r]) = "absent"
        BY <1>2
      <3>2. Radars # {}
        OBVIOUS
      <3> QED
        BY <3>1, <3>2
    <2> HIDE DEF before, after
    <2> QED
      BY <1>3, <2>1, <2>2 DEF Fuse
  <1>6. CASE settings.fusion_all
    <2>1. presence = FuseAll(before) /\ presence' = FuseAll(after)
      BY <1>1, <1>6 DEF Inputs
    <2>2. "absent" \in before /\ "absent" \notin after =>
            \E r \in Radars : Works(radar[r]) /\ ~Works(radar'[r])
      BY <1>4
    <2> HIDE DEF before, after
    <2>3. presence' = "absent" => presence = "absent"
      BY <1>3, <2>1 DEF FuseAll
    <2>4. presence' = "present" =>
            presence = "present" \/ \E r \in Radars : Works(radar[r]) /\ ~Works(radar'[r])
      BY <1>3, <2>1, <2>2 DEF FuseAll
    <2> QED
      BY <1>6, <2>3, <2>4 DEF Works
  <1> QED
    BY <1>5, <1>6

\* Provided no episode ends on a reading that still counts, lost packets turn
\* nothing into ABSENT, and only the radar that must agree and is gone makes
\* anybody PRESENT.
THEOREM Silent ==
    ASSUME PatientRules
    PROVE  Spec => SilenceTellsNothing
  <1>1. Inv /\ [Next]_pvars =>
          [\A gap \in Gaps :
              (\A r \in Radars : stay[r].fed) /\ Loop(gap, Quiet, settings) =>
                /\ presence' = "absent" => presence = "absent"
                /\ presence' = "present" =>
                     \/ presence = "present"
                     \/ settings.fusion_all /\ \E r \in Radars : Works(radar[r]) /\ ~Works(radar[r])']_pvars
    BY SilentLoop
  <1> QED
    BY <1>1, Invariance, PTL DEF Spec, SilenceTellsNothing

-----------------------------------------------------------------------------
(* The cook. *)

LEMMA RuleTypes ==
    ASSUME NEW s \in Settings
    PROVE  s.window \in 0..WindowMax /\ s.span \in Nat /\ s.zone \in Nat /\ WindowMax \in Nat
  BY PresenceAssumption DEF Setting

\* What a sample adds to an episode, and what it leaves of the ring.
LEMMA CreditSteady ==
    ASSUME NEW s \in Settings, NEW ep \in Episode
    PROVE  LET c == Credit(s, ep)
           IN  /\ c.ring = ep.ring
               /\ ep.prev.state = "still" /\ InZone(s, ep.prev.cm) /\ ep.since <= s.quiet =>
                    /\ c.zone = AtMost(ep.zone + ep.since, DwellMax)
                    /\ c.still = AtMost(ep.still + ep.since, DwellMax)
  <1> DEFINE dt == AtMost(ep.since, s.quiet)
  <1>1. ep.since <= s.quiet => dt = ep.since
    BY SettingType, PresenceAssumption DEF AtMost, Episode, SinceMax
  <1>2. CASE ep.prev.state = "still" /\ InZone(s, ep.prev.cm) /\ ep.since <= s.quiet
    <2>1. dt = ep.since
      BY <1>1, <1>2
    <2> HIDE DEF dt
    <2>2. Credit(s, ep) = [ep EXCEPT !.zone = AtMost(@ + dt, DwellMax), !.still = AtMost(@ + dt, DwellMax)]
      BY <1>2 DEF Credit, dt
    <2> QED
      BY <1>2, <2>1, <2>2 DEF Episode
  <1>3. CASE ~(ep.prev.state = "still" /\ InZone(s, ep.prev.cm) /\ ep.since <= s.quiet)
    <2> DEFINE spent == ep.prev.state # "none" /\ InZone(s, ep.prev.cm)
               zone == IF spent THEN AtMost(ep.zone + dt, DwellMax) ELSE ep.zone
               still == IF spent /\ ep.prev.state = "still" THEN AtMost(ep.still + dt, DwellMax) ELSE ep.still
    <2>1. Credit(s, ep) = [ep EXCEPT !.zone = zone, !.still = still]
      BY DEF Credit, Episode
    <2> HIDE DEF zone, still
    <2> QED
      BY <1>3, <2>1 DEF Episode
  <1> QED
    BY <1>2, <1>3

Here(sample) == [cm |-> sample.cm, age |-> 0]

LEMMA SawSteady ==
    ASSUME NEW s \in Settings, NEW ep \in Episode, NEW sample \in Samples
    PROVE  LET c == Saw(s, ep, sample)
           IN  /\ c.ring \subseteq {Here(sample)} \cup ep.ring
               /\ sample # Nobody /\ sample.cm # Unknown => c.recent = Within(c.ring, s.window)
  <1> DEFINE seen == [ep EXCEPT !.since = 0, !.prev = sample]
             here == [seen EXCEPT !.gone = 0]
  <1>1. seen.ring = ep.ring /\ here.ring = ep.ring
    BY DEF Episode
  <1>2. here \in Episode
    <2>1. 0 \in 0..SinceMax /\ 0 \in 0..QuietMax
      BY PresenceAssumption DEF SinceMax
    <2> QED
      BY <2>1 DEF Episode
  <1> HIDE DEF seen, here
  <1>3. CASE sample = Nobody
    BY <1>1, <1>3, SampleKinds DEF Saw, seen
  <1>4. CASE sample # Nobody /\ sample.cm = Unknown
    BY <1>1, <1>4, SampleKinds DEF Saw, seen, here
  <1>5. CASE sample # Nobody /\ sample.cm # Unknown
    <2> DEFINE ring == Push(here.ring, sample.cm)
               recent == Within(ring, s.window)
    <2>1. Saw(s, ep, sample) = [here EXCEPT !.ring = ring, !.recent = recent]
      BY <1>5, SampleKinds DEF Saw, Locate, seen, here
    <2>2. ring \subseteq {Here(sample)} \cup here.ring
      BY DEF Push, Here
    <2> HIDE DEF ring
    <2>3. recent = Within(ring, s.window)
      OBVIOUS
    <2> HIDE DEF recent
    <2>4. Saw(s, ep, sample).ring = ring /\ Saw(s, ep, sample).recent = recent
      BY <1>2, <2>1 DEF Episode
    <2> QED
      BY <1>1, <2>2, <2>3, <2>4
  <1> QED
    BY <1>3, <1>4, <1>5

LEMMA JudgeSteady ==
    ASSUME NEW s, NEW ep \in Episode
    PROVE  LET c == Judge(s, ep)
           IN  /\ c.ring = ep.ring
               /\ ep.zone >= s.dwell /\ ep.still >= s.still /\ Settled(ep.recent, s.span) => c.dwelling
  BY DEF Judge, Episode

\* The episode the sample goes on with.
GoesOn(s, ep) == ep.active /\ ~(ep.since > 4 * s.quiet)

LEMMA UpdateSteady ==
    ASSUME NEW s \in Settings, NEW ep \in Episode, NEW sample \in Samples
    PROVE  LET u == Update(s, ep, sample)
           IN  /\ sample # Nobody => u.active
               /\ u.active => u.ring \subseteq {Here(sample)} \cup (IF GoesOn(s, ep) THEN ep.ring ELSE {})
               /\ sample # Nobody /\ sample.cm # Unknown /\ GoesOn(s, ep) =>
                    /\ u.zone = Credit(s, ep).zone /\ u.still = Credit(s, ep).still
                    /\ /\ u.zone >= s.dwell /\ u.still >= s.still
                       /\ Settled(Within(u.ring, s.window), s.span)
                       => u.dwelling
  <1> DEFINE over == ep.active /\ ep.since > 4 * s.quiet
             cur == IF over THEN Idle ELSE ep
             running == IF cur.active THEN Credit(s, cur) ELSE Begin
             seen == Saw(s, running, sample)
             new == Judge(s, seen)
  <1>1. Idle.active = FALSE /\ Begin.active = TRUE /\ Begin.ring = {}
    BY DEF Idle, Begin
  <1>2. Update(s, ep, sample) =
          IF ~cur.active /\ sample = Nobody THEN Idle
          ELSE IF sample = Nobody /\ seen.gone >= s.quiet THEN Idle
          ELSE new
    BY SampleKinds DEF Update
  <1>3. cur \in Episode /\ running \in Episode /\ running.active /\ (cur.active <=> GoesOn(s, ep))
        /\ (GoesOn(s, ep) => cur = ep)
    BY IdleType, CreditFacts, <1>1 DEF GoesOn
  <1>4. running.ring = IF GoesOn(s, ep) THEN ep.ring ELSE {}
    BY <1>1, <1>3, CreditSteady
  <1>5. /\ seen \in Episode /\ seen.active /\ seen.zone = running.zone /\ seen.still = running.still
        /\ seen.ring \subseteq {Here(sample)} \cup running.ring
        /\ sample # Nobody /\ sample.cm # Unknown => seen.recent = Within(seen.ring, s.window)
    BY <1>3, SawFacts, SawSteady
  <1>6. /\ new.active /\ new.zone = seen.zone /\ new.still = seen.still /\ new.ring = seen.ring
        /\ seen.zone >= s.dwell /\ seen.still >= s.still /\ Settled(seen.recent, s.span) => new.dwelling
    BY <1>5, JudgeFacts, JudgeSteady
  <1>7. GoesOn(s, ep) => running = Credit(s, ep)
    BY <1>3
  <1> HIDE DEF cur, running, seen, new
  <1> QED
    BY <1>1, <1>2, <1>4, <1>5, <1>6, <1>7

\* Under rules s: a visitor heard of lately has an episode, which has credited
\* the time in one place, and remembers no other place of that time.
Steadied(s, slot, st) ==
    LET ep == slot.episode
    IN  /\ st.place.state # "none" /\ st.heard <= s.quiet => ep.active
        /\ ep.active /\ st.heard <= QuietMax =>
             /\ ep.since = st.heard
             /\ \A p \in ep.ring : p.cm # st.place.cm => p.age > st.steady + st.heard
        /\ ep.active => AtMost(st.steady, DwellMax) <= ep.zone /\ AtMost(st.steady, DwellMax) <= ep.still
        /\ ep.active /\ AsLongAsAsked(s, st.steady) => ep.dwelling

\* While a reading counts under rules in force, its episode goes on.
Counted(s, slot, st) ==
    /\ s.mode = "enforce" /\ st.steady > 0 /\ st.fed /\ Works(slot)
    => slot.episode.active

LEMMA OlderRing ==
    ASSUME NEW slot \in Slot, NEW gap \in Gaps, slot.episode.active
    PROVE  Older(slot, gap).episode.ring = Aged(slot.episode.ring, gap)
  <1> DEFINE ep == slot.episode
             since == AtMost(ep.since + gap, SinceMax)
             gone == AtMost(ep.gone + gap, QuietMax)
             ring == Aged(ep.ring, gap)
             older == [ep EXCEPT !.since = since, !.gone = gone, !.ring = ring]
  <1>1. OlderEpisode(ep, gap) = older
    BY Zenon DEF OlderEpisode
  <1>2. ep \in Episode
    BY SlotType
  <1> HIDE DEF since, gone, ring
  <1>3. older.ring = ring
    BY <1>2 DEF Episode
  <1>4. Older(slot, gap).episode = older
    <2> HIDE DEF older
    <2>1. Older(slot, gap) = [slot EXCEPT !.age = AtMost(@ + gap, Stale), !.episode = older]
      BY <1>1, Zenon DEF Older
    <2> QED
      BY <2>1 DEF Slot
  <1> QED
    BY <1>3, <1>4 DEF ring

LEMMA PassedSteady ==
    ASSUME NEW st \in Stay, NEW gap \in Gaps
    PROVE  LET p == Passed(st, gap)
           IN  p.steady = st.steady /\ p.heard = AtMost(st.heard + gap, QuietMax + 1)
  <1> DEFINE gone == AtMost(st.gone + gap, GoneMax)
             heard == AtMost(st.heard + gap, QuietMax + 1)
             zone == More(st.zone, gap, InSomeZone(st.place))
             still == More(st.still, gap, InSomeZone(st.place) /\ st.place.state = "still")
  <1>1. Passed(st, gap) = [st EXCEPT !.gone = gone, !.heard = heard, !.zone = zone, !.still = still]
    BY Zenon DEF Passed, More
  <1> HIDE DEF gone, heard, zone, still
  <1> QED
    BY <1>1 DEF Stay, heard

\* After a gap every place of the ring has an age.
Past(slot) == slot.episode.active => \A p \in slot.episode.ring : p.age > 0

LEMMA TimeSteady ==
    ASSUME NEW slot \in Slot, NEW st \in Stay, NEW gap \in Gaps, NEW s \in Settings, Steadied(s, slot, st)
    PROVE  Steadied(s, Older(slot, gap), Passed(st, gap)) /\ Past(Older(slot, gap))
  <1> DEFINE o == Older(slot, gap)  p == Passed(st, gap)
  <1>1. /\ o.episode.active <=> slot.episode.active
        /\ slot.episode.active =>
             /\ o.episode.dwelling = slot.episode.dwelling
             /\ o.episode.since = AtMost(slot.episode.since + gap, SinceMax)
             /\ o.episode.zone = slot.episode.zone /\ o.episode.still = slot.episode.still
             /\ o.episode.ring = Aged(slot.episode.ring, gap)
    BY OlderFacts, OlderRing, SlotType
  <1>2. p.place = st.place /\ p.steady = st.steady /\ p.heard = AtMost(st.heard + gap, QuietMax + 1)
    BY PassedFacts, PassedSteady
  <1>3. gap \in Nat \ {0} /\ st.heard \in Nat /\ st.steady \in Nat /\ slot.episode.since \in Nat
        /\ s.quiet \in 0..QuietMax /\ QuietMax \in Nat /\ SinceMax \in Nat /\ SinceMax >= QuietMax + 1
    BY GapType, StayType, SlotType, SettingType, Bounds
  <1>4. /\ p.heard <= QuietMax => st.heard <= QuietMax /\ p.heard = st.heard + gap
        /\ p.heard <= s.quiet => st.heard <= s.quiet
    BY <1>2, <1>3 DEF AtMost
  <1>5. \A q \in Aged(slot.episode.ring, gap) :
           q.age > 0 /\ \E p0 \in slot.episode.ring : q.cm = p0.cm /\ q.age = p0.age + gap
    <2> SUFFICES ASSUME NEW q \in Aged(slot.episode.ring, gap)
                 PROVE  q.age > 0 /\ \E p0 \in slot.episode.ring : q.cm = p0.cm /\ q.age = p0.age + gap
      OBVIOUS
    <2>1. PICK p0 \in slot.episode.ring : q = [p0 EXCEPT !.age = @ + gap]
      BY DEF Aged
    <2>2. p0 \in Place
      BY SlotType
    <2>3. q.cm = p0.cm /\ q.age = p0.age + gap /\ p0.age \in Nat
      BY <2>1, <2>2, PresenceAssumption DEF Place
    <2> QED
      BY <1>3, <2>3
  <1>6. ASSUME slot.episode.active, p.heard <= QuietMax
        PROVE  /\ o.episode.since = p.heard
               /\ \A q \in o.episode.ring : q.cm # p.place.cm => q.age > p.steady + p.heard
    <2>1. /\ slot.episode.since = st.heard
          /\ \A q \in slot.episode.ring : q.cm # st.place.cm => q.age > st.steady + st.heard
      BY <1>4, <1>6 DEF Steadied
    <2>2. o.episode.since = p.heard
      BY <1>1, <1>3, <1>4, <1>6, <2>1 DEF AtMost
    <2>3. ASSUME NEW q \in o.episode.ring, q.cm # p.place.cm
          PROVE  q.age > p.steady + p.heard
      <3>1. PICK p0 \in slot.episode.ring : q.cm = p0.cm /\ q.age = p0.age + gap
        BY <1>1, <1>5, <1>6
      <3>2. p0.age > st.steady + st.heard /\ p0.age \in Nat
        BY <1>2, <2>1, <2>3, <3>1, SlotType, PresenceAssumption DEF Place
      <3> QED
        BY <1>2, <1>3, <1>4, <1>6, <3>1, <3>2
    <2> QED
      BY <2>2, <2>3
  <1> HIDE DEF o, p
  <1>7. Steadied(s, o, p)
    BY <1>1, <1>2, <1>4, <1>6 DEF Steadied
  <1>8. Past(o)
    BY <1>1, <1>5 DEF Past
  <1> QED
    BY <1>7, <1>8 DEF o, p

LEMMA ToldSteady ==
    ASSUME NEW st \in Stay, NEW s \in Settings, NEW sample \in Samples
    PROVE  LET t == Told(s, Newcomer(st), sample)
           IN  /\ t \in Stay /\ t.place = sample /\ t.heard = 0
               /\ t.steady = IF Stays(s, st, sample) THEN AtMost(st.steady + st.heard, NeededMax) ELSE 0
  <1> DEFINE n == Newcomer(st)
  <1>1. /\ n \in Stay /\ n.place = st.place /\ n.heard = st.heard /\ n.steady = st.steady
    BY NewcomerFacts DEF Newcomer, Stay
  <1> HIDE DEF n
  <1>2. Stays(s, n, sample) <=> Stays(s, st, sample)
    BY <1>1 DEF Stays
  <1> DEFINE gone == IF sample = Nobody THEN n.gone ELSE 0
             steady == IF Stays(s, n, sample) THEN AtMost(n.steady + n.heard, NeededMax) ELSE 0
  <1>3. Told(s, n, sample) =
          [n EXCEPT !.gone = gone, !.place = sample, !.heard = 0, !.fed = TRUE, !.steady = steady]
    BY Zenon DEF Told
  <1>4. steady = IF Stays(s, st, sample) THEN AtMost(st.steady + st.heard, NeededMax) ELSE 0
    BY <1>1, <1>2
  <1>5. Told(s, n, sample) \in Stay
    BY <1>1, ToldFacts
  <1> HIDE DEF gone, steady
  <1> QED
    BY <1>1, <1>3, <1>4, <1>5 DEF Stay, n

\* The news of one radar, for whoever stands still.
LEMMA NewsSteady ==
    ASSUME NEW slot \in Slot, NEW st \in Stay, NEW s \in Settings, NEW news \in News,
           Related(slot, st), Steadied(s, slot, st), Counted(s, slot, st), Past(slot)
    PROVE  LET o == OnPacket(s, slot, news)
               w == Watch(s, st, news)
           IN  Steadied(s, o, w) /\ Counted(s, o, w)
  <1> DEFINE o == OnPacket(s, slot, news)  w == Watch(s, st, news)
  <1> USE SampleKinds
  <1>1. CASE news = Silence
    BY <1>1 DEF OnPacket, Watch
  <1>2. CASE news = Invalid
    <2>1. o = [reading |-> Invalid, age |-> 0, episode |-> slot.episode]
      BY <1>2 DEF OnPacket
    <2>2. w = [st EXCEPT !.fed = (s.mode # "off")]
      BY <1>2 DEF Watch
    <2>3. w.place = st.place /\ w.heard = st.heard /\ w.steady = st.steady
      BY <2>2 DEF Stay
    <2>4. o.episode = slot.episode /\ o.reading = Invalid
      BY <2>1
    <2> HIDE DEF o, w
    <2>5. Steadied(s, o, w) /\ Counted(s, o, w)
      BY <2>3, <2>4 DEF Steadied, Counted, Works
    <2> QED
      BY <2>5 DEF o, w
  <1>3. CASE news \in Samples /\ s.mode = "off"
    <2>1. o = [reading |-> news, age |-> 0, episode |-> slot.episode]
      BY <1>3 DEF OnPacket
    <2> DEFINE gone == IF news = Nobody THEN st.gone ELSE 0
    <2>2. w = [st EXCEPT !.gone = gone, !.fed = FALSE, !.steady = 0]
      BY <1>3 DEF Watch
    <2> HIDE DEF gone
    <2>3. w.place = st.place /\ w.heard = st.heard /\ w.steady = 0
      BY <2>2 DEF Stay
    <2>4. o.episode = slot.episode
      BY <2>1
    <2>5. /\ st.steady \in Nat /\ st.heard \in Nat /\ \A p \in slot.episode.ring : p.age \in Nat
          /\ slot.episode.zone \in Nat /\ slot.episode.still \in Nat
      BY SlotType, StayType, Bounds, PresenceAssumption DEF Place
    <2>6. AtMost(0, DwellMax) = 0 /\ ~AsLongAsAsked(s, 0)
      BY RuleTypes, Bounds DEF AtMost, AsLongAsAsked
    <2> HIDE DEF o, w
    <2>7. slot.episode.active /\ st.heard <= QuietMax =>
             \A p \in slot.episode.ring : p.cm # st.place.cm => p.age > 0 + st.heard
      BY <2>5 DEF Steadied
    <2>8. Steadied(s, o, w)
      BY <2>3, <2>4, <2>5, <2>6, <2>7 DEF Steadied
    <2>9. Counted(s, o, w)
      BY <1>3 DEF Counted
    <2> QED
      BY <2>8, <2>9 DEF o, w
  <1>4. CASE news \in Samples /\ s.mode # "off"
    <2> DEFINE ep == slot.episode
               u == Update(s, ep, news)
    <2>1. o = [reading |-> news, age |-> 0, episode |-> u]
      BY <1>4 DEF OnPacket
    <2>2. w = Told(s, Newcomer(st), news)
      BY <1>4, Zenon DEF Watch
    <2>3. /\ w.place = news /\ w.heard = 0
          /\ w.steady = IF Stays(s, st, news) THEN AtMost(st.steady + st.heard, NeededMax) ELSE 0
      BY <1>4, <2>2, ToldSteady
    <2>4. ep \in Episode /\ (ep.dwelling => ep.active) /\ (ep.active => ep.prev = st.place)
      BY SlotType DEF Related
    <2>5. u \in Episode /\ (u.active => u.since = 0)
      BY <1>4, <2>4, UpdateFacts
    <2>6. /\ news # Nobody => u.active
          /\ u.active => u.ring \subseteq {Here(news)} \cup (IF GoesOn(s, ep) THEN ep.ring ELSE {})
          /\ news # Nobody /\ news.cm # Unknown /\ GoesOn(s, ep) =>
                /\ u.zone = Credit(s, ep).zone /\ u.still = Credit(s, ep).still
                /\ /\ u.zone >= s.dwell /\ u.still >= s.still
                   /\ Settled(Within(u.ring, s.window), s.span)
                   => u.dwelling
      BY <1>4, <2>4, UpdateSteady
    <2>7. o.episode = u
      BY <2>1
    <2>8. /\ st.steady \in Nat /\ st.heard \in Nat /\ ep.since \in Nat /\ s.quiet \in 0..QuietMax /\ QuietMax \in Nat
          /\ ep.zone \in Nat /\ ep.still \in Nat /\ u.zone \in Nat /\ u.still \in Nat
          /\ DwellMax \in Nat /\ NeededMax \in Nat /\ NeededMax >= DwellMax /\ NeededMax > WindowMax /\ WindowMax \in Nat
          /\ s.dwell \in 0..DwellMax /\ s.still \in 0..DwellMax /\ s.window \in 0..WindowMax /\ s.span \in Nat
      BY <2>4, <2>5, StayType, SettingType, RuleTypes, Bounds DEF Episode, NeededMax
    <2>9. \A p \in ep.ring : p.age \in Nat
      <3>1. \A p \in ep.ring : p \in Place
        BY <2>4 DEF Episode
      <3> QED
        BY <3>1, PresenceAssumption DEF Place
    <2>10. ep.active => \A p \in ep.ring : p.age > 0
      BY DEF Past
    <2>11. \A p \in ep.ring : ep.active /\ st.heard <= QuietMax /\ p.cm # st.place.cm => p.age > st.steady + st.heard
      BY DEF Steadied
    <2>12. st.place.state # "none" /\ st.heard <= s.quiet => ep.active /\ ep.since = st.heard
      BY <2>8 DEF Steadied
    <2>13. ep.active => AtMost(st.steady, DwellMax) <= ep.zone /\ AtMost(st.steady, DwellMax) <= ep.still
      BY DEF Steadied
    <2>14. Here(news).cm = news.cm
      BY DEF Here
    <2> HIDE DEF o, w, u, ep
    <2>15. ASSUME ~Stays(s, st, news)
           PROVE  Steadied(s, o, w) /\ Counted(s, o, w)
      <3>1. w.steady = 0
        BY <2>3, <2>15
      <3>2. AtMost(0, DwellMax) = 0 /\ ~AsLongAsAsked(s, 0)
        BY <2>8 DEF AtMost, AsLongAsAsked
      <3>3. u.active => \A p \in u.ring : p.cm # news.cm => p.age > 0
        BY <2>6, <2>10, <2>14 DEF GoesOn
      <3>4. u.active => \A p \in u.ring : p.cm # w.place.cm => p.age > w.steady + w.heard
        BY <2>3, <3>1, <3>3
      <3>5. w.place.state # "none" => u.active
        BY <1>4, <2>3, <2>6
      <3>6. Steadied(s, o, w)
        BY <2>3, <2>5, <2>7, <2>8, <3>1, <3>2, <3>4, <3>5 DEF Steadied
      <3>7. Counted(s, o, w)
        BY <3>1 DEF Counted
      <3> QED
        BY <3>6, <3>7
    <2>16. ASSUME Stays(s, st, news)
           PROVE  Steadied(s, o, w) /\ Counted(s, o, w)
      <3>1. /\ news.state = "still" /\ news = st.place /\ news.cm # Unknown /\ InZone(s, news.cm) /\ st.heard <= s.quiet
            /\ news # Nobody
        BY <2>16 DEF Stays, Nobody
      <3>2. ep.active /\ ep.since = st.heard /\ ep.prev = news
        BY <2>4, <2>12, <3>1
      <3>3. GoesOn(s, ep)
        BY <2>8, <3>1, <3>2 DEF GoesOn
      <3>4. w.steady = AtMost(st.steady + st.heard, NeededMax)
        BY <2>3, <2>16
      <3>5. /\ u.zone = AtMost(ep.zone + st.heard, DwellMax) /\ u.still = AtMost(ep.still + st.heard, DwellMax)
        BY <2>4, <2>6, <3>1, <3>2, <3>3, CreditSteady
      <3>6. AtMost(w.steady, DwellMax) <= u.zone /\ AtMost(w.steady, DwellMax) <= u.still
        BY <2>8, <2>13, <3>2, <3>4, <3>5 DEF AtMost
      <3>7. \A p \in ep.ring : p.cm # news.cm => p.age > w.steady
        BY <2>8, <2>9, <2>11, <3>1, <3>2, <3>4 DEF AtMost
      <3>8. \A p \in u.ring : p.cm # news.cm => p.age > w.steady
        BY <2>6, <2>14, <3>1, <3>3, <3>7
      <3>9. ASSUME AsLongAsAsked(s, w.steady)
            PROVE  u.dwelling
        <4>1. w.steady \in Nat /\ w.steady >= s.dwell /\ w.steady >= s.still /\ w.steady > s.window
          BY <2>8, <3>4, <3>9 DEF AsLongAsAsked, AtMost
        <4>2. u.zone >= s.dwell /\ u.still >= s.still
          BY <2>8, <3>6, <4>1 DEF AtMost
        <4>3. \A p \in u.ring : p.age \in Nat
          BY <2>5, PresenceAssumption DEF Episode, Place
        <4>4. Within(u.ring, s.window) \subseteq {news.cm}
          BY <2>8, <3>8, <4>1, <4>3 DEF Within
        <4>5. news.cm \in Nat
          BY <1>4, <3>1, SampleKinds, PresenceAssumption
        <4>6. Settled(Within(u.ring, s.window), s.span)
          BY <2>8, <4>4, <4>5 DEF Settled
        <4> QED
          BY <2>6, <3>1, <3>3, <4>2, <4>6
      <3>10. u.active
        BY <2>6, <3>1
      <3>11. w.steady + w.heard = w.steady
        BY <2>3, <2>8, <3>4 DEF AtMost
      <3>12. Steadied(s, o, w)
        BY <2>3, <2>5, <2>7, <2>8, <3>6, <3>8, <3>9, <3>10, <3>11 DEF Steadied
      <3>13. Counted(s, o, w)
        BY <2>7, <3>10 DEF Counted
      <3> QED
        BY <3>12, <3>13
    <2>17. Steadied(s, o, w) /\ Counted(s, o, w)
      BY <2>15, <2>16
    <2> QED
      BY <2>17 DEF o, w
  <1> QED
    BY <1>1, <1>2, <1>3, <1>4 DEF News

LEMMA CloseSteady ==
    ASSUME NEW st \in Stay, NEW changed \in BOOLEAN
    PROVE  /\ ~changed => Close(st, changed) = st
           /\ changed => Close(st, changed).steady = 0 /\ Close(st, changed).heard = QuietMax + 1
  BY DEF Close, Stay

\* One loop, for whoever stands still before one radar.
LEMMA LoopSteady ==
    ASSUME PatientRules,
           NEW slot \in Slot, NEW st \in Stay, NEW gap \in Gaps, NEW news \in News,
           NEW old \in Settings, NEW s \in Settings,
           Related(slot, st), Ticked(old, slot), Steadied(old, slot, st), Counted(old, slot, st)
    PROVE  LET e == Evaluate(s, OnPacket(old, Older(slot, gap), news))
               c == Close(Watch(old, Passed(st, gap), news), s # old)
           IN  Steadied(s, e, c) /\ Counted(s, e, c)
  <1> DEFINE a == Older(slot, gap)          p == Passed(st, gap)
             o == OnPacket(old, a, news)    w == Watch(old, p, news)
             e == Evaluate(s, o)            c == Close(w, s # old)
  <1>1. /\ a \in Slot /\ p \in Stay /\ Related(a, p)
        /\ old.mode # "off" /\ a.episode.active => p.gone # GoneMax
    BY TimePasses
  <1>2. Steadied(old, a, p) /\ Past(a)
    BY TimeSteady
  <1>3. Counted(old, a, p)
    <2>1. /\ p.steady = st.steady /\ p.fed = st.fed
          /\ a.reading = slot.reading /\ a.age = AtMost(slot.age + gap, Stale)
          /\ slot.episode.active => a.episode.active
      BY PassedFacts, PassedSteady, OlderFacts
    <2>2. slot.age \in 0..Stale /\ gap \in Nat /\ Stale \in Nat
      BY SlotType, GapType, Bounds
    <2> HIDE DEF a, p
    <2>3. Works(a) => Works(slot)
      BY <2>1, <2>2 DEF Works, AtMost
    <2> QED
      BY <2>1, <2>3 DEF Counted
  <1> HIDE DEF a, p
  <1>4. o \in Slot /\ w \in Stay /\ Related(o, w)
    BY <1>1, NewsHeard
  <1>5. Steadied(old, o, w) /\ Counted(old, o, w)
    BY <1>1, <1>2, <1>3, NewsSteady
  <1> HIDE DEF o, w
  <1>6. /\ e \in Slot /\ e.reading = o.reading /\ e.age = o.age
        /\ e.episode = o.episode
           \/ /\ e.episode = Idle /\ s.mode # "off"
              /\ o.episode.active /\ o.episode.since >= 2 * s.quiet + Second
    BY <1>4, EvaluateFacts
  <1>7. (s # old) \in BOOLEAN
    OBVIOUS
  <1>8. /\ s = old => c = w
        /\ s # old => c.steady = 0 /\ c.heard = QuietMax + 1
    BY <1>4, <1>7, CloseSteady
  <1> HIDE DEF e, c
  <1>9. /\ s.quiet \in 0..QuietMax /\ QuietMax \in Nat /\ Second \in Nat \ {0} /\ Stale \in Nat
        /\ o.episode.since \in Nat /\ o.age \in Nat /\ w.heard \in Nat
        /\ e.episode.zone \in Nat /\ e.episode.still \in Nat
    BY <1>4, <1>6, SlotType, StayType, SettingType, Bounds
  <1>10. ASSUME s # old
         PROVE  Steadied(s, e, c) /\ Counted(s, e, c)
    <2>1. c.steady = 0 /\ c.heard = QuietMax + 1
      BY <1>8, <1>10
    <2>2. AtMost(0, DwellMax) = 0 /\ ~AsLongAsAsked(s, 0)
      BY RuleTypes, Bounds DEF AtMost, AsLongAsAsked
    <2> QED
      BY <1>9, <2>1, <2>2 DEF Steadied, Counted
  <1>11. ASSUME s = old, e.episode = o.episode
         PROVE  Steadied(s, e, c) /\ Counted(s, e, c)
    <2>1. Works(e) <=> Works(o)
      BY <1>6 DEF Works
    <2> QED
      BY <1>5, <1>8, <1>11, <2>1 DEF Steadied, Counted
  <1>12. ASSUME s = old, e.episode = Idle, o.episode.active, o.episode.since >= 2 * s.quiet + Second
         PROVE  Steadied(s, e, c) /\ Counted(s, e, c)
    <2>1. Idle.active = FALSE
      BY DEF Idle
    <2>2. ~(w.heard <= s.quiet)
      BY <1>5, <1>9, <1>12 DEF Steadied
    <2>3. s.mode = "enforce" /\ w.fed => ~Works(o)
      <3> SUFFICES ASSUME s.mode = "enforce", w.fed, Works(o) PROVE FALSE
        OBVIOUS
      <3>1. o.episode.since <= o.age /\ o.age < Stale
        BY <1>4, <1>12 DEF Related, Works
      <3>2. 2 * s.quiet + Second >= Stale
        BY DEF PatientRules
      <3> QED
        BY <1>9, <1>12, <3>1, <3>2
    <2>4. Works(e) <=> Works(o)
      BY <1>6 DEF Works
    <2> QED
      BY <1>8, <1>12, <2>1, <2>2, <2>3, <2>4 DEF Steadied, Counted
  <1>13. Steadied(s, e, c) /\ Counted(s, e, c)
    BY <1>6, <1>10, <1>11, <1>12
  <1> QED
    BY <1>13 DEF e, c, o, w, a, p

CookInv == \A r \in Radars : Steadied(settings, radar[r], stay[r]) /\ Counted(settings, radar[r], stay[r])

LEMMA CookInit == Init => CookInv
  <1> SUFFICES ASSUME Init, NEW r \in Radars
               PROVE  Steadied(settings, radar[r], stay[r]) /\ Counted(settings, radar[r], stay[r])
    BY DEF CookInv
  <1>1. /\ radar[r].episode.active = FALSE /\ stay[r].steady = 0 /\ stay[r].place = Nobody
    BY DEF Init, Idle
  <1>2. Nobody.state = "none"
    BY DEF Nobody
  <1> QED
    BY <1>1, <1>2 DEF Steadied, Counted

LEMMA CookStep ==
    ASSUME PatientRules
    PROVE  Inv /\ CookInv /\ [Next]_pvars => CookInv'
  <1> SUFFICES ASSUME Inv, CookInv, [Next]_pvars PROVE CookInv'
    OBVIOUS
  <1>1. ASSUME NEW gap \in Gaps, NEW news \in [Radars -> News], NEW s \in Settings, Loop(gap, news, s)
        PROVE  CookInv'
    <2> SUFFICES ASSUME NEW r \in Radars
                 PROVE  Steadied(settings', radar'[r], stay'[r]) /\ Counted(settings', radar'[r], stay'[r])
      BY DEF CookInv
    <2>1. settings \in Settings /\ radar[r] \in Slot /\ stay[r] \in Stay /\ news[r] \in News
      BY DEF Inv, TypeOK
    <2>2. /\ Related(radar[r], stay[r]) /\ Ticked(settings, radar[r])
          /\ Steadied(settings, radar[r], stay[r]) /\ Counted(settings, radar[r], stay[r])
      BY DEF Inv, CookInv
    <2> DEFINE e == Evaluate(s, OnPacket(settings, Older(radar[r], gap), news[r]))
               c == Close(Watch(settings, Passed(stay[r], gap), news[r]), s # settings)
    <2>3. settings' = s /\ radar'[r] = e /\ stay'[r] = c
      BY <1>1 DEF Loop
    <2>4. Steadied(s, e, c) /\ Counted(s, e, c)
      BY <2>1, <2>2, LoopSteady
    <2> HIDE DEF e, c
    <2> QED
      BY <2>3, <2>4
  <1>2. CASE UNCHANGED pvars
    BY <1>2 DEF pvars, CookInv
  <1> QED
    BY <1>1, <1>2 DEF Next

\* presence_fuse, presence_fuse_all, radar_episode_update: somebody who has stood
\* still at the stove for as long as the rules in force ask is present to the
\* state machine, whatever samples were missing in between and whatever the ring
\* has forgotten, provided no episode ends on a reading that still counts.
THEOREM CookCounts ==
    ASSUME PatientRules
    PROVE  Spec => []TheCookCounts
  <1>1. Inv /\ CookInv => TheCookCounts
    <2> SUFFICES ASSUME Inv, CookInv, \E r \in Radars : AtTheStove(r),
                        settings.fusion_all => \A r \in Radars : Works(radar[r]) => AtTheStove(r)
                 PROVE  presence = "present"
      BY DEF TheCookCounts
    <2>1. settings \in Settings /\ presence = Inputs(settings, radar)
      BY DEF Inv, TypeOK
    <2>2. ASSUME NEW r \in Radars, AtTheStove(r)
          PROVE  AtStove(settings, radar[r]) = "present"
      <3>1. /\ Works(radar[r]) /\ radar[r].reading.state = "still" /\ stay[r].fed
            /\ AsLongAsAsked(settings, stay[r].steady)
        BY <2>2 DEF AtTheStove
      <3>2. Each(radar[r]) = "present"
        BY <3>1 DEF Each, Nobody
      <3>3. stay[r].steady > 0
        <4>1. stay[r].steady \in Nat
          BY StayType DEF Inv, TypeOK
        <4> QED
          BY <2>1, <3>1, <4>1, RuleTypes DEF AsLongAsAsked
      <3>4. settings.mode = "enforce" => radar[r].episode.dwelling
        BY <3>1, <3>3 DEF CookInv, Counted, Steadied
      <3> QED
        BY <3>2, <3>4 DEF AtStove
    <2>3. ASSUME NEW r \in Radars, ~Works(radar[r])
          PROVE  AtStove(settings, radar[r]) = "unknown"
      BY <2>3 DEF AtStove, Each
    <2> DEFINE readings == {AtStove(settings, radar[r]) : r \in Radars}
    <2>4. "present" \in readings
      BY <2>2
    <2>5. settings.fusion_all => "absent" \notin readings
      BY <2>2, <2>3
    <2> HIDE DEF readings
    <2>6. Fuse(readings) = "present"
      BY <2>4 DEF Fuse
    <2>7. settings.fusion_all => FuseAll(readings) = "present"
      BY <2>4, <2>5 DEF FuseAll
    <2> QED
      BY <2>1, <2>6, <2>7 DEF Inputs, readings
  <1>2. Inv /\ CookInv /\ [Next]_pvars => CookInv'
    BY CookStep
  <1> QED
    BY <1>1, <1>2, CookInit, InitInv, StepInv, PTL DEF Spec

=============================================================================
