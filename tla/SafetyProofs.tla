---------------------------- MODULE SafetyProofs ----------------------------
(***************************************************************************)
(* What holds of the safety state machine for every configuration, every    *)
(* input, every clock and every word width: its types, the shape of the     *)
(* timeline, no start in the future, the account of the pauses, the reset,   *)
(* what cancels a countdown, what cuts the gas and by when, how long holds   *)
(* last, that a step comes to rest, and that the machine is the interlock of *)
(* Interlock.tla.                                                          *)
(*                                                                         *)
(* The argument follows a step through its stages.  Each stage takes a      *)
(* sound machine to a sound one, and each transition keeps the countdown's  *)
(* start and its pauses together or closes the account; so does an          *)
(* evaluation pass, and so do the eight of a step.                         *)
(***************************************************************************)
EXTENDS SafetyProps, WellFoundedInduction, TLAPS

\* A machine as a step at the time t may find it.
Sound(s, t) == s \in Machine /\ Shape(s) /\ Past(s, t)

\* The start of the countdown and the pauses it has seen stay together, or the
\* account is empty.
Steady(s, r) ==
    \/ r.unattended_start = s.unattended_start /\ r.pause_used = s.pause_used
    \/ r.pause_used = 0

\* What the proofs need to know of the facts of a step.
FactsAt(e, t) == e.t = t /\ e.t \in Nat /\ e.eff_shutdown \in Nat

-----------------------------------------------------------------------------
(* Helpers. *)

\* The first rule is one of the rules that fire, and comes before the others.
LEMMA MinLeast ==
    ASSUME NEW S, S \subseteq Rule, S # {}
    PROVE  Min(S) \in S /\ \A y \in S : Min(S) <= y
<1>1. S \subseteq Nat
  BY DEF Rule
<1>2. PICK x \in S : \A y \in S : ~(<<y, x>> \in OpToRel(<, Nat))
  BY <1>1, NatLessThanWellFounded, WFMin, Zenon
<1>3. ASSUME NEW y \in S
      PROVE  x <= y
  <2>1. y < x => <<y, x>> \in OpToRel(<, Nat)
    BY <1>1, Zenon DEF OpToRel
  <2>2. ~(y < x)
    BY <1>2, <2>1, Zenon
  <2> QED
    BY <1>1, <2>2
<1> QED
  BY <1>3 DEF Min

\* later() picks one of its two instants.
LEMMA LaterPicks ==
    ASSUME NEW a, NEW b
    PROVE  Later(a, b) \in {a, b}
BY DEF Later

-----------------------------------------------------------------------------
(* The stages before the rules. *)

\* A pause moves the starts on by at most the time that has passed.
LEMMA PauseClockSound ==
    ASSUME NEW s, NEW t \in Nat, Sound(s, t),
           NEW c \in Config, NEW gap \in Nat, NEW presence
    PROVE  LET p == PauseClock(s, presence, c, gap)
           IN  /\ Sound(p, t + gap)
               /\ p.unattended_start - p.pause_used = s.unattended_start - s.pause_used
               /\ p.unattended_active = s.unattended_active
               /\ ~s.unattended_active => p = s
<1> DEFINE left == PauseBudget(s, c) - s.pause_used
           dt == Min2(Min2(gap, PauseStepMax), left)
<1>1. PauseBudget(s, c) \in Nat
  BY DEF PauseBudget, Min2, Sound, Machine, Config
<1>2. left > 0 => dt \in Nat /\ dt <= gap
  BY <1>1, ClockAssumption DEF Min2, Sound, Machine
<1> HIDE DEF left, dt
<1>3. PauseClock(s, presence, c, gap) =
        IF s.state \in {"UNATTENDED", "WARNING"} /\ s.unattended_active
           /\ presence = "present" /\ left > 0
        THEN [s EXCEPT !.unattended_start = @ + dt,
                       !.warning_start = IF s.warning_started THEN @ + dt ELSE @,
                       !.pause_used = @ + dt]
        ELSE s
  BY DEF PauseClock, left, dt
<1>4. CASE s.state \in {"UNATTENDED", "WARNING"} /\ s.unattended_active
           /\ presence = "present" /\ left > 0
  <2> DEFINE ws == IF s.warning_started THEN s.warning_start + dt ELSE s.warning_start
             p == [s EXCEPT !.unattended_start = s.unattended_start + dt,
                            !.warning_start = ws,
                            !.pause_used = s.pause_used + dt]
  <2>1. PauseClock(s, presence, c, gap) = p
    BY <1>3, <1>4
  <2>2. dt \in Nat /\ dt <= gap
    BY <1>2, <1>4
  <2>3. ws \in Nat /\ ws <= t + gap
    BY <2>2 DEF Sound, Machine, Past
  <2> HIDE DEF ws
  <2>4. p \in Machine
    <3>1. s.unattended_start + dt \in Nat /\ s.pause_used + dt \in Nat
      BY <2>2 DEF Sound, Machine
    <3>2. s \in Machine
      BY DEF Sound
    <3> QED
      BY <2>3, <3>1, <3>2, Zenon DEF Machine
  <2>5. Past(p, t + gap)
    <3>1. Past(s, t + gap) /\ s.unattended_start + dt <= t + gap
      BY <2>2 DEF Sound, Machine, Past
    <3>2. /\ p.unattended_start = s.unattended_start + dt /\ p.warning_start = ws
          /\ p.state_entered = s.state_entered /\ p.monitoring_since = s.monitoring_since
          /\ p.absent_since = s.absent_since
          /\ p.falling_hold_since = s.falling_hold_since
          /\ p.checking_since = s.checking_since
          /\ p.return_hold_since = s.return_hold_since
      BY DEF Sound, Machine
    <3> HIDE DEF p
    <3> QED
      BY <2>3, <3>1, <3>2 DEF Past
  <2>6. Shape(p)
    BY <1>4, <2>2 DEF Sound, Machine, Shape
  <2>7. p.unattended_start - p.pause_used = s.unattended_start - s.pause_used
    BY <2>2 DEF Sound, Machine
  <2>8. p.unattended_active = s.unattended_active
    BY DEF Sound, Machine
  <2> QED
    BY <1>4, <2>1, <2>4, <2>5, <2>6, <2>7, <2>8 DEF Sound
<1>5. CASE ~(s.state \in {"UNATTENDED", "WARNING"} /\ s.unattended_active
             /\ presence = "present" /\ left > 0)
  BY <1>3, <1>5 DEF Sound, Machine, Past
<1> QED
  BY <1>4, <1>5

\* The absence timer starts now or not at all.
LEMMA AbsenceTimerSound ==
    ASSUME NEW s, NEW t, NEW e, Sound(s, t), FactsAt(e, t)
    PROVE  LET p == AbsenceTimer(s, e)
           IN  /\ Sound(p, t)
               /\ p.unattended_start = s.unattended_start
               /\ p.pause_used = s.pause_used
               /\ p.unattended_active = s.unattended_active
<1> DEFINE off == [s EXCEPT !.absent_timing = FALSE]
           on == [s EXCEPT !.absent_timing = TRUE, !.absent_since = t]
<1>1. AbsenceTimer(s, e) \in {off, on, s}
  BY DEF AbsenceTimer, FactsAt
<1>2. off \in Machine /\ on \in Machine
  BY DEF Sound, FactsAt, Machine
<1>3. Shape(off) /\ Shape(on)
  BY DEF Sound, Machine, Shape
<1>4. Past(off, t) /\ Past(on, t)
  BY DEF Sound, FactsAt, Machine, Past
<1> QED
  BY <1>1, <1>2, <1>3, <1>4 DEF Sound, Machine

-----------------------------------------------------------------------------
(***************************************************************************)
(* Working out a hold: it notes when holds began, and leaves the state and   *)
(* the timeline alone.                                                     *)
(***************************************************************************)
\* The limit of the falling hold runs on, once it runs.
SameFall(s, r) ==
    s.falling_hold_started =>
        r.falling_hold_started /\ r.falling_hold_since = s.falling_hold_since

SameTimeline(s, r) ==
    /\ r.state = s.state /\ r.state_entered = s.state_entered
    /\ r.monitoring_since = s.monitoring_since
    /\ r.absent_timing = s.absent_timing /\ r.absent_since = s.absent_since
    /\ r.unattended_active = s.unattended_active
    /\ r.unattended_start = s.unattended_start
    /\ r.warning_started = s.warning_started /\ r.warning_start = s.warning_start
    /\ r.pause_used = s.pause_used
    /\ r.late_warning = s.late_warning
    /\ s.held_once => r.held_once
    /\ s.unattended_active => SameFall(s, r)

Noted(s, r, t) == r \in Machine /\ Past(r, t) /\ SameTimeline(s, r)

LEMMA NotedSound ==
    ASSUME NEW s, NEW r, NEW t, Sound(s, t), Noted(s, r, t)
    PROVE  Sound(r, t)
BY DEF Sound, Noted, SameTimeline, Shape, SameFall

LEMMA SoundNoted ==
    ASSUME NEW s, NEW t, Sound(s, t)
    PROVE  Noted(s, s, t)
BY DEF Sound, Noted, SameTimeline, SameFall

LEMMA NotedTrans ==
    ASSUME NEW s, NEW r, NEW q, NEW t, Noted(s, r, t), Noted(r, q, t)
    PROVE  Noted(s, q, t)
BY DEF Noted, SameTimeline, SameFall

\* Setting the hold notes nothing else.
LEMMA HoldNoted ==
    ASSUME NEW s, NEW t, s \in Machine, Past(s, t), NEW h \in Holds
    PROVE  Noted(s, [s EXCEPT !.hold = h], t)
<1>1. [s EXCEPT !.hold = h] \in Machine
  BY Zenon DEF Machine
<1>2. Past([s EXCEPT !.hold = h], t) /\ SameTimeline(s, [s EXCEPT !.hold = h])
  BY DEF Machine, Past, SameTimeline, SameFall
<1> QED
  BY <1>1, <1>2 DEF Noted

LEMMA NoteFallNoted ==
    ASSUME NEW s, NEW t, s \in Machine, Past(s, t), NEW since \in Nat, since <= t
    PROVE  Noted(s, NoteFall(s, since), t)
<1> DEFINE r == [s EXCEPT !.falling_hold_started = TRUE, !.falling_hold_since = since]
<1>1. r \in Machine
  BY Zenon DEF Machine
<1>2. Past(r, t) /\ (~s.falling_hold_started => SameTimeline(s, r))
  BY DEF Machine, Past, SameTimeline, SameFall
<1>3. Noted(s, s, t)
  BY DEF Noted, SameTimeline, SameFall
<1> QED
  BY <1>1, <1>2, <1>3 DEF NoteFall, Noted

LEMMA ReturnHoldNoted ==
    ASSUME NEW s, NEW t, NEW e, s \in Machine, Past(s, t), FactsAt(e, t)
    PROVE  Noted(s, ReturnHold(s, e), t)
<1> DEFINE since == IF s.return_hold_active THEN s.return_hold_since ELSE e.t
           r(h) == [s EXCEPT !.return_hold_active = TRUE, !.return_hold_since = since,
                             !.hold = h]
<1>1. since \in Nat /\ since <= t
  BY DEF Machine, Past, FactsAt
<1>2. \E h \in {"none", "return"} : ReturnHold(s, e) = r(h)
  BY DEF ReturnHold
<1> HIDE DEF since
<1>3. ASSUME NEW h \in {"none", "return"}
      PROVE  Noted(s, r(h), t)
  <2>1. h \in Holds
    BY DEF Holds
  <2>2. r(h) \in Machine
    BY <1>1, <2>1, Zenon DEF Machine
  <2>3. Past(r(h), t) /\ SameTimeline(s, r(h))
    BY <1>1 DEF Machine, Past, SameTimeline, SameFall
  <2> QED
    BY <2>2, <2>3 DEF Noted
<1> QED
  BY <1>2, <1>3

\* Letting go of the return hold.
LEMMA LetGoNoted ==
    ASSUME NEW s, NEW t, s \in Machine, Past(s, t)
    PROVE  Noted(s, [s EXCEPT !.return_hold_active = FALSE], t)
<1>1. [s EXCEPT !.return_hold_active = FALSE] \in Machine
  BY Zenon DEF Machine
<1>2. /\ Past([s EXCEPT !.return_hold_active = FALSE], t)
      /\ SameTimeline(s, [s EXCEPT !.return_hold_active = FALSE])
  BY DEF Machine, Past, SameTimeline, SameFall
<1> QED
  BY <1>1, <1>2 DEF Noted

LEMMA HoldReasonNoted ==
    ASSUME NEW s, NEW t, NEW e, NEW due, s \in Machine, Past(s, t), FactsAt(e, t)
    PROVE  Noted(s, HoldReason(s, e, due), t)
<1> DEFINE fall == IF e.pan_falling THEN NoteFall(s, e.t) ELSE s
<1>1. Noted(s, s, t)
  BY DEF Noted, SameTimeline, SameFall
<1>2. Noted(s, fall, t)
  BY <1>1, NoteFallNoted DEF FactsAt
<1>3. fall \in Machine /\ Past(fall, t)
  BY <1>2 DEF Noted
<1>4. HoldReason(s, e, due) \in
        { [s EXCEPT !.return_hold_active = FALSE], [s EXCEPT !.hold = "cooling"],
          [fall EXCEPT !.hold = "falling"], ReturnHold(fall, e),
          [fall EXCEPT !.return_hold_active = FALSE] }
  BY DEF HoldReason
<1>5. Noted(s, [s EXCEPT !.return_hold_active = FALSE], t)
  BY LetGoNoted
<1>6. Noted(s, [s EXCEPT !.hold = "cooling"], t)
  BY HoldNoted DEF Holds
<1> HIDE DEF fall
<1>7. Noted(fall, [fall EXCEPT !.hold = "falling"], t)
  BY <1>3, HoldNoted DEF Holds
<1>8. Noted(fall, ReturnHold(fall, e), t)
  BY <1>3, ReturnHoldNoted
<1>9. Noted(fall, [fall EXCEPT !.return_hold_active = FALSE], t)
  BY <1>3, LetGoNoted
<1> QED
  BY <1>2, <1>4, <1>5, <1>6, <1>7, <1>8, <1>9, NotedTrans

LEMMA UpdateHoldNoted ==
    ASSUME NEW s, NEW t, NEW e, NEW due, s \in Machine, Past(s, t), FactsAt(e, t)
    PROVE  Noted(s, UpdateHold(s, e, due), t)
<1> DEFINE h == HoldReason(s, e, due)
           once == h.held_once \/ h.hold # "none"
<1>1. Noted(s, h, t)
  BY HoldReasonNoted
<1>2. UpdateHold(s, e, due) = [h EXCEPT !.held_once = once]
  BY DEF UpdateHold
<1> HIDE DEF h
<1>3. h \in Machine /\ Past(h, t)
  BY <1>1 DEF Noted
<1>4. once \in BOOLEAN /\ (h.held_once => once)
  OBVIOUS
<1> HIDE DEF once
<1>5. [h EXCEPT !.held_once = once] \in Machine
  BY <1>3, <1>4, Zenon DEF Machine
<1>6. Past([h EXCEPT !.held_once = once], t) /\ SameTimeline(h, [h EXCEPT !.held_once = once])
  BY <1>3, <1>4 DEF Machine, Past, SameTimeline, SameFall
<1> QED
  BY <1>1, <1>2, <1>5, <1>6, NotedTrans DEF Noted

LEMMA CheckFirstNoted ==
    ASSUME NEW s, NEW t, NEW e, s \in Machine, Past(s, t), FactsAt(e, t), ~s.unattended_active
    PROVE  Noted(s, CheckFirst(s, e), t)
<1> DEFINE since == IF s.checking THEN s.checking_since ELSE e.t
           open == [s EXCEPT !.checking = TRUE, !.checking_since = since]
           seen == IF e.pan_falling THEN NoteFall(open, since) ELSE open
           started == s.falling_hold_started /\ ~s.checking
           closed == [s EXCEPT !.checking = FALSE, !.falling_hold_started = started]
<1>1. since \in Nat /\ since <= t
  BY DEF Machine, Past, FactsAt
<1>2. \/ CheckFirst(s, e) = closed
      \/ CheckFirst(s, e) = s
      \/ \E h \in {"none", "checking"} : CheckFirst(s, e) = [seen EXCEPT !.hold = h]
  BY DEF CheckFirst
<1>3. started \in BOOLEAN
  OBVIOUS
<1> HIDE DEF since, started
<1>4. Noted(s, open, t)
  <2>1. open \in Machine
    BY <1>1, Zenon DEF Machine
  <2>2. Past(open, t) /\ SameTimeline(s, open)
    BY <1>1 DEF Machine, Past, SameTimeline, SameFall
  <2> QED
    BY <2>1, <2>2 DEF Noted
<1>5. Noted(s, closed, t)
  <2>1. closed \in Machine
    BY <1>3, Zenon DEF Machine
  <2>2. Past(closed, t) /\ SameTimeline(s, closed)
    BY DEF Machine, Past, SameTimeline, SameFall
  <2> QED
    BY <2>1, <2>2 DEF Noted
<1>6. Noted(s, s, t)
  BY DEF Noted, SameTimeline, SameFall
<1>7. Noted(s, seen, t)
  <2>1. open \in Machine /\ Past(open, t)
    BY <1>4 DEF Noted
  <2> HIDE DEF open
  <2>2. Noted(open, NoteFall(open, since), t)
    BY <1>1, <2>1, NoteFallNoted
  <2> QED
    BY <1>4, <2>2, NotedTrans
<1>8. ASSUME NEW h \in {"none", "checking"}
      PROVE  Noted(s, [seen EXCEPT !.hold = h], t)
  <2>1. seen \in Machine /\ Past(seen, t)
    BY <1>7 DEF Noted
  <2> HIDE DEF seen
  <2>2. Noted(seen, [seen EXCEPT !.hold = h], t)
    BY <2>1, HoldNoted DEF Holds
  <2> QED
    BY <1>7, <2>2, NotedTrans
<1> QED
  BY <1>2, <1>5, <1>6, <1>8

LEMMA HoldBackNoted ==
    ASSUME NEW s, NEW t, NEW e, Sound(s, t), FactsAt(e, t)
    PROVE  Noted(s, HoldBack(s, e), t)
<1>1. s \in Machine /\ Past(s, t)
  BY DEF Sound
<1>2. \/ s.state = "MONITORING" /\ HoldBack(s, e) = CheckFirst(s, e)
      \/ HoldBack(s, e) \in { UpdateHold(s, e, WarningDue(s, e)),
                              UpdateHold(s, e, ShutdownDue(s, e)), s }
  BY DEF HoldBack
<1>3. s.state = "MONITORING" => ~s.unattended_active
  BY DEF Sound, Shape
<1> QED
  BY <1>1, <1>2, <1>3, CheckFirstNoted, UpdateHoldNoted, SoundNoted

-----------------------------------------------------------------------------
(***************************************************************************)
(* Transitions.  What the state asks of the timeline is broken off while    *)
(* the state changes; the ledger of the timeline is not.                    *)
(***************************************************************************)
Ledger(s) ==
    /\ s.warning_started => s.unattended_active
    /\ ~s.unattended_active => s.pause_used = 0 /\ ~s.late_warning

Kept(s, t) == s \in Machine /\ Past(s, t) /\ Ledger(s)

LEMMA ClearUnattendedKept ==
    ASSUME NEW s, NEW t, Kept(s, t)
    PROVE  LET r == ClearUnattended(s)
           IN  /\ Kept(r, t) /\ r.state = s.state
               /\ ~r.unattended_active /\ r.pause_used = 0
<1> DEFINE r == ClearUnattended(s)
<1>1. r \in Machine
  <2>1. 0 \in Nat
    OBVIOUS
  <2> QED
    BY <2>1, Zenon DEF ClearUnattended, Kept, Machine
<1>2. Past(r, t) /\ Ledger(r) /\ r.state = s.state
  BY DEF ClearUnattended, Kept, Machine, Past, Ledger
<1>3. ~r.unattended_active /\ r.pause_used = 0
  BY DEF ClearUnattended, Kept, Machine
<1> QED
  BY <1>1, <1>2, <1>3 DEF Kept

\* Leaving SHUTDOWN closes the timeline; leaving another state changes nothing.
LEMMA OnExitKept ==
    ASSUME NEW s, NEW t, NEW e, Kept(s, t), FactsAt(e, t)
    PROVE  LET r == OnExit(s, e)
           IN  /\ Kept(r, t) /\ Steady(s, r)
               /\ s.state = "SHUTDOWN" => ~r.unattended_active
               /\ s.state # "SHUTDOWN" => r = s
<1>1. CASE s.state # "SHUTDOWN"
  BY <1>1 DEF OnExit, Steady
<1>2. CASE s.state = "SHUTDOWN"
  <2> DEFINE c == ClearUnattended(s)
             away == IF c.absent_timing THEN e.t ELSE c.absent_since
             r == [c EXCEPT !.absent_since = away]
  <2>1. Kept(c, t) /\ ~c.unattended_active /\ c.pause_used = 0
    BY ClearUnattendedKept
  <2>2. c.absent_timing = s.absent_timing
    BY DEF ClearUnattended, Kept, Machine
  <2>3. OnExit(s, e) = r
    BY <1>2, <2>2 DEF OnExit
  <2> HIDE DEF c
  <2>4. away \in Nat /\ away <= t
    BY <2>1 DEF Kept, Machine, Past, FactsAt
  <2> HIDE DEF away
  <2>5. r \in Machine
    BY <2>1, <2>4, Zenon DEF Kept, Machine
  <2>6. Past(r, t) /\ Ledger(r) /\ ~r.unattended_active /\ r.pause_used = 0
    BY <2>1, <2>4 DEF Kept, Machine, Past, Ledger
  <2> QED
    BY <1>2, <2>3, <2>5, <2>6 DEF Kept, Steady
<1> QED
  BY <1>1, <1>2

\* Opening a countdown: its start is an instant of the past, its account empty.
LEMMA StartUnattendedKept ==
    ASSUME NEW s, NEW t, NEW e, Kept(s, t), FactsAt(e, t)
    PROVE  LET r == StartUnattended(s, e)
           IN  /\ Kept(r, t) /\ Steady(s, r)
               /\ r.state = s.state /\ r.unattended_active
<1>1. CASE s.unattended_active
  BY <1>1 DEF StartUnattended, Steady
<1>2. CASE ~s.unattended_active
  <2> DEFINE start == IF s.absent_timing
                      THEN Later(s.absent_since, s.monitoring_since) ELSE e.t
             once == s.held_once \/ (s.checking /\ s.falling_hold_started)
             r == [s EXCEPT !.unattended_active = TRUE, !.unattended_start = start,
                            !.held_once = once, !.checking = FALSE]
  <2>1. StartUnattended(s, e) = r
    BY <1>2 DEF StartUnattended
  <2>2. start \in Nat /\ start <= t
    BY LaterPicks DEF Kept, Machine, Past, FactsAt
  <2>3. once \in BOOLEAN
    OBVIOUS
  <2> HIDE DEF start, once
  <2>4. r \in Machine
    BY <2>2, <2>3, Zenon DEF Kept, Machine
  <2>5. Past(r, t)
    BY <2>2 DEF Kept, Machine, Past
  <2>6. Ledger(r) /\ r.pause_used = 0 /\ r.state = s.state /\ r.unattended_active
    BY <1>2 DEF Kept, Machine, Ledger
  <2> QED
    BY <2>1, <2>4, <2>5, <2>6 DEF Kept, Steady
<1> QED
  BY <1>1, <1>2

LEMMA StartWarningKept ==
    ASSUME NEW s, NEW t, NEW e, Kept(s, t), FactsAt(e, t), s.unattended_active
    PROVE  LET r == StartWarning(s, e)
           IN  /\ Kept(r, t) /\ Steady(s, r) /\ r.state = s.state
               /\ r.unattended_active /\ r.warning_started
<1>1. CASE s.warning_started
  BY <1>1 DEF StartWarning, Steady
<1>2. CASE ~s.warning_started
  <2> DEFINE r == [s EXCEPT !.warning_started = TRUE, !.warning_start = e.t]
  <2>1. StartWarning(s, e) = r
    BY <1>2 DEF StartWarning
  <2>2. e.t \in Nat /\ e.t <= t
    BY DEF FactsAt
  <2>3. r \in Machine
    BY <2>2, Zenon DEF Kept, Machine
  <2>4. Past(r, t)
    BY <2>2 DEF Kept, Machine, Past
  <2>5. Ledger(r) /\ Steady(s, r) /\ r.state = s.state /\ r.unattended_active /\ r.warning_started
    BY DEF Kept, Machine, Ledger, Steady
  <2> QED
    BY <2>1, <2>3, <2>4, <2>5 DEF Kept
<1> QED
  BY <1>1, <1>2

LEMMA SteadyTrans ==
    ASSUME NEW s, NEW r, NEW q, Steady(s, r), Steady(r, q)
    PROVE  Steady(s, q)
BY DEF Steady

LEMMA TransitionSound ==
    ASSUME NEW s, NEW t, NEW e, NEW to \in States, Kept(s, t), FactsAt(e, t),
           to = "WARNING" => s.unattended_active /\ s.state # "SHUTDOWN",
           to \in {"BOOT", "SELF_TEST"} => ~s.unattended_active /\ s.state # "SHUTDOWN"
    PROVE  Sound(Transition(s, to, e), t) /\ Steady(s, Transition(s, to, e))
<1> DEFINE x == OnExit(s, e)
           m == [x EXCEPT !.state = to, !.state_entered = e.t]
<1>1. Kept(x, t) /\ Steady(s, x) /\ (s.state # "SHUTDOWN" => x = s)
  BY OnExitKept
<1> HIDE DEF x
<1>2. Kept(m, t) /\ Steady(x, m) /\ m.state = to /\ m.unattended_active = x.unattended_active
  <2>1. e.t \in Nat /\ e.t <= t
    BY DEF FactsAt
  <2>2. m \in Machine
    BY <1>1, <2>1, Zenon DEF Kept, Machine
  <2>3. Past(m, t)
    BY <1>1, <2>1 DEF Kept, Machine, Past
  <2>4. Ledger(m) /\ Steady(x, m) /\ m.state = to /\ m.unattended_active = x.unattended_active
    BY <1>1 DEF Kept, Machine, Ledger, Steady
  <2> QED
    BY <2>2, <2>3, <2>4 DEF Kept
<1>3. Transition(s, to, e) = OnEnter(m, e)
  BY DEF Transition, x
<1> HIDE DEF m
<1>4. Sound(OnEnter(m, e), t) /\ Steady(m, OnEnter(m, e))
  <2>1. CASE to = "IDLE"
    <3>1. OnEnter(m, e) = ClearUnattended(m)
      BY <1>2, <2>1 DEF OnEnter
    <3> QED
      BY <1>2, <2>1, <3>1, ClearUnattendedKept DEF Kept, Sound, Shape, Ledger, Steady
  <2>2. CASE to = "MONITORING"
    <3> DEFINE c == ClearUnattended(m)
               r == [c EXCEPT !.monitoring_since = e.t]
    <3>1. OnEnter(m, e) = r
      BY <1>2, <2>2 DEF OnEnter
    <3>2. Kept(c, t) /\ c.state = to /\ ~c.unattended_active /\ c.pause_used = 0
      BY <1>2, ClearUnattendedKept
    <3> HIDE DEF c
    <3>3. e.t \in Nat /\ e.t <= t
      BY DEF FactsAt
    <3>4. r \in Machine
      BY <3>2, <3>3, Zenon DEF Kept, Machine
    <3>5. Past(r, t)
      BY <3>2, <3>3 DEF Kept, Machine, Past
    <3>6. Shape(r) /\ Steady(m, r)
      BY <2>2, <3>2 DEF Kept, Machine, Ledger, Shape, Steady
    <3> QED
      BY <3>1, <3>4, <3>5, <3>6 DEF Sound
  <2>3. CASE to = "UNATTENDED"
    <3>1. OnEnter(m, e) = StartUnattended(m, e)
      BY <1>2, <2>3 DEF OnEnter
    <3> QED
      BY <1>2, <2>3, <3>1, StartUnattendedKept DEF Kept, Sound, Shape, Ledger
  <2>4. CASE to = "WARNING"
    <3>1. OnEnter(m, e) = StartWarning(m, e)
      BY <1>2, <2>4 DEF OnEnter
    <3>2. m.unattended_active
      BY <1>1, <1>2, <2>4
    <3> QED
      BY <1>2, <2>4, <3>1, <3>2, StartWarningKept DEF Kept, Sound, Shape, Ledger
  <2>5. CASE to \in {"BOOT", "SELF_TEST", "SHUTDOWN", "FAULT"}
    <3>1. OnEnter(m, e) = m
      BY <1>2, <2>5 DEF OnEnter
    <3> QED
      BY <1>1, <1>2, <2>5, <3>1 DEF Kept, Sound, Shape, Ledger, Steady
  <2> QED
    BY <2>1, <2>2, <2>3, <2>4, <2>5 DEF States
<1> QED
  BY <1>1, <1>2, <1>3, <1>4, SteadyTrans

\* The table: only T12 leads to WARNING, only T01 to SELF_TEST.
LEMMA RuleTable ==
    ASSUME NEW r \in Rule
    PROVE  /\ To[r] \in States /\ To[r] # "BOOT"
           /\ To[r] = "WARNING" => r = 12
           /\ To[r] = "SELF_TEST" => r = 1
           /\ From[12] = {"UNATTENDED"} /\ From[1] = {"BOOT"}
BY DEF Rule, To, From, States

LEMMA TakeSound ==
    ASSUME NEW s, NEW t, NEW e, NEW r \in Rule,
           Sound(s, t), FactsAt(e, t), s.state \in From[r]
    PROVE  Sound(Take(r, s, e), t) /\ Steady(s, Take(r, s, e))
<1> DEFINE a == RuleAction(r, s, e)
<1>1. /\ Kept(a, t) /\ Steady(s, a) /\ a.state = s.state
      /\ r # 19 => a.unattended_active = s.unattended_active
  <2>1. CASE r = 12
    <3> DEFINE late == ShutdownDue(s, e)
    <3>1. late \in BOOLEAN
      BY DEF ShutdownDue, Elapsed, Sound, Machine
    <3>2. a = [s EXCEPT !.late_warning = late]
      BY <2>1 DEF RuleAction
    <3> HIDE DEF late
    <3>3. s.unattended_active
      BY <2>1, RuleTable DEF Sound, Shape
    <3>4. a \in Machine
      BY <3>1, <3>2, Zenon DEF Sound, Machine
    <3>5. Past(a, t) /\ Ledger(a) /\ Steady(s, a) /\ a.state = s.state
          /\ a.unattended_active = s.unattended_active
      BY <3>2, <3>3 DEF Sound, Machine, Shape, Past, Ledger, Steady
    <3> QED
      BY <3>4, <3>5 DEF Kept
  <2>2. CASE r = 19 /\ ~s.unattended_active
    <3>1. a = [s EXCEPT !.unattended_active = TRUE, !.unattended_start = s.state_entered]
      BY <2>2 DEF RuleAction
    <3>2. s.state_entered \in Nat
      BY DEF Sound, Machine
    <3>3. a \in Machine
      BY <3>1, <3>2, Zenon DEF Sound, Machine
    <3>4. Past(a, t) /\ Ledger(a) /\ Steady(s, a) /\ a.state = s.state
      BY <2>2, <3>1 DEF Sound, Machine, Shape, Past, Ledger, Steady
    <3> QED
      BY <2>2, <3>3, <3>4 DEF Kept
  <2>3. CASE r # 12 /\ ~(r = 19 /\ ~s.unattended_active)
    <3>1. a = s
      BY <2>3 DEF RuleAction
    <3> QED
      BY <3>1 DEF Sound, Shape, Kept, Ledger, Steady
  <2> QED
    BY <2>1, <2>2, <2>3
<1>2. To[r] = "WARNING" => a.unattended_active /\ a.state # "SHUTDOWN"
  BY <1>1, RuleTable DEF Sound, Shape
<1>3. To[r] \in {"BOOT", "SELF_TEST"} => ~a.unattended_active /\ a.state # "SHUTDOWN"
  BY <1>1, RuleTable DEF Sound, Shape
<1>4. Take(r, s, e) = Transition(a, To[r], e)
  BY DEF Take
<1> HIDE DEF a
<1>5. Sound(Transition(a, To[r], e), t) /\ Steady(a, Transition(a, To[r], e))
  BY <1>1, <1>2, <1>3, RuleTable, TransitionSound
<1> QED
  BY <1>1, <1>4, <1>5, SteadyTrans

-----------------------------------------------------------------------------
(* A pass, and the passes of a step. *)

LEMMA EvaluateSound ==
    ASSUME NEW s, NEW t, NEW e, Sound(s, t), FactsAt(e, t)
    PROVE  Sound(Evaluate(s, e).sm, t) /\ Steady(s, Evaluate(s, e).sm)
<1> DEFINE fresh == [s EXCEPT !.hold = "none", !.eff_shutdown = e.eff_shutdown]
           plain == Fires(fresh, e) \ HoldRules
           held == HoldBack(fresh, e)
           due == Fires(held, e) \cap HoldRules
<1>1. Sound(fresh, t) /\ Steady(s, fresh)
  <2>1. e.eff_shutdown \in Nat /\ "none" \in Holds
    BY DEF FactsAt, Holds
  <2>2. fresh \in Machine
    BY <2>1, Zenon DEF Sound, Machine
  <2>3. Shape(fresh) /\ Past(fresh, t) /\ Steady(s, fresh)
    BY DEF Sound, Machine, Shape, Past, Steady
  <2> QED
    BY <2>2, <2>3 DEF Sound
<1>2. Evaluate(s, e).sm =
        IF plain # {} THEN Take(Min(plain), fresh, e)
        ELSE IF due # {} THEN Take(Min(due), held, e) ELSE held
  BY DEF Evaluate
<1> HIDE DEF fresh
<1>3. CASE plain # {}
  <2>1. Min(plain) \in plain
    BY <1>3, MinLeast DEF Fires
  <2>2. Min(plain) \in Rule /\ fresh.state \in From[Min(plain)]
    BY <2>1 DEF Fires
  <2> QED
    BY <1>1, <1>2, <1>3, <2>2, TakeSound, SteadyTrans
<1>4. Sound(held, t) /\ Steady(fresh, held)
  <2>1. Noted(fresh, held, t)
    BY <1>1, HoldBackNoted
  <2> QED
    BY <1>1, <2>1, NotedSound DEF Noted, SameTimeline, Steady
<1> HIDE DEF held
<1>5. CASE plain = {} /\ due # {}
  <2>1. Min(due) \in due
    BY <1>5, MinLeast DEF Fires
  <2>2. Min(due) \in Rule /\ held.state \in From[Min(due)]
    BY <2>1 DEF Fires
  <2>3. Sound(Take(Min(due), held, e), t) /\ Steady(held, Take(Min(due), held, e))
    BY <1>4, <2>2, TakeSound
  <2> QED
    BY <1>1, <1>2, <1>4, <1>5, <2>3, SteadyTrans
<1>6. CASE plain = {} /\ due = {}
  BY <1>1, <1>2, <1>4, <1>6, SteadyTrans
<1> QED
  BY <1>3, <1>5, <1>6

LEMMA PassSound ==
    ASSUME NEW s, NEW t, NEW e, FactsAt(e, t), NEW p, Sound(p.sm, t), Steady(s, p.sm)
    PROVE  Sound(Pass(p, e).sm, t) /\ Steady(s, Pass(p, e).sm)
<1>1. Sound(Evaluate(p.sm, e).sm, t) /\ Steady(p.sm, Evaluate(p.sm, e).sm)
  BY EvaluateSound
<1> QED
  BY <1>1, SteadyTrans DEF Pass

LEMMA SettleSound ==
    ASSUME NEW s, NEW t, NEW e, Sound(s, t), FactsAt(e, t)
    PROVE  Sound(Settle(s, e).sm, t) /\ Steady(s, Settle(s, e).sm)
<1> DEFINE p0 == [sm |-> s, again |-> TRUE]
           p1 == Pass(p0, e)
           p2 == Pass(p1, e)
           p3 == Pass(p2, e)
           p4 == Pass(p3, e)
           p5 == Pass(p4, e)
           p6 == Pass(p5, e)
           p7 == Pass(p6, e)
           p8 == Pass(p7, e)
           OK(p) == Sound(p.sm, t) /\ Steady(s, p.sm)
<1>1. OK(p0)
  BY DEF Steady
<1>2. ASSUME NEW p, OK(p)
      PROVE  OK(Pass(p, e))
  BY <1>2, PassSound
<1> HIDE DEF OK, p0
<1>3. OK(p1) /\ OK(p2) /\ OK(p3) /\ OK(p4)
  <2>1. OK(p1)
    BY <1>1, <1>2
  <2> HIDE DEF p1
  <2>2. OK(p2)
    BY <2>1, <1>2
  <2> HIDE DEF p2
  <2>3. OK(p3)
    BY <2>2, <1>2
  <2> HIDE DEF p3
  <2> QED
    BY <2>1, <2>2, <2>3, <1>2
<1> HIDE DEF p4
<1>4. OK(p8)
  <2>1. OK(p5)
    BY <1>3, <1>2
  <2> HIDE DEF p5
  <2>2. OK(p6)
    BY <2>1, <1>2
  <2> HIDE DEF p6
  <2>3. OK(p7)
    BY <2>2, <1>2
  <2> HIDE DEF p7
  <2> QED
    BY <2>3, <1>2
<1>5. Settle(s, e) = p8
  BY DEF Settle, p4, p0
<1> QED
  BY <1>4, <1>5 DEF OK

-----------------------------------------------------------------------------
(* The other timers of a step. *)

LEMMA JudgeHeatSound ==
    ASSUME NEW h \in Heat, NEW in \in Input, NEW c \in Config, NEW t \in Nat,
           h.cooling_since <= t
    PROVE  /\ JudgeHeat(h, in, c, t) \in Heat
           /\ JudgeHeat(h, in, c, t).cooling_since <= t
<1> DEFINE active == HeatDetect(h.active, in.pan)
<1>1. active \in BOOLEAN
  BY DEF HeatDetect, Heat
<1> HIDE DEF active
<1> QED
  BY <1>1 DEF JudgeHeat, Heat, active

LEMMA UpdateTierSound ==
    ASSUME NEW k \in Tier, NEW active \in BOOLEAN, NEW in \in Input, NEW c \in Config,
           NEW t \in Nat, k.pending_since <= t
    PROVE  /\ UpdateTier(k, active, in, c, t) \in Tier
           /\ UpdateTier(k, active, in, c, t).pending_since <= t
<1> DEFINE target == IF in.tier_up > k.tier THEN in.tier_up ELSE Min2(in.tier_down, k.tier)
<1>1. target \in 1..TopTier /\ 1 \in 1..TopTier
  BY ClockAssumption DEF Input, Tier, Min2
<1>2. UpdateTier(k, active, in, c, t) \in
        { [k EXCEPT !.tier = 1, !.pending = 1], k, [k EXCEPT !.pending = target],
          [k EXCEPT !.pending = target, !.pending_since = t], [k EXCEPT !.tier = target] }
  BY DEF UpdateTier
<1> HIDE DEF target
<1>3. [k EXCEPT !.tier = 1, !.pending = 1] \in Tier
  BY <1>1, Zenon DEF Tier
<1>4. [k EXCEPT !.pending = target] \in Tier /\ [k EXCEPT !.tier = target] \in Tier
  BY <1>1, Zenon DEF Tier
<1>5. [k EXCEPT !.pending = target, !.pending_since = t] \in Tier
  BY <1>1, Zenon DEF Tier
<1>6. /\ [k EXCEPT !.tier = 1, !.pending = 1].pending_since <= t
      /\ [k EXCEPT !.pending = target].pending_since <= t
      /\ [k EXCEPT !.tier = target].pending_since <= t
      /\ [k EXCEPT !.pending = target, !.pending_since = t].pending_since <= t
  BY DEF Tier
<1> QED
  BY <1>2, <1>3, <1>4, <1>5, <1>6

LEMMA ReturnTimerSound ==
    ASSUME NEW b \in Back, NEW presence, NEW c, NEW t \in Nat, b.since <= t, b.last <= t
    PROVE  /\ ReturnTimer(b, presence, c, t) \in Back
           /\ ReturnTimer(b, presence, c, t).since <= t
           /\ ReturnTimer(b, presence, c, t).last <= t
<1> DEFINE timing == b.timing /\ presence # "unknown" /\ ~Elapsed(t, b.last, c.return_gap)
<1>1. CASE presence = "present"
  BY <1>1 DEF ReturnTimer, Back
<1>2. CASE presence # "present"
  <2>1. timing \in BOOLEAN
    BY DEF Back
  <2>2. ReturnTimer(b, presence, c, t) = [b EXCEPT !.timing = timing]
    BY <1>2 DEF ReturnTimer
  <2> HIDE DEF timing
  <2> QED
    BY <2>1, <2>2 DEF Back
<1> QED
  BY <1>1, <1>2

LEMMA EffShutdownType ==
    ASSUME NEW c \in Config, NEW k \in 1..TopTier
    PROVE  EffShutdown(c, k) \in Nat
<1>1. c.shutdown \in Nat
  BY DEF Config
<1>2. ASSUME k \in HotTiers
      PROVE  c.tiers[k].warning \in Nat /\ c.tiers[k].shutdown \in Nat
  BY <1>2 DEF Config, TierSetting
<1> QED
  BY <1>1, <1>2 DEF EffShutdown, TierApplies, TierShutdown, Min2

LEMMA FactsSound ==
    ASSUME NEW in, NEW c \in Config, NEW t \in Nat, NEW h, NEW k \in Tier, NEW b
    PROVE  FactsAt(Facts(in, c, t, h, k, b), t)
BY EffShutdownType DEF FactsAt, Facts, Tier

-----------------------------------------------------------------------------
(* The step and the specification. *)

IInv == TypeOK /\ TimelineShape /\ StartsInThePast

\* What a step leaves behind: sound machine and timers; and its machine is
\* steady against the paused one.
LEMMA StepSound ==
    ASSUME IInv, NEW in \in Inputs, NEW gap \in StepGaps, Step(in, gap)
    PROVE  /\ IInv'
           /\ Steady(PauseClock(sm, in.presence, cfg, gap), sm')
<1> DEFINE t == now + gap
           h == JudgeHeat(heat, in, cfg, t)
           k == UpdateTier(tier, h.active, in, cfg, t)
           b == ReturnTimer(back, in.presence, cfg, t)
           e == Facts(in, cfg, t, h, k, b)
           paused == PauseClock(sm, in.presence, cfg, gap)
           ready == AbsenceTimer(paused, e)
<1>1. in \in Input /\ gap \in Nat /\ now \in Nat /\ t \in Nat /\ now <= t
  BY InputsAssumption, ClockAssumption DEF IInv, TypeOK
<1>2. Sound(sm, now) /\ cfg \in Config /\ heat \in Heat /\ tier \in Tier /\ back \in Back
  BY DEF IInv, TypeOK, TimelineShape, StartsInThePast, Sound
<1>3. /\ heat.cooling_since <= t /\ tier.pending_since <= t
      /\ back.since <= t /\ back.last <= t
  BY <1>1 DEF IInv, TypeOK, StartsInThePast, Heat, Tier, Back
<1>4. /\ now' = t /\ cfg' = cfg
      /\ heat' = h /\ tier' = k /\ back' = b /\ sm' = Settle(ready, e).sm
  BY DEF Step, Outcome, Prepared
<1>5. Sound(paused, t)
  BY <1>1, <1>2, PauseClockSound
<1> HIDE DEF t, paused
<1>6. h \in Heat /\ h.cooling_since <= t
  BY <1>1, <1>2, <1>3, JudgeHeatSound
<1>7. h.active \in BOOLEAN
  BY <1>6 DEF Heat
<1> HIDE DEF h
<1>8. k \in Tier /\ k.pending_since <= t
  BY <1>1, <1>2, <1>3, <1>7, UpdateTierSound
<1>9. b \in Back /\ b.since <= t /\ b.last <= t
  BY <1>1, <1>2, <1>3, ReturnTimerSound
<1> HIDE DEF k, b
<1>10. FactsAt(e, t)
  BY <1>1, <1>2, <1>8, FactsSound
<1> HIDE DEF e
<1>11. Sound(ready, t) /\ Steady(paused, ready)
  BY <1>5, <1>10, AbsenceTimerSound DEF Steady
<1> HIDE DEF ready
<1>12. Sound(sm', t) /\ Steady(paused, sm')
  BY <1>4, <1>10, <1>11, SettleSound, SteadyTrans
<1>13. IInv'
  BY <1>1, <1>2, <1>4, <1>6, <1>8, <1>9, <1>12
  DEF IInv, TypeOK, TimelineShape, StartsInThePast, Sound
<1> QED
  BY <1>12, <1>13 DEF paused

LEMMA InitSound == Init => IInv
<1> SUFFICES ASSUME Init
             PROVE  IInv
  OBVIOUS
<1>1. now \in Nat /\ cfg \in Config
  BY ConfigsAssumption DEF Init
<1>2. heat \in Heat /\ tier \in Tier /\ back \in Back
  BY ClockAssumption DEF Init, Heat, Tier, Back
<1>3. sm \in Machine
  BY DEF Init, Machine, States, Holds
<1>4. TimelineShape /\ StartsInThePast
  BY DEF Init, TimelineShape, Shape, StartsInThePast, Past
<1> QED
  BY <1>1, <1>2, <1>3, <1>4 DEF IInv, TypeOK

LEMMA NextSound == IInv /\ [Next]_vars => IInv'
<1> SUFFICES ASSUME IInv, [Next]_vars
             PROVE  IInv'
  OBVIOUS
<1>1. CASE \E in \in Inputs, gap \in StepGaps : Step(in, gap)
  BY <1>1, StepSound
<1>2. CASE \E c \in Configs : SameBuild(c, cfg) /\ SetConfig(c)
  <2>1. cfg' \in Config /\ UNCHANGED <<now, heat, tier, back, sm>>
    BY <1>2, ConfigsAssumption DEF SetConfig, IInv, TypeOK
  <2> QED
    BY <2>1 DEF IInv, TypeOK, TimelineShape, StartsInThePast
<1>3. CASE UNCHANGED vars
  BY <1>3 DEF vars, IInv, TypeOK, TimelineShape, StartsInThePast
<1> QED
  BY <1>1, <1>2, <1>3 DEF Next

LEMMA SpecSound == Spec => []IInv
BY InitSound, NextSound, PTL DEF Spec

\* Whatever is configured and read, every variable keeps its type: no timer
\* goes below zero, no tier leaves the table.
THEOREM TypeCorrect == Spec => []TypeOK
<1>1. IInv => TypeOK
  BY DEF IInv
<1> QED
  BY <1>1, SpecSound, PTL

\* The flags of the unattended timeline always agree with the state
\* (clear_unattended on every way out, start_unattended on every way in).
THEOREM ShapeKept == Spec => []TimelineShape
<1>1. IInv => TimelineShape
  BY DEF IInv
<1> QED
  BY <1>1, SpecSound, PTL

\* No pause, no later() and no transition ever puts a start ahead of the clock,
\* so no elapsed() of the code reads a negative age.
THEOREM NoStartAhead == Spec => []StartsInThePast
<1>1. IInv => StartsInThePast
  BY DEF IInv
<1> QED
  BY <1>1, SpecSound, PTL

-----------------------------------------------------------------------------
(* The account of the pauses. *)

HInv == IInv /\ PauseAccounted /\ hist.began \in Nat

LEMMA HInitSound == HInit => HInv
BY InitSound DEF HInit, Init, HInv, PauseAccounted

LEMMA HStepSound ==
    ASSUME HInv, NEW in \in Inputs, NEW gap \in StepGaps, HStep(in, gap)
    PROVE  HInv'
<1> DEFINE paused == PauseClock(sm, in.presence, cfg, gap)
           anew == ~sm.unattended_active \/ Reopened(paused)
<1>1. IInv' /\ Steady(paused, sm')
  BY StepSound DEF HInv, HStep
<1>2. sm \in Machine /\ Shape(sm) /\ sm' \in Machine
  BY <1>1 DEF HInv, IInv, TypeOK, TimelineShape
<1>3. /\ paused \in Machine
      /\ paused.unattended_start - paused.pause_used = sm.unattended_start - sm.pause_used
      /\ ~sm.unattended_active => paused = sm
  <2>1. Sound(sm, now) /\ now \in Nat /\ gap \in Nat /\ cfg \in Config
    BY ClockAssumption DEF HInv, IInv, TypeOK, TimelineShape, StartsInThePast, Sound
  <2> QED
    BY <2>1, PauseClockSound DEF Sound
<1>4. hist'.began = IF sm'.unattended_active /\ anew THEN sm'.unattended_start ELSE hist.began
  BY DEF HStep
<1> HIDE DEF paused
<1>5. CASE sm'.unattended_active /\ anew
  <2>1. sm'.pause_used = 0
    <3>1. CASE ~sm.unattended_active
      BY <1>1, <1>2, <1>3, <3>1 DEF Shape, Steady
    <3>2. CASE Reopened(paused)
      BY <1>1, <1>2, <1>3, <3>2 DEF Reopened, Steady, Machine
    <3> QED
      BY <1>5, <3>1, <3>2
  <2> QED
    BY <1>1, <1>2, <1>4, <1>5, <2>1 DEF HInv, PauseAccounted, Machine
<1>6. CASE sm'.unattended_active /\ ~anew
  <2>1. sm.unattended_active /\ sm'.unattended_start = paused.unattended_start
        /\ ~(sm'.pause_used < paused.pause_used)
    BY <1>6 DEF Reopened
  <2>2. sm'.pause_used = paused.pause_used
    BY <1>1, <1>2, <1>3, <2>1 DEF Steady, Machine
  <2>3. sm.unattended_start = hist.began + sm.pause_used /\ hist'.began = hist.began
    BY <1>4, <1>6, <2>1 DEF HInv, PauseAccounted
  <2> QED
    BY <1>1, <1>2, <1>3, <2>1, <2>2, <2>3 DEF HInv, PauseAccounted, Machine
<1>7. CASE ~sm'.unattended_active
  BY <1>1, <1>4, <1>7 DEF HInv, PauseAccounted
<1> QED
  BY <1>5, <1>6, <1>7

LEMMA HNextSound == HInv /\ [HNext]_wvars => HInv'
<1> SUFFICES ASSUME HInv, [HNext]_wvars
             PROVE  HInv'
  OBVIOUS
<1>1. CASE \E in \in Inputs, gap \in StepGaps : HStep(in, gap)
  BY <1>1, HStepSound
<1>2. CASE \E c \in Configs : SameBuild(c, cfg) /\ HSetConfig(c)
  <2>1. PICK c \in Configs : SameBuild(c, cfg) /\ HSetConfig(c)
    BY <1>2
  <2>2. Next
    BY <2>1 DEF HSetConfig, Next
  <2>3. IInv'
    BY <2>2, NextSound DEF HInv
  <2>4. sm' = sm /\ hist'.began = hist.began
    BY <2>1 DEF HSetConfig, SetConfig
  <2> QED
    BY <2>3, <2>4 DEF HInv, PauseAccounted
<1>3. CASE UNCHANGED wvars
  <2>1. UNCHANGED vars /\ UNCHANGED hist
    BY <1>3 DEF wvars
  <2>2. IInv'
    BY <2>1, NextSound DEF HInv
  <2> QED
    BY <2>1, <2>2 DEF HInv, PauseAccounted, vars
<1> QED
  BY <1>1, <1>2, <1>3 DEF HNext

\* The countdown's start is where it began plus exactly what was paused, in
\* every configuration and through every change of one: the pauses delay a
\* buzzer or a shutdown by what pause_used says and never by more.
THEOREM PausesAccounted == HSpec => []PauseAccounted
<1>1. HInv => PauseAccounted
  BY DEF HInv
<1> QED
  BY <1>1, HInitSound, HNextSound, PTL DEF HSpec

-----------------------------------------------------------------------------
(***************************************************************************)
(* The clock.  A difference of two instants in a word that wraps around is   *)
(* never more than the true one, and is the true one while that fits.       *)
(***************************************************************************)
LEMMA ElapsedReal ==
    ASSUME NEW t \in Nat, NEW since \in Nat, NEW x \in Nat, since <= t,
           Elapsed(t, since, x)
    PROVE  t - since >= x
<1>1. (t - since) % Wrap <= t - since
  BY ClockAssumption
<1> QED
  BY <1>1, ClockAssumption DEF Elapsed

LEMMA ElapsedFits ==
    ASSUME NEW t \in Nat, NEW since \in Nat, NEW x \in Nat, since <= t,
           t - since < Wrap
    PROVE  Elapsed(t, since, x) <=> t - since >= x
<1>1. (t - since) % Wrap = t - since
  BY ClockAssumption
<1> QED
  BY <1>1 DEF Elapsed

LEMMA ElapsedNow ==
    ASSUME NEW t \in Nat, NEW x \in Nat, Elapsed(t, t, x)
    PROVE  x = 0
  BY ElapsedReal

\* While ages stay below half the word, later() is what its name says.
LEMMA LaterFits ==
    ASSUME NEW a \in Nat, NEW b \in Nat, a - b < Wrap \div 2, b - a <= Wrap \div 2
    PROVE  Later(a, b) = Max2(a, b)
<1>1. CASE a = b
  BY <1>1, ClockAssumption DEF Later, Max2
<1>2. CASE b < a
  <2>1. (a - b) % Wrap = a - b
    BY <1>2, ClockAssumption
  <2> QED
    BY <1>2, <2>1 DEF Later, Max2
<1>3. CASE a < b
  <2>1. (a - b) % Wrap = Wrap - (b - a)
    BY <1>3, ClockAssumption
  <2> QED
    BY <1>3, <2>1, ClockAssumption DEF Later, Max2
<1> QED
  BY <1>1, <1>2, <1>3

-----------------------------------------------------------------------------
(***************************************************************************)
(* What one pass may do, told by the states alone: which transitions are     *)
(* legal, what they make of the timeline, and when the machine rests.       *)
(***************************************************************************)
Legal(s, to, e) ==
    \/ s.state = "BOOT" /\ to = "SELF_TEST"
    \/ s.state = "SELF_TEST" /\ to = "IDLE" /\ e.self_test = "pass"
    \/ s.state = "SELF_TEST" /\ to = "FAULT" /\ e.self_test # "pass"
    \/ s.state \in Running /\ to = "FAULT" /\ ~SystemOk(e)
    \/ /\ SystemOk(e)
       /\ \/ s.state = "IDLE" /\ to = "MONITORING" /\ e.cooking
          \/ s.state = "MONITORING" /\ to = "IDLE" /\ ~e.cooking
          \/ s.state = "MONITORING" /\ to = "UNATTENDED" /\ e.cooking /\ AbsentConfirmed(s, e)
          \/ s.state \in {"UNATTENDED", "WARNING"} /\ to = "MONITORING" /\ e.person_returned
          \/ s.state \in {"UNATTENDED", "WARNING"} /\ to = "IDLE" /\ CooledDown(e)
          \/ s.state = "UNATTENDED" /\ to = "WARNING" /\ WarningDue(s, e)
          \/ /\ s.state = "WARNING" /\ to = "SHUTDOWN" /\ ShutdownDue(s, e)
             /\ s.held_once => Elapsed(e.t, s.state_entered, e.cfg.warning_min_after_hold)
          \/ s.state = "FAULT" /\ to = "IDLE" /\ ~e.cooking
          \/ s.state = "FAULT" /\ to = "MONITORING" /\ e.cooking /\ e.presence = "present"
          \/ s.state = "FAULT" /\ to = "UNATTENDED" /\ e.cooking
    \/ s.state = "SHUTDOWN" /\ to = "IDLE" /\ e.reset_request
    \/ /\ s.state = "FAULT" /\ to = "SHUTDOWN" /\ ~SystemOk(e)
       /\ \/ ShutdownDue(s, e)
          \/ e.cfg.fault_shutdown > 0 /\ Elapsed(e.t, s.state_entered, e.cfg.fault_shutdown)

\* The start of a countdown that a transition opens.
Opening(s, t) ==
    IF s.state = "FAULT" THEN s.state_entered
    ELSE IF s.absent_timing THEN Later(s.absent_since, s.monitoring_since) ELSE t

Moved(s, r, t) ==
    /\ r.state_entered = t
    /\ r.monitoring_since = IF r.state = "MONITORING" THEN t ELSE s.monitoring_since
    /\ r.absent_timing = s.absent_timing
    /\ r.absent_since = IF s.state = "SHUTDOWN" /\ s.absent_timing THEN t ELSE s.absent_since
    /\ r.state \in {"IDLE", "MONITORING"} => ~r.unattended_active
    /\ r.state \notin {"IDLE", "MONITORING"} =>
          /\ r.pause_used = s.pause_used
          /\ s.held_once => r.held_once
          /\ s.unattended_active => SameFall(s, r)
          /\ r.unattended_active = (s.unattended_active \/ r.state = "UNATTENDED")
          /\ r.unattended_start = IF r.unattended_active /\ ~s.unattended_active
                                  THEN Opening(s, t) ELSE s.unattended_start
          /\ r.warning_started = (s.warning_started \/ r.state = "WARNING")
          /\ r.warning_start = IF r.warning_started /\ ~s.warning_started
                               THEN t ELSE s.warning_start

AtRest(s, e) == Fires(s, e) = {}

\* The guards that work out no hold read nothing that working one out changes.
LEMMA PlainGuard ==
    ASSUME NEW s, NEW x, NEW e, NEW r \in Rule \ HoldRules, SameTimeline(s, x)
    PROVE  Guard(r, s, e) <=> Guard(r, x, e)
BY DEF Guard, SameTimeline, ShutdownDue, Rule, HoldRules

\* Rules of a state that work out a hold come last.
LEMMA HoldRulesLast ==
    ASSUME NEW r \in Rule \ HoldRules, NEW q \in HoldRules, NEW st, st \in From[r], st \in From[q]
    PROVE  r < q
BY DEF Rule, HoldRules, From, Running

LEMMA OneHoldRule ==
    ASSUME NEW r \in HoldRules, NEW q \in HoldRules, NEW st, st \in From[r], st \in From[q]
    PROVE  r = q
BY DEF HoldRules, From

\* The first rule of the state whose guard holds, in the machine its guard saw.
First(r, x, e) == r \in Fires(x, e) /\ \A q \in Fires(x, e) : r <= q

LEMMA FreshSame ==
    ASSUME NEW s, NEW t, NEW e, Sound(s, t), FactsAt(e, t)
    PROVE  LET fresh == [s EXCEPT !.hold = "none", !.eff_shutdown = e.eff_shutdown]
           IN  Sound(fresh, t) /\ SameTimeline(s, fresh) /\ fresh.eff_shutdown = e.eff_shutdown
<1> DEFINE fresh == [s EXCEPT !.hold = "none", !.eff_shutdown = e.eff_shutdown]
<1>1. e.eff_shutdown \in Nat /\ "none" \in Holds
  BY DEF FactsAt, Holds
<1>2. fresh \in Machine
  BY <1>1, Zenon DEF Sound, Machine
<1>3. Shape(fresh) /\ Past(fresh, t) /\ SameTimeline(s, fresh) /\ fresh.eff_shutdown = e.eff_shutdown
  BY DEF Sound, Machine, Shape, Past, SameTimeline, SameFall
<1> QED
  BY <1>2, <1>3 DEF Sound

LEMMA SameTimelineTrans ==
    ASSUME NEW s, NEW r, NEW q, SameTimeline(s, r), SameTimeline(r, q)
    PROVE  SameTimeline(s, q)
BY DEF SameTimeline, SameFall

LEMMA FirstRule ==
    ASSUME NEW s, NEW t, NEW e, Sound(s, t), FactsAt(e, t)
    PROVE  \E x : /\ Sound(x, t) /\ SameTimeline(s, x) /\ x.eff_shutdown = e.eff_shutdown
                  /\ \/ \E r \in Rule : First(r, x, e)
                                        /\ Evaluate(s, e) = [sm |-> Take(r, x, e), again |-> TRUE]
                     \/ AtRest(x, e) /\ Evaluate(s, e) = [sm |-> x, again |-> FALSE]
<1> DEFINE fresh == [s EXCEPT !.hold = "none", !.eff_shutdown = e.eff_shutdown]
           plain == Fires(fresh, e) \ HoldRules
           held == HoldBack(fresh, e)
           due == Fires(held, e) \cap HoldRules
<1>1. Sound(fresh, t) /\ SameTimeline(s, fresh) /\ fresh.eff_shutdown = e.eff_shutdown
  BY FreshSame
<1>2. Evaluate(s, e) =
        IF plain # {} THEN [sm |-> Take(Min(plain), fresh, e), again |-> TRUE]
        ELSE IF due # {} THEN [sm |-> Take(Min(due), held, e), again |-> TRUE]
        ELSE [sm |-> held, again |-> FALSE]
  BY DEF Evaluate
<1> HIDE DEF fresh
<1>3. CASE plain # {}
  <2>1. Min(plain) \in plain /\ \A y \in plain : Min(plain) <= y
    BY <1>3, MinLeast DEF Fires
  <2>2. ASSUME NEW q \in Fires(fresh, e) \cap HoldRules
        PROVE  Min(plain) <= q
    <3>1. Min(plain) < q
      BY <2>1, HoldRulesLast DEF Fires
    <3> QED
      BY <2>1, <3>1 DEF Fires, Rule
  <2>3. First(Min(plain), fresh, e) /\ Min(plain) \in Rule
    BY <2>1, <2>2 DEF First, Fires
  <2> QED
    BY <1>1, <1>2, <1>3, <2>3
<1>4. Sound(held, t) /\ SameTimeline(fresh, held) /\ held.eff_shutdown = e.eff_shutdown
  <2>1. Noted(fresh, held, t)
    BY <1>1, HoldBackNoted
  <2>2. held.eff_shutdown = fresh.eff_shutdown
    BY <1>1 DEF Sound, Machine, HoldBack, CheckFirst, UpdateHold, HoldReason, NoteFall, ReturnHold
  <2> QED
    BY <1>1, <2>1, <2>2, NotedSound DEF Noted
<1>5. plain = {} => Fires(held, e) \subseteq HoldRules
  BY <1>4, PlainGuard DEF Fires, SameTimeline
<1>6. SameTimeline(s, held)
  BY <1>1, <1>4, SameTimelineTrans
<1> HIDE DEF held
<1>7. CASE plain = {} /\ due # {}
  <2>1. Min(due) \in due
    BY <1>7, MinLeast DEF Fires
  <2>2. ASSUME NEW q \in Fires(held, e)
        PROVE  Min(due) = q
    BY <1>5, <1>7, <2>1, OneHoldRule DEF Fires
  <2>3. First(Min(due), held, e) /\ Min(due) \in Rule
    BY <2>1, <2>2 DEF First, Fires, Rule
  <2> QED
    BY <1>2, <1>4, <1>6, <1>7, <2>3
<1>8. CASE plain = {} /\ due = {}
  <2>1. AtRest(held, e)
    BY <1>5, <1>8 DEF AtRest
  <2> QED
    BY <1>2, <1>4, <1>6, <1>8, <2>1
<1> QED
  BY <1>3, <1>7, <1>8

\* The table of the rules, line by line.
LEMMA Table ==
    /\ From[1] = {"BOOT"} /\ To[1] = "SELF_TEST"
    /\ From[2] = {"SELF_TEST"} /\ From[3] = {"SELF_TEST"} /\ From[4] = {"SELF_TEST"}
    /\ To[2] = "FAULT" /\ To[3] = "IDLE" /\ To[4] = "FAULT"
    /\ From[5] = Running /\ From[6] = Running /\ To[5] = "FAULT" /\ To[6] = "FAULT"
    /\ From[7] = {"IDLE"} /\ To[7] = "MONITORING"
    /\ From[8] = {"MONITORING"} /\ From[9] = {"MONITORING"}
    /\ To[8] = "IDLE" /\ To[9] = "UNATTENDED"
    /\ From[10] = {"UNATTENDED"} /\ From[11] = {"UNATTENDED"} /\ From[12] = {"UNATTENDED"}
    /\ To[10] = "MONITORING" /\ To[11] = "IDLE" /\ To[12] = "WARNING"
    /\ From[13] = {"WARNING"} /\ From[14] = {"WARNING"} /\ From[15] = {"WARNING"}
    /\ To[13] = "MONITORING" /\ To[14] = "IDLE" /\ To[15] = "SHUTDOWN"
    /\ From[16] = {"SHUTDOWN"} /\ To[16] = "IDLE"
    /\ From[17] = {"FAULT"} /\ From[18] = {"FAULT"} /\ From[19] = {"FAULT"}
    /\ From[20] = {"FAULT"} /\ From[21] = {"FAULT"}
    /\ To[17] = "IDLE" /\ To[18] = "MONITORING" /\ To[19] = "UNATTENDED"
    /\ To[20] = "SHUTDOWN" /\ To[21] = "SHUTDOWN"
BY DEF From, To

LEMMA RuleNumbers ==
    ASSUME NEW r \in Rule
    PROVE  \/ r = 1 \/ r = 2 \/ r = 3 \/ r = 4 \/ r = 5 \/ r = 6 \/ r = 7 \/ r = 8 \/ r = 9
           \/ r = 10 \/ r = 11 \/ r = 12 \/ r = 13 \/ r = 14 \/ r = 15 \/ r = 16
           \/ r = 17 \/ r = 18 \/ r = 19 \/ r = 20 \/ r = 21
BY DEF Rule

\* What each guard asks, rule by rule.
LEMMA Guards ==
    ASSUME NEW s, NEW e
    PROVE  /\ Guard(2, s, e) <=> e.self_test = "fail"
           /\ Guard(3, s, e) <=> e.self_test = "pass"
           /\ Guard(4, s, e) <=> Elapsed(e.t, s.state_entered, e.cfg.self_test_timeout)
           /\ Guard(5, s, e) <=> e.self_test # "pass"
           /\ Guard(6, s, e) <=> e.safety_fault
           /\ Guard(7, s, e) <=> e.cooking
           /\ Guard(8, s, e) <=> ~e.cooking
           /\ Guard(9, s, e) <=> AbsentConfirmed(s, e) /\ s.hold = "none"
           /\ Guard(10, s, e) <=> e.person_returned
           /\ Guard(11, s, e) <=> CooledDown(e)
           /\ Guard(12, s, e) <=> WarningDue(s, e) /\ s.hold = "none"
           /\ Guard(13, s, e) <=>
                 e.person_returned /\ (e.cfg.warning_exit = "presence" \/ e.reset_request)
           /\ Guard(14, s, e) <=> CooledDown(e)
           /\ Guard(15, s, e) <=> /\ ShutdownDue(s, e) /\ s.hold = "none"
                                 /\ Elapsed(e.t, s.state_entered, Dwell(s, e))
           /\ Guard(16, s, e) <=> e.reset_request
           /\ Guard(17, s, e) <=> SystemOk(e) /\ ~e.cooking
           /\ Guard(18, s, e) <=> SystemOk(e) /\ e.presence = "present"
           /\ Guard(19, s, e) <=> SystemOk(e)
           /\ Guard(20, s, e) <=> ShutdownDue(s, e)
           /\ Guard(21, s, e) <=> /\ e.cfg.fault_shutdown > 0
                                 /\ Elapsed(e.t, s.state_entered, e.cfg.fault_shutdown)
<1>2. Guard(2, s, e) <=> e.self_test = "fail"
  BY DEF Guard
<1>3. Guard(3, s, e) <=> e.self_test = "pass"
  BY DEF Guard
<1>4. Guard(4, s, e) <=> Elapsed(e.t, s.state_entered, e.cfg.self_test_timeout)
  BY DEF Guard
<1>5. Guard(5, s, e) <=> e.self_test # "pass"
  BY DEF Guard
<1>6. Guard(6, s, e) <=> e.safety_fault
  BY DEF Guard
<1>7. Guard(7, s, e) <=> e.cooking
  BY DEF Guard
<1>8. Guard(8, s, e) <=> ~e.cooking
  BY DEF Guard
<1>9. Guard(9, s, e) <=> AbsentConfirmed(s, e) /\ s.hold = "none"
  BY DEF Guard
<1>10. Guard(10, s, e) <=> e.person_returned
  BY DEF Guard
<1>11. Guard(11, s, e) <=> CooledDown(e)
  BY DEF Guard
<1>12. Guard(12, s, e) <=> WarningDue(s, e) /\ s.hold = "none"
  BY DEF Guard
<1>13. Guard(13, s, e) <=> e.person_returned /\ (e.cfg.warning_exit = "presence" \/ e.reset_request)
  BY DEF Guard
<1>14. Guard(14, s, e) <=> CooledDown(e)
  BY DEF Guard
<1>15. Guard(15, s, e) <=> (ShutdownDue(s, e) /\ s.hold = "none" /\ Elapsed(e.t, s.state_entered, Dwell(s, e)))
  BY DEF Guard
<1>16. Guard(16, s, e) <=> e.reset_request
  BY DEF Guard
<1>17. Guard(17, s, e) <=> SystemOk(e) /\ ~e.cooking
  BY DEF Guard
<1>18. Guard(18, s, e) <=> SystemOk(e) /\ e.presence = "present"
  BY DEF Guard
<1>19. Guard(19, s, e) <=> SystemOk(e)
  BY DEF Guard
<1>20. Guard(20, s, e) <=> ShutdownDue(s, e)
  BY DEF Guard
<1>21. Guard(21, s, e) <=> (e.cfg.fault_shutdown > 0 /\ Elapsed(e.t, s.state_entered, e.cfg.fault_shutdown))
  BY DEF Guard
<1> QED
  BY <1>2, <1>3, <1>4, <1>5, <1>6, <1>7, <1>8, <1>9, <1>10, <1>11, <1>12, <1>13, <1>14, <1>15, <1>16, <1>17, <1>18, <1>19, <1>20, <1>21

\* A first rule makes a legal transition: the rules before it have not fired.
LEMMA FirstLegal ==
    ASSUME NEW s, NEW t, NEW e, NEW r \in Rule, Sound(s, t), FactsAt(e, t), First(r, s, e)
    PROVE  Legal(s, To[r], e)
<1>1. s.state \in From[r] /\ Guard(r, s, e)
  BY DEF First, Fires
<1>2. ASSUME NEW q \in Rule, q < r, s.state \in From[q]
      PROVE  ~Guard(q, s, e)
  BY <1>2 DEF First, Fires, Rule
<1>3. CASE r = 1
  BY <1>1, <1>3, Table DEF Legal
<1>4. CASE r = 2
  BY <1>1, <1>4, Table, Guards DEF Legal
<1>5. CASE r = 3
  BY <1>1, <1>5, Table, Guards DEF Legal
<1>6. CASE r = 4
  <2>1. ~Guard(3, s, e)
    BY <1>1, <1>2, <1>6, Table DEF Rule
  <2> QED
    BY <1>1, <1>6, <2>1, Table, Guards DEF Legal
<1>7. CASE r \in {5, 6}
  <2>1. ~SystemOk(e)
    BY <1>1, <1>7, Guards DEF SystemOk
  <2> QED
    BY <1>1, <1>7, <2>1, Table DEF Legal
<1>8. ASSUME r \in 7..15
      PROVE  SystemOk(e) /\ s.state \in Running
  <2>1. s.state \in Running
    BY <1>1, <1>8, Table DEF Running
  <2>2. ~Guard(5, s, e) /\ ~Guard(6, s, e)
    BY <1>2, <1>8, <2>1, Table DEF Rule
  <2> QED
    BY <2>1, <2>2, Guards DEF SystemOk
<1>9. CASE r = 7
  BY <1>1, <1>8, <1>9, Table, Guards DEF Legal
<1>10. CASE r = 8
  BY <1>1, <1>8, <1>10, Table, Guards DEF Legal
<1>11. CASE r = 9
  <2>1. ~Guard(8, s, e)
    BY <1>1, <1>2, <1>11, Table DEF Rule
  <2> QED
    BY <1>1, <1>8, <1>11, <2>1, Table, Guards DEF Legal
<1>12. CASE r = 10
  BY <1>1, <1>8, <1>12, Table, Guards DEF Legal
<1>13. CASE r = 11
  BY <1>1, <1>8, <1>13, Table, Guards DEF Legal
<1>14. CASE r = 12
  BY <1>1, <1>8, <1>14, Table, Guards DEF Legal
<1>15. CASE r = 13
  BY <1>1, <1>8, <1>15, Table, Guards DEF Legal
<1>16. CASE r = 14
  BY <1>1, <1>8, <1>16, Table, Guards DEF Legal
<1>17. CASE r = 15
  <2>1. ShutdownDue(s, e) /\ Elapsed(e.t, s.state_entered, Dwell(s, e))
    BY <1>1, <1>17, Guards
  <2>2. s.held_once => Elapsed(e.t, s.state_entered, e.cfg.warning_min_after_hold)
    BY <2>1 DEF Dwell
  <2> QED
    BY <1>1, <1>8, <1>17, <2>1, <2>2, Table DEF Legal
<1>18. CASE r = 16
  BY <1>1, <1>18, Table, Guards DEF Legal
<1>19. CASE r = 17
  BY <1>1, <1>19, Table, Guards DEF Legal
<1>20. CASE r = 18
  <2>1. ~Guard(17, s, e)
    BY <1>1, <1>2, <1>20, Table DEF Rule
  <2> QED
    BY <1>1, <1>20, <2>1, Table, Guards DEF Legal
<1>21. CASE r = 19
  <2>1. ~Guard(17, s, e)
    BY <1>1, <1>2, <1>21, Table DEF Rule
  <2> QED
    BY <1>1, <1>21, <2>1, Table, Guards DEF Legal
<1>22. CASE r \in {20, 21}
  <2>1. ~Guard(19, s, e)
    BY <1>1, <1>2, <1>22, Table DEF Rule
  <2>2. s.state = "FAULT" /\ To[r] = "SHUTDOWN"
    BY <1>1, <1>22, Table
  <2>3. \/ ShutdownDue(s, e)
        \/ e.cfg.fault_shutdown > 0 /\ Elapsed(e.t, s.state_entered, e.cfg.fault_shutdown)
    BY <1>1, <1>22, Guards
  <2>4. ~SystemOk(e)
    BY <2>1, Guards
  <2> QED
    BY <2>2, <2>3, <2>4 DEF Legal
<1> QED
  BY <1>3, <1>4, <1>5, <1>6, <1>7, <1>9, <1>10, <1>11, <1>12, <1>13, <1>14, <1>15, <1>16,
     <1>17, <1>18, <1>19, <1>20, <1>21, <1>22, RuleNumbers

\* The fields of the timeline that a transition to a state may rewrite.
SameRecord(s, m) ==
    /\ m.monitoring_since = s.monitoring_since
    /\ m.absent_timing = s.absent_timing /\ m.absent_since = s.absent_since
    /\ m.unattended_active = s.unattended_active
    /\ m.unattended_start = s.unattended_start
    /\ m.warning_started = s.warning_started /\ m.warning_start = s.warning_start
    /\ m.pause_used = s.pause_used /\ m.held_once = s.held_once
    /\ m.falling_hold_started = s.falling_hold_started
    /\ m.falling_hold_since = s.falling_hold_since

LEMMA ClearedFields ==
    ASSUME NEW s, s \in Machine
    PROVE  LET r == ClearUnattended(s)
           IN  /\ r \in Machine /\ r.state = s.state /\ r.state_entered = s.state_entered
               /\ r.monitoring_since = s.monitoring_since
               /\ r.absent_timing = s.absent_timing /\ r.absent_since = s.absent_since
               /\ ~r.unattended_active
<1> DEFINE r == ClearUnattended(s)
<1>1. r \in Machine
  <2>1. 0 \in Nat
    OBVIOUS
  <2> QED
    BY <2>1, Zenon DEF ClearUnattended, Machine
<1>2. /\ r.state = s.state /\ r.state_entered = s.state_entered
      /\ r.monitoring_since = s.monitoring_since
      /\ r.absent_timing = s.absent_timing /\ r.absent_since = s.absent_since
      /\ ~r.unattended_active
  BY DEF ClearUnattended, Machine
<1> QED
  BY <1>1, <1>2

LEMMA TransitionMoved ==
    ASSUME NEW s, NEW t, NEW e, NEW to \in States, s \in Machine, FactsAt(e, t),
           s.state = "SHUTDOWN" => to = "IDLE",
           to = "UNATTENDED" => s.unattended_active \/ s.state # "FAULT"
    PROVE  Moved(s, Transition(s, to, e), t) /\ Transition(s, to, e).state = to
<1> DEFINE x == OnExit(s, e)
           m == [x EXCEPT !.state = to, !.state_entered = e.t]
           r == Transition(s, to, e)
<1> SUFFICES Moved(s, r, t) /\ r.state = to
  OBVIOUS
<1>1. r = OnEnter(m, e) /\ e.t = t /\ t \in Nat
  BY DEF Transition, FactsAt
<1>2. s.state # "SHUTDOWN" => x = s
  BY DEF OnExit
<1>3. /\ x \in Machine /\ x.monitoring_since = s.monitoring_since
      /\ x.absent_timing = s.absent_timing
      /\ x.absent_since = IF s.state = "SHUTDOWN" /\ s.absent_timing THEN t ELSE s.absent_since
  <2>1. CASE s.state # "SHUTDOWN"
    BY <1>2, <2>1
  <2>2. CASE s.state = "SHUTDOWN"
    <3> DEFINE c == ClearUnattended(s)
               away == IF s.absent_timing THEN t ELSE c.absent_since
    <3>1. c \in Machine /\ c.monitoring_since = s.monitoring_since
          /\ c.absent_timing = s.absent_timing /\ c.absent_since = s.absent_since
      BY ClearedFields
    <3>2. x = [c EXCEPT !.absent_since = away]
      BY <1>1, <2>2 DEF OnExit
    <3> HIDE DEF x, c
    <3> QED
      BY <1>1, <2>2, <3>1, <3>2 DEF Machine
  <2> QED
    BY <2>1, <2>2
<1> HIDE DEF x
<1>4. m \in Machine /\ m.state = to /\ m.state_entered = t /\ SameRecord(x, m)
  BY <1>1, <1>3 DEF Machine, SameRecord
<1> HIDE DEF m
<1>5. CASE to = "IDLE"
  <2>1. r = ClearUnattended(m)
    BY <1>1, <1>4, <1>5 DEF OnEnter
  <2> HIDE DEF r
  <2> QED
    BY <1>3, <1>4, <1>5, <2>1, ClearedFields DEF Moved, SameRecord, SameFall
<1>6. CASE to = "MONITORING"
  <2> DEFINE c == ClearUnattended(m)
  <2>1. r = [c EXCEPT !.monitoring_since = t]
    BY <1>1, <1>4, <1>6 DEF OnEnter
  <2>2. /\ c \in Machine /\ c.state = to /\ c.state_entered = t
        /\ c.absent_timing = m.absent_timing /\ c.absent_since = m.absent_since
        /\ ~c.unattended_active
    BY <1>4, ClearedFields
  <2> HIDE DEF r, c
  <2>3. /\ r.state = to /\ r.state_entered = t /\ r.monitoring_since = t
        /\ r.absent_timing = m.absent_timing /\ r.absent_since = m.absent_since
        /\ ~r.unattended_active
    BY <2>1, <2>2 DEF Machine
  <2> QED
    BY <1>3, <1>4, <1>6, <2>3 DEF Moved, SameRecord, SameFall
<1>7. to \notin {"IDLE", "MONITORING"} => SameRecord(s, m)
  BY <1>2, <1>4
<1>8. CASE to = "UNATTENDED"
  <2>1. r = StartUnattended(m, e)
    BY <1>1, <1>4, <1>8 DEF OnEnter
  <2> HIDE DEF r
  <2>2. CASE m.unattended_active
    <3>1. r = m
      BY <2>1, <2>2 DEF StartUnattended
    <3> QED
      BY <1>3, <1>4, <1>7, <1>8, <2>2, <3>1 DEF Moved, SameRecord, Machine, SameFall
  <2>3. CASE ~m.unattended_active
    <3> DEFINE start == IF m.absent_timing THEN Later(m.absent_since, m.monitoring_since) ELSE t
               once == m.held_once \/ (m.checking /\ m.falling_hold_started)
    <3>1. r = [m EXCEPT !.unattended_active = TRUE, !.unattended_start = start,
                        !.held_once = once, !.checking = FALSE]
      BY <1>1, <2>1, <2>3 DEF StartUnattended
    <3>2. start = Opening(s, t)
      BY <1>7, <1>8, <2>3 DEF Opening, SameRecord
    <3>3. m.held_once => once
      OBVIOUS
    <3> HIDE DEF start, once
    <3>4. /\ r.state = to /\ r.state_entered = t /\ r.monitoring_since = m.monitoring_since
          /\ r.absent_timing = m.absent_timing /\ r.absent_since = m.absent_since
          /\ r.unattended_active /\ r.unattended_start = start
          /\ r.warning_started = m.warning_started /\ r.warning_start = m.warning_start
          /\ r.pause_used = m.pause_used /\ r.held_once = once
          /\ r.falling_hold_started = m.falling_hold_started
          /\ r.falling_hold_since = m.falling_hold_since
      BY <1>4, <3>1 DEF Machine
    <3>5. m.warning_started \in BOOLEAN
      BY <1>4 DEF Machine
    <3>6. SameRecord(s, m)
      BY <1>7, <1>8
    <3> QED
      BY <1>3, <1>8, <2>3, <3>2, <3>3, <3>4, <3>5, <3>6 DEF Moved, SameRecord, SameFall
  <2> QED
    BY <2>2, <2>3
<1>9. CASE to = "WARNING"
  <2>1. r = StartWarning(m, e)
    BY <1>1, <1>4, <1>9 DEF OnEnter
  <2> HIDE DEF r
  <2>2. /\ r.state = to /\ r.state_entered = t /\ r.monitoring_since = m.monitoring_since
        /\ r.absent_timing = m.absent_timing /\ r.absent_since = m.absent_since
        /\ r.unattended_active = m.unattended_active /\ r.unattended_start = m.unattended_start
        /\ r.warning_started /\ r.pause_used = m.pause_used /\ r.held_once = m.held_once
        /\ r.warning_start = IF m.warning_started THEN m.warning_start ELSE t
        /\ r.falling_hold_started = m.falling_hold_started
        /\ r.falling_hold_since = m.falling_hold_since
    BY <1>1, <1>4, <2>1 DEF StartWarning, Machine
  <2>3. SameFall(s, r)
    BY <1>7, <1>9, <2>2 DEF SameRecord, SameFall
  <2>4. m.unattended_active \in BOOLEAN /\ m.warning_started \in BOOLEAN
    BY <1>4 DEF Machine
  <2> QED
    BY <1>3, <1>4, <1>7, <1>9, <2>2, <2>3, <2>4 DEF Moved, SameRecord
<1>10. CASE to \in {"BOOT", "SELF_TEST", "SHUTDOWN", "FAULT"}
  <2>1. r = m
    BY <1>1, <1>4, <1>10 DEF OnEnter
  <2> HIDE DEF r
  <2> QED
    BY <1>3, <1>4, <1>7, <1>10, <2>1 DEF Moved, SameRecord, Machine, SameFall
<1> QED
  BY <1>5, <1>6, <1>8, <1>9, <1>10 DEF States

\* What a rule does to the state and the timeline, its action included.
LEMMA TakeMoved ==
    ASSUME NEW s, NEW t, NEW e, NEW r \in Rule, Sound(s, t), FactsAt(e, t), s.state \in From[r]
    PROVE  Moved(s, Take(r, s, e), t) /\ Take(r, s, e).state = To[r]
<1> DEFINE a == RuleAction(r, s, e)
<1>1. To[r] \in States /\ (s.state = "SHUTDOWN" => To[r] = "IDLE")
  BY RuleTable, RuleNumbers, Table DEF Running
<1>2. To[r] = "UNATTENDED" => r = 9 \/ r = 19
  BY RuleNumbers, Table
<1>3. Take(r, s, e) = Transition(a, To[r], e) /\ s \in Machine
  BY DEF Take, Sound
<1>4. CASE r = 12
  <2>1. a = [s EXCEPT !.late_warning = ShutdownDue(s, e)]
    BY <1>4 DEF RuleAction
  <2>2. ShutdownDue(s, e) \in BOOLEAN
    BY DEF ShutdownDue, Elapsed, Sound, Machine
  <2>3. a \in Machine
    BY <1>3, <2>1, <2>2, Zenon DEF Machine
  <2>4. /\ a.state = s.state /\ a.absent_timing = s.absent_timing
        /\ a.absent_since = s.absent_since /\ a.monitoring_since = s.monitoring_since
        /\ a.unattended_active = s.unattended_active /\ a.unattended_start = s.unattended_start
        /\ a.warning_started = s.warning_started /\ a.warning_start = s.warning_start
        /\ a.pause_used = s.pause_used /\ a.held_once = s.held_once
        /\ a.state_entered = s.state_entered
        /\ a.falling_hold_started = s.falling_hold_started
        /\ a.falling_hold_since = s.falling_hold_since
    BY <1>3, <2>1 DEF Machine
  <2> HIDE DEF a
  <2>5. Moved(a, Transition(a, To[r], e), t) /\ Transition(a, To[r], e).state = To[r]
    BY <1>1, <1>2, <1>4, <2>3, <2>4, TransitionMoved
  <2> QED
    BY <1>3, <2>4, <2>5 DEF Moved, Opening, SameFall
<1>5. CASE r = 19 /\ ~s.unattended_active
  <2>1. a = [s EXCEPT !.unattended_active = TRUE, !.unattended_start = s.state_entered]
    BY <1>5 DEF RuleAction
  <2>2. a \in Machine
    BY <1>3, <2>1 DEF Machine
  <2>3. /\ a.state = s.state /\ a.absent_timing = s.absent_timing
        /\ a.absent_since = s.absent_since /\ a.monitoring_since = s.monitoring_since
        /\ a.unattended_active /\ a.unattended_start = s.state_entered
        /\ a.warning_started = s.warning_started /\ a.warning_start = s.warning_start
        /\ a.pause_used = s.pause_used /\ a.held_once = s.held_once
        /\ a.state_entered = s.state_entered
        /\ a.falling_hold_started = s.falling_hold_started
        /\ a.falling_hold_since = s.falling_hold_since
    BY <1>3, <2>1 DEF Machine
  <2> HIDE DEF a
  <2>4. Moved(a, Transition(a, To[r], e), t) /\ Transition(a, To[r], e).state = To[r]
    BY <1>1, <2>2, <2>3, TransitionMoved
  <2>5. s.state = "FAULT" /\ To[r] = "UNATTENDED"
    BY <1>5, Table
  <2> QED
    BY <1>3, <1>5, <2>3, <2>4, <2>5 DEF Moved, Opening, SameFall
<1>6. CASE r # 12 /\ (r # 19 \/ s.unattended_active)
  <2>1. a = s
    BY <1>6 DEF RuleAction
  <2>2. To[r] = "UNATTENDED" => s.unattended_active \/ s.state # "FAULT"
    BY <1>2, <1>6, Table
  <2> QED
    BY <1>1, <1>3, <2>1, <2>2, TransitionMoved
<1> QED
  BY <1>4, <1>5, <1>6

\* Where the machine comes to rest, nothing is due.
LEMMA RestFacts ==
    ASSUME NEW s, NEW e, s.state \in States, AtRest(s, e)
    PROVE  /\ s.state # "BOOT"
           /\ s.state = "SELF_TEST" =>
                 /\ e.self_test \notin {"pass", "fail"}
                 /\ ~Elapsed(e.t, s.state_entered, e.cfg.self_test_timeout)
           /\ s.state \in Running => SystemOk(e)
           /\ s.state = "IDLE" => ~e.cooking
           /\ s.state = "MONITORING" =>
                 e.cooking /\ ~(AbsentConfirmed(s, e) /\ s.hold = "none")
           /\ s.state = "UNATTENDED" =>
                 ~e.person_returned /\ ~(WarningDue(s, e) /\ s.hold = "none")
           /\ s.state = "WARNING" =>
                 ~(ShutdownDue(s, e) /\ s.hold = "none"
                   /\ Elapsed(e.t, s.state_entered, Dwell(s, e)))
           /\ s.state = "SHUTDOWN" => ~e.reset_request
           /\ s.state = "FAULT" =>
                 /\ ~SystemOk(e) /\ ~ShutdownDue(s, e)
                 /\ ~(e.cfg.fault_shutdown > 0
                      /\ Elapsed(e.t, s.state_entered, e.cfg.fault_shutdown))
<1>1. ASSUME NEW r \in Rule, s.state \in From[r]
      PROVE  ~Guard(r, s, e)
  BY <1>1 DEF AtRest, Fires
<1>2. s.state # "BOOT"
  <2>1. Guard(1, s, e)
    BY DEF Guard
  <2> QED
    BY <1>1, <2>1, Table DEF Rule
<1>3. CASE s.state = "SELF_TEST"
  <2>1. ~Guard(2, s, e) /\ ~Guard(3, s, e) /\ ~Guard(4, s, e)
    BY <1>1, <1>3, Table DEF Rule
  <2> QED
    BY <1>3, <2>1, Guards DEF Running
<1>4. ASSUME s.state \in Running
      PROVE  SystemOk(e)
  <2>1. ~Guard(5, s, e) /\ ~Guard(6, s, e)
    BY <1>1, <1>4, Table DEF Rule
  <2> QED
    BY <2>1, Guards DEF SystemOk
<1>5. CASE s.state = "IDLE"
  <2>1. ~Guard(7, s, e)
    BY <1>1, <1>5, Table DEF Rule
  <2> QED
    BY <1>4, <1>5, <2>1, Guards DEF Running
<1>6. CASE s.state = "MONITORING"
  <2>1. ~Guard(8, s, e) /\ ~Guard(9, s, e)
    BY <1>1, <1>6, Table DEF Rule
  <2> QED
    BY <1>4, <1>6, <2>1, Guards DEF Running
<1>7. CASE s.state = "UNATTENDED"
  <2>1. ~Guard(10, s, e) /\ ~Guard(12, s, e)
    BY <1>1, <1>7, Table DEF Rule
  <2> QED
    BY <1>4, <1>7, <2>1, Guards DEF Running
<1>8. CASE s.state = "WARNING"
  <2>1. ~Guard(15, s, e)
    BY <1>1, <1>8, Table DEF Rule
  <2> QED
    BY <1>4, <1>8, <2>1, Guards DEF Running
<1>9. CASE s.state = "SHUTDOWN"
  <2>1. ~Guard(16, s, e)
    BY <1>1, <1>9, Table DEF Rule
  <2> QED
    BY <1>9, <2>1, Guards DEF Running
<1>10. CASE s.state = "FAULT"
  <2>1. ~Guard(19, s, e) /\ ~Guard(20, s, e) /\ ~Guard(21, s, e)
    BY <1>1, <1>10, Table DEF Rule
  <2> QED
    BY <1>10, <2>1, Guards DEF Running
<1> QED
  BY <1>2, <1>3, <1>5, <1>6, <1>7, <1>8, <1>9, <1>10 DEF States

LEMMA LegalSame ==
    ASSUME NEW s, NEW x, NEW e, NEW to, SameTimeline(s, x), Legal(x, to, e)
    PROVE  Legal(s, to, e)
<1>1. /\ AbsentConfirmed(s, e) <=> AbsentConfirmed(x, e)
      /\ WarningDue(s, e) <=> WarningDue(x, e)
      /\ ShutdownDue(s, e) <=> ShutdownDue(x, e)
  BY DEF SameTimeline, AbsentConfirmed, WarningDue, ShutdownDue
<1>2. s.state = x.state /\ s.state_entered = x.state_entered /\ (s.held_once => x.held_once)
  BY DEF SameTimeline
<1> QED
  BY <1>1, <1>2 DEF Legal

LEMMA MovedSame ==
    ASSUME NEW s, NEW x, NEW r, NEW t, SameTimeline(s, x), Moved(x, r, t)
    PROVE  Moved(s, r, t)
BY DEF SameTimeline, Moved, Opening, SameFall

\* What a pass may be, told without its rules: a legal transition that moves the
\* timeline as its states say, or rest.
LEMMA PassMoves ==
    ASSUME NEW s, NEW t, NEW e, Sound(s, t), FactsAt(e, t)
    PROVE  LET p == Evaluate(s, e)
           IN  /\ Sound(p.sm, t)
               /\ \/ p.again = TRUE /\ Legal(s, p.sm.state, e) /\ Moved(s, p.sm, t)
                  \/ /\ p.again = FALSE /\ SameTimeline(s, p.sm) /\ AtRest(p.sm, e)
                     /\ p.sm.eff_shutdown = e.eff_shutdown
<1>1. PICK x : /\ Sound(x, t) /\ SameTimeline(s, x) /\ x.eff_shutdown = e.eff_shutdown
               /\ \/ \E r \in Rule : First(r, x, e)
                                     /\ Evaluate(s, e) = [sm |-> Take(r, x, e), again |-> TRUE]
                  \/ AtRest(x, e) /\ Evaluate(s, e) = [sm |-> x, again |-> FALSE]
  BY FirstRule
<1>2. CASE AtRest(x, e) /\ Evaluate(s, e) = [sm |-> x, again |-> FALSE]
  BY <1>1, <1>2
<1>3. ASSUME NEW r \in Rule, First(r, x, e),
             Evaluate(s, e) = [sm |-> Take(r, x, e), again |-> TRUE]
      PROVE  /\ Sound(Take(r, x, e), t)
             /\ Legal(s, Take(r, x, e).state, e) /\ Moved(s, Take(r, x, e), t)
  <2>1. x.state \in From[r]
    BY <1>3 DEF First, Fires
  <2>2. Sound(Take(r, x, e), t)
    BY <1>1, <2>1, TakeSound
  <2>3. Moved(x, Take(r, x, e), t) /\ Take(r, x, e).state = To[r]
    BY <1>1, <2>1, TakeMoved
  <2>4. Legal(x, To[r], e)
    BY <1>1, <1>3, FirstLegal
  <2> QED
    BY <1>1, <2>2, <2>3, <2>4, LegalSame, MovedSame
<1> QED
  BY <1>1, <1>2, <1>3

\* What every pass preserves, the passes of a step preserve.
LEMMA SettleIn ==
    ASSUME NEW Q, NEW s, NEW e, [sm |-> s, again |-> TRUE] \in Q,
           \A p \in Q : Pass(p, e) \in Q
    PROVE  Settle(s, e) \in Q
<1> DEFINE p0 == [sm |-> s, again |-> TRUE]
           p1 == Pass(p0, e)
           p2 == Pass(p1, e)
           p3 == Pass(p2, e)
           p4 == Pass(p3, e)
           p5 == Pass(p4, e)
           p6 == Pass(p5, e)
           p7 == Pass(p6, e)
           p8 == Pass(p7, e)
<1>1. Settle(s, e) = p8
  BY DEF Settle
<1>2. p1 \in Q
  OBVIOUS
<1> HIDE DEF p1
<1>3. p2 \in Q
  BY <1>2
<1> HIDE DEF p2
<1>4. p3 \in Q
  BY <1>3
<1> HIDE DEF p3
<1>5. p4 \in Q
  BY <1>4
<1> HIDE DEF p4
<1>6. p5 \in Q
  BY <1>5
<1> HIDE DEF p5
<1>7. p6 \in Q
  BY <1>6
<1> HIDE DEF p6
<1>8. p7 \in Q
  BY <1>7
<1> HIDE DEF p7
<1>9. p8 \in Q
  BY <1>8
<1> QED
  BY <1>1, <1>9

\* A set of machines that the transitions and the rest of the passes stay in
\* holds the machine a step leaves; if that came to rest, nothing is due.
LEMMA SettleClosed ==
    ASSUME NEW t, NEW e, FactsAt(e, t),
           NEW A, \A x \in A : Sound(x, t), NEW s \in A,
           \A x \in A : \A r \in Machine :
              Sound(r, t) /\ Legal(x, r.state, e) /\ Moved(x, r, t) => r \in A,
           \A x \in A : \A r \in Machine : Sound(r, t) /\ SameTimeline(x, r) => r \in A
    PROVE  /\ Settle(s, e).sm \in A /\ Settle(s, e).again \in BOOLEAN
           /\ ~Settle(s, e).again => /\ AtRest(Settle(s, e).sm, e)
                                     /\ Settle(s, e).sm.eff_shutdown = e.eff_shutdown
<1> DEFINE Q == {p \in [sm : A, again : BOOLEAN] :
                   ~p.again => AtRest(p.sm, e) /\ p.sm.eff_shutdown = e.eff_shutdown}
<1>1. [sm |-> s, again |-> TRUE] \in Q
  OBVIOUS
<1>2. ASSUME NEW p \in Q
      PROVE  Pass(p, e) \in Q
  <2>1. CASE p.again
    <3> DEFINE q == Evaluate(p.sm, e)
    <3>1. Pass(p, e) = q /\ p.sm \in A /\ Sound(p.sm, t)
      BY <2>1 DEF Pass
    <3>2. /\ Sound(q.sm, t)
          /\ \/ q.again = TRUE /\ Legal(p.sm, q.sm.state, e) /\ Moved(p.sm, q.sm, t)
             \/ /\ q.again = FALSE /\ SameTimeline(p.sm, q.sm) /\ AtRest(q.sm, e)
                /\ q.sm.eff_shutdown = e.eff_shutdown
      BY <3>1, PassMoves
    <3>3. q = [sm |-> q.sm, again |-> q.again]
      BY DEF Evaluate
    <3> HIDE DEF q
    <3>4. q.sm \in Machine
      BY <3>2 DEF Sound
    <3>5. q.sm \in A
      BY <3>1, <3>2, <3>4
    <3>6. q \in [sm : A, again : BOOLEAN]
      BY <3>2, <3>3, <3>5
    <3> QED
      BY <3>1, <3>2, <3>6
  <2>2. CASE ~p.again
    BY <2>2 DEF Pass
  <2> QED
    BY <2>1, <2>2
<1> HIDE DEF Q
<1>3. Settle(s, e) \in Q
  BY <1>1, <1>2, SettleIn
<1> QED
  BY <1>3 DEF Q

-----------------------------------------------------------------------------
(* The parts of a step. *)

\* The facts a step reads, and the machine its first pass finds.
Read(in, gap) ==
    LET t == now + gap
        h == JudgeHeat(heat, in, cfg, t)
    IN  Facts(in, cfg, t, h, UpdateTier(tier, h.active, in, cfg, t),
              ReturnTimer(back, in.presence, cfg, t))

Ready(in, gap) == Prepared(sm, in, cfg, gap, Read(in, gap))

\* A configuration that safety_set_config lets through makes both waits last.
ValidFacts(e, t) ==
    /\ FactsAt(e, t)
    /\ e.cfg \in Config /\ SafetyConfigValid(e.cfg)
    /\ e.eff_warning \in Nat \ {0} /\ e.eff_shutdown \in Nat \ {0}

LEMMA WaitsLast ==
    ASSUME NEW c \in Config, SafetyConfigValid(c), NEW k \in 1..TopTier
    PROVE  EffWarning(c, k) \in Nat \ {0} /\ EffShutdown(c, k) \in Nat \ {0}
<1>1. c.warning \in Nat \ {0} /\ c.shutdown \in Nat \ {0}
  BY DEF SafetyConfigValid, Config
<1>2. CASE TierApplies(c, k)
  <2>1. c.tiers[k].warning \in Nat \ {0} /\ c.tiers[k].shutdown \in Nat \ {0}
    BY <1>2 DEF Config, TierSetting, TierApplies
  <2>2. TierShutdown(c, k) \in Nat \ {0}
    BY <2>1 DEF TierShutdown
  <2> QED
    BY <1>1, <1>2, <2>1, <2>2 DEF EffWarning, EffShutdown, Min2
<1>3. CASE ~TierApplies(c, k)
  BY <1>1, <1>3 DEF EffWarning, EffShutdown
<1> QED
  BY <1>2, <1>3

\* Only a valid configuration is ever in force.
VInv == IInv /\ SafetyConfigValid(cfg)

LEMMA InitValid == Init => VInv
BY InitSound DEF Init, VInv

LEMMA NextValid == VInv /\ [Next]_vars => VInv'
<1> SUFFICES ASSUME VInv, [Next]_vars
             PROVE  SafetyConfigValid(cfg)'
  BY NextSound DEF VInv
<1>1. CASE \E in \in Inputs, gap \in StepGaps : Step(in, gap)
  <2>1. cfg' = cfg
    BY <1>1 DEF Step
  <2> QED
    BY <2>1 DEF VInv, SafetyConfigValid, ShutdownAfterWarning
<1>2. CASE \E c \in Configs : SameBuild(c, cfg) /\ SetConfig(c)
  <2>1. PICK c \in Configs : cfg' = IF SafetyConfigValid(c) THEN c ELSE cfg
    BY <1>2 DEF SetConfig
  <2> QED
    BY <2>1 DEF VInv, SafetyConfigValid, ShutdownAfterWarning
<1>3. CASE UNCHANGED vars
  <2>1. cfg' = cfg
    BY <1>3 DEF vars
  <2> QED
    BY <2>1 DEF VInv, SafetyConfigValid, ShutdownAfterWarning
<1> QED
  BY <1>1, <1>2, <1>3 DEF Next

LEMMA HistNext == [HNext]_wvars => [Next]_vars
BY DEF HNext, HStep, HSetConfig, Next, wvars

LEMMA HistValid == HSpec => []VInv
<1>1. HInit => VInv
  BY InitValid DEF HInit
<1>2. VInv /\ [HNext]_wvars => VInv'
  BY NextValid, HistNext
<1> QED
  BY <1>1, <1>2, PTL DEF HSpec

LEMMA StepParts ==
    ASSUME VInv, NEW in \in Inputs, NEW gap \in StepGaps
    PROVE  LET t == now + gap
               o == Outcome(in, gap)
               e == Read(in, gap)
               r == Ready(in, gap)
               p == PauseClock(sm, in.presence, cfg, gap)
           IN  /\ t \in Nat /\ now \in Nat /\ now <= t
               /\ o.sm = Settle(r, e).sm /\ o.unsettled = Settle(r, e).again
               /\ ValidFacts(e, t) /\ Sound(p, t) /\ Sound(r, t)
               /\ r = AbsenceTimer(p, e)
               /\ e.cfg = cfg /\ e.presence = in.presence
               /\ e.self_test = in.self_test /\ e.safety_fault = in.safety_fault
               /\ e.reset_request = in.reset_request
               /\ e.cooking = o.heat.active
               /\ e.person_returned = PresentConfirmed(o.back, in.presence, cfg, t)
               /\ e.eff_shutdown = EffShutdown(cfg, o.tier.tier)
<1> DEFINE t == now + gap
           h == JudgeHeat(heat, in, cfg, t)
           k == UpdateTier(tier, h.active, in, cfg, t)
           b == ReturnTimer(back, in.presence, cfg, t)
           e == Read(in, gap)
           p == PauseClock(sm, in.presence, cfg, gap)
           r == Ready(in, gap)
<1>1. in \in Input /\ gap \in Nat /\ now \in Nat /\ t \in Nat /\ now <= t
  BY InputsAssumption, ClockAssumption DEF VInv, IInv, TypeOK
<1>2. Sound(sm, now) /\ cfg \in Config /\ heat \in Heat /\ tier \in Tier
  BY DEF VInv, IInv, TypeOK, TimelineShape, StartsInThePast, Sound
<1>3. heat.cooling_since <= t /\ tier.pending_since <= t
  BY <1>1 DEF VInv, IInv, TypeOK, StartsInThePast, Heat, Tier
<1>4. Outcome(in, gap) = [heat |-> h, tier |-> k, back |-> b,
                          sm |-> Settle(r, e).sm, unsettled |-> Settle(r, e).again]
  BY DEF Outcome, Ready, Read
<1>5. e = Facts(in, cfg, t, h, k, b)
  BY DEF Read
<1>6. r = AbsenceTimer(p, e)
  BY DEF Ready, Prepared
<1>7. Sound(p, t)
  BY <1>1, <1>2, PauseClockSound
<1> HIDE DEF t, p, e, r
<1>8. h \in Heat
  BY <1>1, <1>2, <1>3, JudgeHeatSound
<1>9. h.active \in BOOLEAN
  BY <1>8 DEF Heat
<1> HIDE DEF h
<1>10. k \in Tier
  BY <1>1, <1>2, <1>3, <1>9, UpdateTierSound
<1> HIDE DEF k, b
<1>11. FactsAt(e, t)
  BY <1>1, <1>2, <1>5, <1>10, FactsSound
<1>12. /\ e.cfg = cfg /\ e.presence = in.presence
       /\ e.self_test = in.self_test /\ e.safety_fault = in.safety_fault
       /\ e.reset_request = in.reset_request /\ e.cooking = h.active
       /\ e.person_returned = PresentConfirmed(b, in.presence, cfg, t)
       /\ e.eff_warning = EffWarning(cfg, k.tier) /\ e.eff_shutdown = EffShutdown(cfg, k.tier)
  BY <1>5 DEF Facts
<1>13. k.tier \in 1..TopTier
  BY <1>10 DEF Tier
<1>14. ValidFacts(e, t)
  BY <1>2, <1>11, <1>12, <1>13, WaitsLast DEF ValidFacts, VInv
<1>15. Sound(r, t)
  BY <1>6, <1>7, <1>11, AbsenceTimerSound
<1>16. t = now + gap /\ e = Read(in, gap) /\ r = Ready(in, gap) /\ p = PauseClock(sm, in.presence, cfg, gap)
  BY DEF t, e, r, p
<1> QED
  BY <1>1, <1>4, <1>6, <1>7, <1>12, <1>14, <1>15, <1>16

\* What the first pass finds of the machine the last step left: a pause has
\* moved the starts, the absence timer may have started or stopped.
LEMMA ReadyFields ==
    ASSUME VInv, NEW in \in Inputs, NEW gap \in StepGaps
    PROVE  LET e == Read(in, gap)
               r == Ready(in, gap)
               p == PauseClock(sm, in.presence, cfg, gap)
           IN  /\ r.state = sm.state /\ r.state_entered = sm.state_entered
               /\ r.monitoring_since = sm.monitoring_since
               /\ r.unattended_active = sm.unattended_active
               /\ r.warning_started = sm.warning_started
               /\ r.held_once = sm.held_once
               /\ r.falling_hold_started = sm.falling_hold_started
               /\ r.falling_hold_since = sm.falling_hold_since
               /\ r.return_hold_active = sm.return_hold_active
               /\ r.return_hold_since = sm.return_hold_since
               /\ r.unattended_start = p.unattended_start
               /\ r.warning_start = p.warning_start /\ r.pause_used = p.pause_used
               /\ r.absent_timing => /\ ~e.person_returned
                                     /\ r.absent_since = IF sm.absent_timing THEN sm.absent_since
                                                         ELSE now + gap
<1> DEFINE e == Read(in, gap)
           r == Ready(in, gap)
           p == PauseClock(sm, in.presence, cfg, gap)
<1>1. r = AbsenceTimer(p, e) /\ Sound(p, now + gap) /\ FactsAt(e, now + gap)
  BY StepParts DEF ValidFacts
<1>2. sm \in Machine
  BY DEF VInv, IInv, TypeOK
<1>3. /\ p.state = sm.state /\ p.state_entered = sm.state_entered
      /\ p.monitoring_since = sm.monitoring_since
      /\ p.unattended_active = sm.unattended_active
      /\ p.warning_started = sm.warning_started /\ p.held_once = sm.held_once
      /\ p.falling_hold_started = sm.falling_hold_started
      /\ p.falling_hold_since = sm.falling_hold_since
      /\ p.return_hold_active = sm.return_hold_active
      /\ p.return_hold_since = sm.return_hold_since
      /\ p.absent_timing = sm.absent_timing /\ p.absent_since = sm.absent_since
  BY <1>2 DEF PauseClock, Machine
<1>4. p \in Machine /\ e.t = now + gap
  BY <1>1 DEF Sound, FactsAt
<1> HIDE DEF e, r, p
<1>5. /\ r.state = p.state /\ r.state_entered = p.state_entered
      /\ r.monitoring_since = p.monitoring_since
      /\ r.unattended_active = p.unattended_active
      /\ r.warning_started = p.warning_started /\ r.held_once = p.held_once
      /\ r.falling_hold_started = p.falling_hold_started
      /\ r.falling_hold_since = p.falling_hold_since
      /\ r.return_hold_active = p.return_hold_active
      /\ r.return_hold_since = p.return_hold_since
      /\ r.unattended_start = p.unattended_start
      /\ r.warning_start = p.warning_start /\ r.pause_used = p.pause_used
      /\ r.absent_timing => /\ ~e.person_returned
                            /\ r.absent_since = IF p.absent_timing THEN p.absent_since ELSE e.t
  <2>1. CASE e.person_returned \/ EffectivePresence(e) = "unknown"
    <3>1. r = [p EXCEPT !.absent_timing = FALSE]
      BY <1>1, <2>1 DEF AbsenceTimer
    <3> QED
      BY <1>4, <3>1 DEF Machine
  <2>2. CASE /\ ~(e.person_returned \/ EffectivePresence(e) = "unknown")
             /\ EffectivePresence(e) = "absent" /\ ~p.absent_timing
    <3>1. r = [p EXCEPT !.absent_timing = TRUE, !.absent_since = e.t]
      BY <1>1, <2>2 DEF AbsenceTimer
    <3> QED
      BY <1>4, <2>2, <3>1 DEF Machine
  <2>3. CASE /\ ~(e.person_returned \/ EffectivePresence(e) = "unknown")
             /\ ~(EffectivePresence(e) = "absent" /\ ~p.absent_timing)
    <3>1. r = p
      BY <1>1, <2>3 DEF AbsenceTimer
    <3> QED
      BY <2>3, <3>1
  <2> QED
    BY <2>1, <2>2, <2>3
<1> QED
  BY <1>3, <1>4, <1>5 DEF e, r, p

-----------------------------------------------------------------------------
(* The reset. *)

\* The machine after a reset, and where the passes of that step can take it.
Anew(s, t) ==
    /\ s.state \in {"IDLE", "MONITORING", "UNATTENDED", "FAULT"}
    /\ s.absent_timing => s.absent_since = t
    /\ s.unattended_active => s.unattended_start = t
    /\ ~s.warning_started
    /\ s.state = "MONITORING" => s.monitoring_since = t
    /\ s.state = "FAULT" => s.state_entered = t

\* A transition of a machine that starts anew leaves it one: no countdown that
\* has just begun is due, nor is a fault that has.
LEMMA AnewMoves ==
    ASSUME NEW s, NEW t, NEW e, NEW r, Sound(s, t), Sound(r, t), ValidFacts(e, t),
           Legal(s, r.state, e), Moved(s, r, t),
           Anew(s, t) \/ s.state = "SHUTDOWN"
    PROVE  Anew(r, t)
<1>1. /\ s \in Machine /\ r \in Machine /\ Shape(r) /\ e.t = t /\ t \in Nat
      /\ e.eff_warning \in Nat \ {0} /\ e.eff_shutdown \in Nat \ {0}
      /\ e.cfg.fault_shutdown \in Nat
  BY DEF Sound, ValidFacts, FactsAt, Config
<1>2. Anew(s, t) => ~WarningDue(s, e) /\ ~ShutdownDue(s, e)
  BY <1>1, ElapsedNow DEF Anew, WarningDue, ShutdownDue
<1>3. /\ Anew(s, t) /\ s.state = "FAULT" =>
            ~(e.cfg.fault_shutdown > 0 /\ Elapsed(e.t, s.state_entered, e.cfg.fault_shutdown))
  BY <1>1, ElapsedNow DEF Anew
<1>4. r.state \in {"IDLE", "MONITORING", "UNATTENDED", "FAULT"}
  BY <1>2, <1>3 DEF Legal, Anew, Running
<1>5. r.state \in {"IDLE", "MONITORING"} => Anew(r, t)
  BY <1>1, <1>4 DEF Moved, Anew, Shape
<1>6. ASSUME r.state \in {"UNATTENDED", "FAULT"}
      PROVE  Anew(r, t)
  <2>1. s.state # "SHUTDOWN" /\ Anew(s, t)
    BY <1>6 DEF Legal, Running
  <2>2. ~s.unattended_active /\ r.unattended_active => r.unattended_start = t
    <3>1. s.absent_timing /\ s.state = "MONITORING" => Later(s.absent_since, s.monitoring_since) = t
      BY <2>1, LaterPicks DEF Anew
    <3>2. r.state = "UNATTENDED" /\ ~s.unattended_active =>
             s.state = "FAULT" \/ (s.state = "MONITORING" /\ s.absent_timing)
      <4>1. Shape(s)
        BY DEF Sound
      <4> QED
        BY <4>1 DEF Legal, AbsentConfirmed, Shape, Running
    <3> QED
      BY <1>1, <1>6, <2>1, <3>1, <3>2 DEF Moved, Opening, Anew
  <2> QED
    BY <1>1, <1>6, <2>1, <2>2 DEF Moved, Anew
<1> QED
  BY <1>4, <1>5, <1>6

\* Whatever is configured and read, only the reset leaves SHUTDOWN, and when it
\* does no timer of the step goes back behind it: not through MONITORING or a
\* fault that the same step reads.
THEOREM ResetClears == HSpec => ResetStartsOver
<1> DEFINE Leaves == sm.state = "SHUTDOWN" /\ sm'.state # "SHUTDOWN"
<1>1. ASSUME VInv, NEW in \in Inputs, NEW gap \in StepGaps, Step(in, gap), Leaves
      PROVE  Anew(sm', now')
  <2> DEFINE t == now + gap
             e == Read(in, gap)
             r == Ready(in, gap)
             A == {x \in Machine : Sound(x, t) /\ (x.state = "SHUTDOWN" \/ Anew(x, t))}
  <2>1. Sound(r, t) /\ ValidFacts(e, t) /\ sm' = Settle(r, e).sm /\ now' = t
    BY <1>1, StepParts DEF Step
  <2>2. r.state = "SHUTDOWN"
    BY <1>1, ReadyFields
  <2> HIDE DEF t, e, r
  <2>3. r \in A
    BY <2>1, <2>2 DEF Sound
  <2>4. ASSUME NEW x \in A, NEW y \in Machine, Sound(y, t), Legal(x, y.state, e), Moved(x, y, t)
        PROVE  y \in A
    BY <2>1, <2>4, AnewMoves
  <2>5. ASSUME NEW x \in A, NEW y \in Machine, Sound(y, t), SameTimeline(x, y)
        PROVE  y \in A
    BY <2>5 DEF SameTimeline, Anew
  <2>6. Settle(r, e).sm \in A
    BY <2>1, <2>3, <2>4, <2>5, SettleClosed DEF ValidFacts
  <2> QED
    BY <1>1, <2>1, <2>6
<1>2. VInv /\ [HNext]_wvars => (Leaves => Anew(sm', now'))
  <2>1. sm' = sm => ~Leaves
    OBVIOUS
  <2>2. [HNext]_wvars => sm' = sm \/ \E in \in Inputs, gap \in StepGaps : Step(in, gap)
    BY DEF HNext, HStep, HSetConfig, SetConfig, wvars, vars
  <2> QED
    BY <1>1, <2>1, <2>2
<1>3. VInv /\ [HNext]_wvars =>
        [sm.state = "SHUTDOWN" /\ sm'.state # "SHUTDOWN" =>
          /\ sm'.state \in {"IDLE", "MONITORING", "UNATTENDED", "FAULT"}
          /\ sm'.absent_timing => sm'.absent_since = now'
          /\ sm'.unattended_active => sm'.unattended_start = now'
          /\ ~sm'.warning_started]_wvars
  BY <1>2 DEF Anew
<1> QED
  BY <1>3, HistValid, PTL DEF HSpec, ResetStartsOver

-----------------------------------------------------------------------------
(* Coming to rest. *)

\* The age of an absence that the clock's width does not hide.
Told(s, e) == s.absent_timing => Later(s.absent_since, e.t) = e.t

\* How many transitions a step can still make of a machine.
Rank(s, e) ==
    CASE s.state = "BOOT" -> IF SystemOk(e) THEN 4 ELSE 3
      [] s.state = "SELF_TEST" ->
            IF ~SystemOk(e) THEN 2 ELSE IF Told(s, e) THEN 3 ELSE 8
      [] s.state = "IDLE" ->
            IF ~SystemOk(e) THEN 1
            ELSE IF ~e.cooking THEN 0
            ELSE IF Told(s, e) THEN 2 ELSE 7
      [] s.state = "MONITORING" ->
            IF ~SystemOk(e) \/ ~e.cooking THEN 1
            ELSE IF ~s.absent_timing THEN 0
            ELSE IF Told(s, e) /\ s.monitoring_since = e.t THEN 1 ELSE 6
      [] s.state = "UNATTENDED" ->
            IF ~SystemOk(e) THEN 4
            ELSE IF s.unattended_start = e.t /\ ~e.person_returned /\ e.cooking THEN 0 ELSE 5
      [] s.state = "WARNING" -> 4
      [] s.state = "SHUTDOWN" -> IF SystemOk(e) THEN 3 ELSE 2
      [] s.state = "FAULT" ->
            IF SystemOk(e) THEN 7
            ELSE IF ~s.unattended_active /\ s.state_entered = e.t THEN 0 ELSE 3

\* A confirmed return has stopped the absence timer, and the machine has not
\* been in its self-test for long.
Side(s, e) ==
    /\ e.person_returned => ~s.absent_timing
    /\ s.state \in {"BOOT", "SELF_TEST"} => Told(s, e)

LEMMA RankFalls ==
    ASSUME NEW s, NEW t, NEW e, NEW r, Sound(s, t), Sound(r, t), ValidFacts(e, t), Side(s, e),
           Legal(s, r.state, e), Moved(s, r, t)
    PROVE  Rank(r, e) < Rank(s, e) /\ Side(r, e)
<1>1. /\ s \in Machine /\ r \in Machine /\ Shape(s) /\ e.t = t /\ t \in Nat
      /\ e.eff_warning \in Nat \ {0} /\ e.eff_shutdown \in Nat \ {0}
      /\ e.cfg.fault_shutdown \in Nat
  BY DEF Sound, ValidFacts, FactsAt, Config
<1>2. Later(t, t) = t
  BY DEF Later
<1>3. r.state_entered = t /\ r.absent_timing = s.absent_timing
  BY DEF Moved
<1>4. CASE s.state = "BOOT"
  <2>1. r.state = "SELF_TEST" /\ r.absent_since = s.absent_since
    BY <1>4 DEF Legal, Running, Moved
  <2>2. Told(r, e) /\ Side(r, e)
    BY <1>3, <1>4, <2>1 DEF Side, Told
  <2> QED
    BY <1>4, <2>1, <2>2 DEF Rank
<1>5. CASE s.state = "SELF_TEST"
  <2>1. \/ r.state = "IDLE" /\ e.self_test = "pass"
        \/ r.state = "FAULT" /\ e.self_test # "pass"
    BY <1>5 DEF Legal, Running
  <2>2. r.absent_since = s.absent_since /\ Told(s, e)
    BY <1>5 DEF Moved, Side
  <2>3. Told(r, e) /\ Side(r, e)
    BY <1>3, <2>1, <2>2 DEF Side, Told
  <2>4. r.state = "FAULT" => ~r.unattended_active /\ ~SystemOk(e)
    BY <1>1, <1>5, <2>1 DEF Moved, Shape, SystemOk
  <2> QED
    BY <1>1, <1>3, <1>5, <2>1, <2>2, <2>3, <2>4 DEF Rank
<1>6. r.state \notin {"BOOT", "SELF_TEST"} => Side(r, e)
  BY <1>3 DEF Side
<1>7. CASE s.state = "IDLE"
  <2>1. \/ r.state = "FAULT" /\ ~SystemOk(e)
        \/ r.state = "MONITORING" /\ SystemOk(e) /\ e.cooking
    BY <1>7 DEF Legal, Running
  <2>2. r.absent_since = s.absent_since /\ (r.state = "MONITORING" => r.monitoring_since = t)
    BY <1>7 DEF Moved
  <2>3. r.state = "FAULT" => ~r.unattended_active
    BY <1>1, <1>7 DEF Moved, Shape
  <2>4. Told(s, e) <=> Told(r, e)
    BY <1>3, <2>2 DEF Told
  <2> QED
    BY <1>1, <1>3, <1>6, <1>7, <2>1, <2>2, <2>3, <2>4 DEF Rank
<1>8. CASE s.state = "MONITORING"
  <2>1. \/ r.state = "FAULT" /\ ~SystemOk(e)
        \/ r.state = "IDLE" /\ SystemOk(e) /\ ~e.cooking
        \/ r.state = "UNATTENDED" /\ SystemOk(e) /\ e.cooking /\ s.absent_timing
    BY <1>8 DEF Legal, Running, AbsentConfirmed
  <2>2. r.state = "FAULT" => ~r.unattended_active
    BY <1>1, <1>8 DEF Moved, Shape
  <2>3. r.state = "UNATTENDED" =>
           r.unattended_start = Later(s.absent_since, s.monitoring_since) /\ ~e.person_returned
    BY <1>1, <1>8, <2>1 DEF Moved, Opening, Shape, Side
  <2> QED
    BY <1>1, <1>3, <1>6, <1>8, <2>1, <2>2, <2>3 DEF Rank, Told
<1>9. ~e.cooking /\ r.state = "IDLE" /\ SystemOk(e) => Rank(r, e) = 0
  BY DEF Rank
<1>10. e.person_returned /\ r.state = "MONITORING" => Rank(r, e) \in 0..1
  <2>1. e.person_returned => ~r.absent_timing
    BY <1>3 DEF Side
  <2> QED
    BY <2>1 DEF Rank
<1>11. CASE s.state = "UNATTENDED"
  <2>1. \/ r.state = "FAULT" /\ ~SystemOk(e)
        \/ r.state = "MONITORING" /\ SystemOk(e) /\ e.person_returned
        \/ r.state = "IDLE" /\ SystemOk(e) /\ ~e.cooking
        \/ r.state = "WARNING" /\ SystemOk(e) /\ WarningDue(s, e)
    BY <1>11 DEF Legal, Running, CooledDown
  <2>2. WarningDue(s, e) => s.unattended_start # t
    BY <1>1, ElapsedNow DEF WarningDue
  <2>3. CASE r.state = "FAULT"
    BY <1>6, <1>11, <2>1, <2>3 DEF Rank
  <2>4. CASE r.state = "MONITORING" \/ r.state = "IDLE"
    <3>1. Rank(s, e) = 5
      BY <1>11, <2>1, <2>4 DEF Rank
    <3> QED
      BY <1>6, <1>9, <1>10, <2>1, <2>4, <3>1
  <2>5. CASE r.state = "WARNING"
    BY <1>1, <1>6, <1>11, <2>1, <2>2, <2>5 DEF Rank
  <2> QED
    BY <2>1, <2>3, <2>4, <2>5
<1>12. CASE s.state = "WARNING"
  <2>1. \/ r.state = "FAULT" /\ ~SystemOk(e)
        \/ r.state = "MONITORING" /\ SystemOk(e) /\ e.person_returned
        \/ r.state = "IDLE" /\ SystemOk(e) /\ ~e.cooking
        \/ r.state = "SHUTDOWN" /\ SystemOk(e)
    BY <1>12 DEF Legal, Running, CooledDown
  <2>2. Rank(s, e) = 4
    BY <1>12 DEF Rank
  <2>3. r.state \in {"FAULT", "SHUTDOWN"} => Rank(r, e) \in 0..3
    BY <2>1 DEF Rank
  <2> QED
    BY <1>6, <1>9, <1>10, <2>1, <2>2, <2>3
<1>13. CASE s.state = "SHUTDOWN"
  <2>1. r.state = "IDLE"
    BY <1>13 DEF Legal, Running
  <2>2. Told(r, e)
    BY <1>1, <1>2, <1>3, <1>13 DEF Moved, Told
  <2> QED
    BY <1>6, <1>13, <2>1, <2>2 DEF Rank
<1>14. CASE s.state = "FAULT"
  <2>1. \/ r.state = "IDLE" /\ SystemOk(e)
        \/ r.state = "MONITORING" /\ SystemOk(e)
        \/ r.state = "UNATTENDED" /\ SystemOk(e)
        \/ /\ r.state = "SHUTDOWN" /\ ~SystemOk(e)
           /\ \/ ShutdownDue(s, e)
              \/ e.cfg.fault_shutdown > 0 /\ Elapsed(e.t, s.state_entered, e.cfg.fault_shutdown)
    BY <1>14 DEF Legal, Running
  <2>2. CASE r.state = "SHUTDOWN"
    <3>1. s.unattended_active \/ s.state_entered # t
      BY <1>1, <2>1, <2>2, ElapsedNow DEF ShutdownDue, Shape
    <3> QED
      BY <1>1, <1>6, <1>14, <2>1, <2>2, <3>1 DEF Rank
  <2>3. CASE r.state # "SHUTDOWN"
    <3>1. Rank(s, e) = 7
      BY <1>14, <2>1, <2>3 DEF Rank
    <3>2. CASE r.state = "MONITORING"
      <4>1. Rank(r, e) \in 0..6
        BY <3>2 DEF Rank
      <4> QED
        BY <1>6, <3>1, <3>2, <4>1
    <3>3. CASE r.state = "UNATTENDED"
      <4>1. Rank(r, e) \in 0..5
        BY <3>3 DEF Rank
      <4> QED
        BY <1>6, <3>1, <3>3, <4>1
    <3>4. CASE r.state = "IDLE"
      <4>1. ~e.cooking
        BY <1>14, <3>4 DEF Legal, Running
      <4> QED
        BY <1>6, <1>9, <2>1, <3>1, <3>4, <4>1
    <3> QED
      BY <2>1, <2>3, <3>2, <3>3, <3>4
  <2> QED
    BY <2>2, <2>3
<1> QED
  BY <1>1, <1>4, <1>5, <1>7, <1>8, <1>11, <1>12, <1>13, <1>14 DEF Machine, States

LEMMA RankNat ==
    ASSUME NEW s, NEW e, s.state \in States
    PROVE  Rank(s, e) \in 0..8
BY DEF Rank, States

\* With every pass that moves, one transition less is left.
Left(p, e, t, n) ==
    Sound(p.sm, t) /\ Side(p.sm, e) /\ (p.again => Rank(p.sm, e) <= n)

LEMMA PassFalls ==
    ASSUME NEW t, NEW e, ValidFacts(e, t), NEW n \in Int, NEW p, Left(p, e, t, n)
    PROVE  Left(Pass(p, e), e, t, n - 1)
<1>1. CASE ~p.again
  BY <1>1 DEF Pass, Left
<1>2. CASE p.again
  <2> DEFINE q == Evaluate(p.sm, e)
  <2>1. Pass(p, e) = q
    BY <1>2 DEF Pass
  <2>2. /\ Sound(q.sm, t)
        /\ \/ q.again = TRUE /\ Legal(p.sm, q.sm.state, e) /\ Moved(p.sm, q.sm, t)
           \/ q.again = FALSE /\ SameTimeline(p.sm, q.sm)
    BY PassMoves DEF Left, ValidFacts
  <2> HIDE DEF q
  <2>3. CASE q.again = TRUE /\ Legal(p.sm, q.sm.state, e) /\ Moved(p.sm, q.sm, t)
    <3>1. Rank(q.sm, e) < Rank(p.sm, e) /\ Side(q.sm, e)
      BY <2>2, <2>3, RankFalls DEF Left
    <3>2. Rank(q.sm, e) \in Int /\ Rank(p.sm, e) \in Int
      BY <2>2, RankNat DEF Left, Sound, Machine
    <3>3. Rank(p.sm, e) <= n
      BY <1>2 DEF Left
    <3> QED
      BY <2>1, <2>2, <3>1, <3>2, <3>3 DEF Left
  <2>4. CASE q.again = FALSE /\ SameTimeline(p.sm, q.sm)
    <3>1. Side(q.sm, e)
      BY <2>4 DEF SameTimeline, Side, Told, Left
    <3> QED
      BY <2>1, <2>2, <2>4, <3>1 DEF Left
  <2> QED
    BY <2>2, <2>3, <2>4
<1> QED
  BY <1>1, <1>2

\* Seven transitions at most, so the eight passes of a step are enough.
LEMMA SettleRests ==
    ASSUME NEW s, NEW t, NEW e, Sound(s, t), ValidFacts(e, t), Side(s, e)
    PROVE  ~Settle(s, e).again
<1> DEFINE p0 == [sm |-> s, again |-> TRUE]
           p1 == Pass(p0, e)
           p2 == Pass(p1, e)
           p3 == Pass(p2, e)
           p4 == Pass(p3, e)
           p5 == Pass(p4, e)
           p6 == Pass(p5, e)
           p7 == Pass(p6, e)
           p8 == Pass(p7, e)
<1>1. Settle(s, e) = p8
  BY DEF Settle
<1>2. Left(p0, e, t, 7)
  <2>1. Rank(s, e) \in 0..8 /\ (Rank(s, e) = 8 => s.state = "SELF_TEST" /\ ~Told(s, e))
    BY RankNat DEF Sound, Machine, Rank, States
  <2> QED
    BY <2>1 DEF Left, Side
<1> HIDE DEF p0
<1>3. Left(p1, e, t, 6)
  BY <1>2, PassFalls
<1> HIDE DEF p1
<1>4. Left(p2, e, t, 5)
  BY <1>3, PassFalls
<1> HIDE DEF p2
<1>5. Left(p3, e, t, 4)
  BY <1>4, PassFalls
<1> HIDE DEF p3
<1>6. Left(p4, e, t, 3)
  BY <1>5, PassFalls
<1> HIDE DEF p4
<1>7. Left(p5, e, t, 2)
  BY <1>6, PassFalls
<1> HIDE DEF p5
<1>8. Left(p6, e, t, 1)
  BY <1>7, PassFalls
<1> HIDE DEF p6
<1>9. Left(p7, e, t, 0)
  BY <1>8, PassFalls
<1> HIDE DEF p7
<1>10. Left(p8, e, t, -1)
  BY <1>9, PassFalls
<1> HIDE DEF p8
<1>11. p8.again => Rank(p8.sm, e) \in 0..8
  BY <1>10, RankNat DEF Left, Sound, Machine
<1>12. ~p8.again
  BY <1>10, <1>11 DEF Left
<1> QED
  BY <1>1, <1>12

\* The self-test gives up long before the clock comes round.  In the code it
\* lasts 120 s at most (RB_SAFETY_SELF_TEST_TIMEOUT_MS), the word 49 days.
SelfTestFits ==
    \A c \in Configs, gap \in StepGaps : c.self_test_timeout + gap <= Wrap \div 2

\* The machine leaves BOOT in its first step, and SELF_TEST before its timeout.
TestInv ==
    /\ VInv /\ cfg \in Configs
    /\ sm.state = "BOOT" => ~sm.absent_timing
    /\ sm.state = "SELF_TEST" =>
          /\ now - sm.state_entered < cfg.self_test_timeout
          /\ sm.absent_timing => sm.absent_since >= sm.state_entered

\* A machine that is testing itself, during a step.
Testing(s, t, limit) ==
    /\ s.state = "BOOT" /\ s.absent_timing => s.absent_since = t
    /\ s.state = "SELF_TEST" =>
          /\ t - s.state_entered < limit
          /\ s.absent_timing => s.absent_since >= s.state_entered

LEMMA ReadyTesting ==
    ASSUME TestInv, SelfTestFits, NEW in \in Inputs, NEW gap \in StepGaps
    PROVE  /\ Testing(Ready(in, gap), now + gap, Wrap \div 2)
           /\ Side(Ready(in, gap), Read(in, gap))
<1> DEFINE t == now + gap
           e == Read(in, gap)
           r == Ready(in, gap)
<1>1. VInv /\ gap \in Nat
  BY ClockAssumption DEF TestInv
<1>2. /\ t \in Nat /\ now \in Nat /\ r \in Machine /\ Past(r, t) /\ e.t = t
      /\ sm \in Machine /\ Past(sm, now) /\ cfg \in Config
  BY <1>1, StepParts DEF ValidFacts, FactsAt, Sound, VInv, IInv, TypeOK, StartsInThePast
<1>3. /\ r.state = sm.state /\ r.state_entered = sm.state_entered
      /\ r.absent_timing => /\ ~e.person_returned
                            /\ r.absent_since = IF sm.absent_timing THEN sm.absent_since ELSE t
  BY <1>1, ReadyFields
<1>4. cfg.self_test_timeout + gap <= Wrap \div 2 /\ cfg.self_test_timeout \in Nat
  BY <1>2 DEF TestInv, SelfTestFits, Config
<1> HIDE DEF e, r
<1>5. sm.state = "SELF_TEST" => t - sm.state_entered < Wrap \div 2
  BY <1>1, <1>2, <1>4, ClockAssumption DEF TestInv, Machine
<1> HIDE DEF t
<1>6. Testing(r, t, Wrap \div 2)
  BY <1>2, <1>3, <1>5 DEF TestInv, Testing, Machine, Past
<1>7. ASSUME r.state \in {"BOOT", "SELF_TEST"}, r.absent_timing
      PROVE  Later(r.absent_since, t) = t
  <2>1. r.absent_since \in Nat /\ r.absent_since <= t /\ t - r.absent_since <= Wrap \div 2
    BY <1>2, <1>6, <1>7, ClockAssumption DEF Testing, Machine, Past
  <2>2. r.absent_since - t < Wrap \div 2 \/ Wrap = 1
    BY <1>2, <2>1, ClockAssumption
  <2> QED
    BY <1>2, <2>1, <2>2, LaterFits, ClockAssumption DEF Max2, Later
<1> QED
  BY <1>2, <1>3, <1>6, <1>7 DEF Side, Told, t, e, r

LEMMA StepRests ==
    ASSUME TestInv, SelfTestFits, NEW in \in Inputs, NEW gap \in StepGaps
    PROVE  ~Settle(Ready(in, gap), Read(in, gap)).again
<1>1. VInv
  BY DEF TestInv
<1>2. Sound(Ready(in, gap), now + gap) /\ ValidFacts(Read(in, gap), now + gap)
  BY <1>1, StepParts
<1> QED
  BY <1>2, ReadyTesting, SettleRests

LEMMA TestStep ==
    ASSUME TestInv, SelfTestFits, NEW in \in Inputs, NEW gap \in StepGaps, Step(in, gap)
    PROVE  TestInv'
<1> DEFINE t == now + gap
           e == Read(in, gap)
           r == Ready(in, gap)
           half == Wrap \div 2
           A == {x \in Machine : Sound(x, t) /\ Testing(x, t, half)}
<1>1. VInv /\ VInv'
  <2>1. Next
    BY DEF Next
  <2> QED
    BY <2>1, NextValid DEF TestInv
<1>2. /\ t \in Nat /\ Sound(r, t) /\ ValidFacts(e, t) /\ e.cfg = cfg
      /\ sm' = Settle(r, e).sm /\ now' = t /\ cfg' = cfg
  BY <1>1, StepParts DEF Step
<1>3. Testing(r, t, half) /\ ~Settle(r, e).again
  BY ReadyTesting, StepRests
<1>4. half \in Nat \ {0} /\ half <= Wrap /\ cfg.self_test_timeout \in Nat \ {0}
  <2>1. cfg \in Configs /\ cfg \in Config /\ gap \in Nat /\ cfg.self_test_timeout # 0
    BY <1>1, ClockAssumption DEF TestInv, VInv, IInv, TypeOK, SafetyConfigValid
  <2> QED
    BY <2>1, ClockAssumption DEF SelfTestFits, Config
<1> HIDE DEF t, e, r, half
<1>5. r \in A
  BY <1>2, <1>3 DEF Sound
<1>6. ASSUME NEW x \in A, NEW y \in Machine, Sound(y, t), Legal(x, y.state, e), Moved(x, y, t)
      PROVE  y \in A
  <2>1. y.state # "BOOT" /\ (y.state = "SELF_TEST" => x.state = "BOOT")
    BY <1>6 DEF Legal, Running
  <2>2. y.state = "SELF_TEST" =>
          /\ y.state_entered = t
          /\ y.absent_timing => y.absent_since = t
    BY <1>6, <2>1 DEF Moved, Testing
  <2> QED
    BY <1>2, <1>4, <1>6, <2>1, <2>2 DEF Testing
<1>7. ASSUME NEW x \in A, NEW y \in Machine, Sound(y, t), SameTimeline(x, y)
      PROVE  y \in A
  BY <1>7 DEF SameTimeline, Testing
<1>8. sm' \in A /\ AtRest(sm', e)
  BY <1>2, <1>3, <1>5, <1>6, <1>7, SettleClosed DEF ValidFacts
<1>9. /\ sm'.state # "BOOT" /\ sm' \in Machine /\ sm'.state_entered <= t
      /\ sm'.state = "SELF_TEST" => ~Elapsed(t, sm'.state_entered, cfg.self_test_timeout)
  BY <1>2, <1>8, RestFacts DEF ValidFacts, FactsAt, Machine, Sound, Past
<1>10. sm'.state = "SELF_TEST" => t - sm'.state_entered < cfg.self_test_timeout
  BY <1>2, <1>4, <1>8, <1>9, ElapsedFits, ClockAssumption DEF Testing, Machine
<1> QED
  BY <1>1, <1>2, <1>8, <1>9, <1>10 DEF TestInv, Testing

LEMMA HistTest == SelfTestFits => (HSpec => []TestInv)
<1> SUFFICES ASSUME SelfTestFits
             PROVE  HSpec => []TestInv
  OBVIOUS
<1>1. HInit => TestInv
  BY InitValid DEF HInit, Init, TestInv
<1>2. TestInv /\ [HNext]_wvars => TestInv'
  <2> SUFFICES ASSUME TestInv, [HNext]_wvars
               PROVE  TestInv'
    OBVIOUS
  <2>1. VInv'
    BY NextValid, HistNext DEF TestInv
  <2>2. CASE \E in \in Inputs, gap \in StepGaps : Step(in, gap)
    BY <2>2, TestStep
  <2>3. CASE \E c \in Configs : SameBuild(c, cfg) /\ SetConfig(c)
    <3>1. /\ cfg' \in Configs /\ cfg'.self_test_timeout = cfg.self_test_timeout
          /\ sm' = sm /\ now' = now
      BY <2>3 DEF TestInv, SameBuild, SetConfig
    <3> QED
      BY <2>1, <3>1 DEF TestInv
  <2>4. CASE UNCHANGED vars
    BY <2>1, <2>4 DEF TestInv, vars
  <2> QED
    BY <2>2, <2>3, <2>4, HistNext DEF Next
<1> QED
  BY <1>1, <1>2, PTL DEF HSpec

\* However long the chain of due transitions is, a step comes to its end: after
\* the eight passes safety_step allows nothing is left for another step, so no
\* fault, warning or shutdown that is due waits.
THEOREM OneStepSettles ==
    ASSUME SelfTestFits
    PROVE  HSpec => []SettlesInOneStep
<1>1. TestInv => SettlesInOneStep
  <2> SUFFICES ASSUME TestInv, NEW in \in Inputs, NEW gap \in StepGaps
               PROVE  ~Outcome(in, gap).unsettled
    BY DEF SettlesInOneStep
  <2>1. Outcome(in, gap).unsettled = Settle(Ready(in, gap), Read(in, gap)).again
    BY StepParts DEF TestInv
  <2> QED
    BY <2>1, StepRests
<1> QED
  BY <1>1, HistTest, PTL

-----------------------------------------------------------------------------
(* The interlock. *)

\* A fault does not outlast the clock: the controller is restarted within the
\* 49 days the word holds, or the fault shutdown (an hour at most) is never off.
FaultTimesFit ==
    \/ MaxTime < Wrap
    \/ \A c \in Configs, gap \in StepGaps : c.fault_shutdown \in 1..(Wrap - gap)

FaultInv ==
    sm.state = "FAULT" =>
        MaxTime < Wrap \/ \E c \in Configs : now - sm.state_entered < c.fault_shutdown

\* The machine of a step that started in a phase of the interlock.
FromStarting(x, t, e) ==
    /\ x.state \notin {"WARNING", "SHUTDOWN"}
    /\ Side(x, e)
    /\ x.state = "IDLE" => Told(x, e)
    /\ x.state = "MONITORING" => Told(x, e) /\ x.monitoring_since = t
    /\ x.state = "UNATTENDED" =>
          SystemOk(e) /\ x.unattended_start = t /\ ~e.person_returned /\ e.cooking
    /\ x.state = "FAULT" => ~SystemOk(e) /\ ~x.unattended_active /\ x.state_entered = t

FromOn(x, t) ==
    /\ x.state \notin {"BOOT", "SELF_TEST"}
    /\ x.state = "FAULT" => x.state_entered = t

FromFault(x, t, e, since) ==
    /\ x.state \notin {"BOOT", "SELF_TEST"}
    /\ \/ SystemOk(e)
       \/ x.state = "FAULT" /\ x.state_entered = since
       \/ x.state = "SHUTDOWN"
       \/ e.reset_request /\ (x.state = "FAULT" => x.state_entered = t)

LEMMA StartingMoves ==
    ASSUME NEW s, NEW t, NEW e, NEW r, Sound(s, t), Sound(r, t), ValidFacts(e, t),
           Legal(s, r.state, e), Moved(s, r, t), FromStarting(s, t, e)
    PROVE  FromStarting(r, t, e)
<1>1. /\ s \in Machine /\ r \in Machine /\ Shape(s) /\ Shape(r) /\ e.t = t /\ t \in Nat
      /\ e.eff_warning \in Nat \ {0} /\ e.eff_shutdown \in Nat \ {0}
      /\ e.cfg.fault_shutdown \in Nat
  BY DEF Sound, ValidFacts, FactsAt, Config
<1>2. Side(r, e) /\ r.absent_timing = s.absent_timing /\ r.absent_since = s.absent_since
  BY RankFalls DEF Moved, FromStarting
<1>3. Told(r, e) <=> Told(s, e)
  BY <1>2 DEF Told
<1>4. CASE s.state = "BOOT"
  <2>1. r.state = "SELF_TEST"
    BY <1>4 DEF Legal, Running
  <2> QED
    BY <1>2, <2>1 DEF FromStarting
<1>5. CASE s.state \in {"SELF_TEST", "IDLE", "MONITORING"}
  <2>1. \/ r.state = "IDLE"
        \/ r.state = "FAULT" /\ ~SystemOk(e)
        \/ r.state = "MONITORING"
        \/ r.state = "UNATTENDED" /\ s.state = "MONITORING" /\ SystemOk(e)
           /\ e.cooking /\ s.absent_timing
    BY <1>5 DEF Legal, Running, AbsentConfirmed, SystemOk
  <2>2. Told(s, e)
    BY <1>5 DEF FromStarting, Side
  <2>3. ~s.unattended_active
    BY <1>1, <1>5 DEF Shape
  <2>4. CASE r.state = "IDLE"
    BY <1>2, <1>3, <2>2, <2>4 DEF FromStarting
  <2>5. CASE r.state = "FAULT"
    BY <1>2, <2>1, <2>3, <2>5 DEF FromStarting, Moved
  <2>6. CASE r.state = "MONITORING"
    BY <1>2, <1>3, <2>2, <2>6 DEF FromStarting, Moved
  <2>7. CASE r.state = "UNATTENDED"
    <3>1. r.unattended_start = t
      BY <1>1, <2>1, <2>3, <2>7 DEF Moved, Opening, FromStarting, Told
    <3>2. ~e.person_returned
      BY <2>1, <2>7 DEF FromStarting, Side
    <3> QED
      BY <1>2, <2>1, <2>7, <3>1, <3>2 DEF FromStarting
  <2> QED
    BY <2>1, <2>4, <2>5, <2>6, <2>7
<1>6. s.state # "UNATTENDED"
  <2> SUFFICES ASSUME s.state = "UNATTENDED"
               PROVE  FALSE
    OBVIOUS
  <2>1. ~WarningDue(s, e)
    BY <1>1, ElapsedNow DEF WarningDue, FromStarting
  <2> QED
    BY <2>1 DEF Legal, Running, CooledDown, FromStarting
<1>7. s.state # "FAULT"
  <2> SUFFICES ASSUME s.state = "FAULT"
               PROVE  FALSE
    OBVIOUS
  <2>1. ~SystemOk(e) /\ ~s.unattended_active /\ s.state_entered = t
    BY DEF FromStarting
  <2>2. ~ShutdownDue(s, e)
    BY <1>1, <2>1 DEF ShutdownDue, Shape
  <2>3. ~(e.cfg.fault_shutdown > 0 /\ Elapsed(e.t, s.state_entered, e.cfg.fault_shutdown))
    BY <1>1, <2>1, ElapsedNow
  <2> QED
    BY <2>1, <2>2, <2>3 DEF Legal, Running
<1> QED
  BY <1>1, <1>4, <1>5, <1>6, <1>7 DEF FromStarting, Machine, States

LEMMA OnMoves ==
    ASSUME NEW s, NEW t, NEW e, NEW r, Legal(s, r.state, e), Moved(s, r, t), FromOn(s, t)
    PROVE  FromOn(r, t)
BY DEF Legal, Running, Moved, FromOn

LEMMA FaultMoves ==
    ASSUME NEW s, NEW t, NEW e, NEW since, NEW r,
           Legal(s, r.state, e), Moved(s, r, t), FromFault(s, t, e, since)
    PROVE  FromFault(r, t, e, since)
<1>1. r.state \notin {"BOOT", "SELF_TEST"} /\ r.state_entered = t
  BY DEF Legal, Running, Moved, FromFault
<1>2. CASE SystemOk(e)
  BY <1>1, <1>2 DEF FromFault
<1>3. CASE ~SystemOk(e)
  <2>1. \/ s.state = "FAULT" /\ r.state = "SHUTDOWN"
        \/ e.reset_request
    BY <1>3 DEF Legal, Running, FromFault
  <2> QED
    BY <1>1, <2>1 DEF FromFault
<1> QED
  BY <1>2, <1>3

\* A set of machines that the passes of a step stay in holds the one it leaves.
LEMMA StepEndsIn ==
    ASSUME VInv, NEW in \in Inputs, NEW gap \in StepGaps, Step(in, gap),
           NEW A, Ready(in, gap) \in A, \A x \in A : Sound(x, now + gap),
           \A x \in A : \A y \in Machine :
              /\ Sound(y, now + gap) /\ Legal(x, y.state, Read(in, gap))
              /\ Moved(x, y, now + gap)
              => y \in A,
           \A x \in A : \A y \in Machine : Sound(y, now + gap) /\ SameTimeline(x, y) => y \in A
    PROVE  sm' \in A
<1>1. sm' = Settle(Ready(in, gap), Read(in, gap)).sm /\ FactsAt(Read(in, gap), now + gap)
  BY StepParts DEF Step, ValidFacts
<1> QED
  BY <1>1, SettleClosed

LEMMA StepAtRest ==
    ASSUME TestInv, SelfTestFits, NEW in \in Inputs, NEW gap \in StepGaps, Step(in, gap)
    PROVE  AtRest(sm', Read(in, gap))
<1> DEFINE t == now + gap
           e == Read(in, gap)
           r == Ready(in, gap)
           A == {x \in Machine : Sound(x, t)}
<1>1. Sound(r, t) /\ FactsAt(e, t) /\ sm' = Settle(r, e).sm
  BY StepParts DEF TestInv, Step, ValidFacts
<1>2. ~Settle(r, e).again
  BY StepRests
<1> HIDE DEF t, e, r
<1>3. r \in A
  BY <1>1 DEF Sound
<1>4. AtRest(Settle(r, e).sm, e)
  BY <1>1, <1>2, <1>3, SettleClosed
<1> QED
  BY <1>1, <1>4 DEF t, e, r

LEMMA RestPhase ==
    ASSUME NEW s, NEW e, s.state \in States, AtRest(s, e)
    PROVE  IF SystemOk(e) THEN s.state \in Running \cup {"SHUTDOWN"}
           ELSE s.state \in {"SELF_TEST", "FAULT", "SHUTDOWN"}
BY RestFacts DEF SystemOk, States, Running

LEMMA InterlockStep ==
    ASSUME TestInv, FaultInv, SelfTestFits, FaultTimesFit,
           NEW in \in Inputs, NEW gap \in StepGaps, HStep(in, gap)
    PROVE  Abstract!Step(hist'.fault, hist'.reset, now' - now) /\ FaultInv'
<1> DEFINE t == now + gap
           e == Read(in, gap)
           r == Ready(in, gap)
<1>1. VInv /\ VInv' /\ Step(in, gap)
  <2>1. Next
    BY DEF Next, HStep
  <2> QED
    BY <2>1, NextValid DEF TestInv, HStep
<1>2. /\ t \in Nat /\ now \in Nat /\ gap \in Nat /\ now' = t /\ cfg' = cfg /\ t <= MaxTime
      /\ Sound(r, t) /\ ValidFacts(e, t) /\ e.t = t /\ e.cfg = cfg
      /\ e.reset_request = in.reset_request
      /\ e.self_test = in.self_test /\ e.safety_fault = in.safety_fault
  BY <1>1, StepParts, ClockAssumption DEF Step, ValidFacts, FactsAt
<1>3. /\ r.state = sm.state /\ r.state_entered = sm.state_entered
      /\ r.unattended_active = sm.unattended_active
  BY <1>1, ReadyFields
<1>4. hist'.fault = ~SystemOk(e) /\ hist'.reset = e.reset_request
  BY <1>2 DEF HStep, SystemOk, Input
<1>5. AtRest(sm', e) /\ sm' \in Machine /\ Sound(sm', t)
  BY <1>1, <1>2, StepAtRest DEF VInv, IInv, TypeOK, TimelineShape, StartsInThePast, Sound
<1>6. sm \in Machine /\ sm.state_entered \in Nat /\ sm.state_entered <= now /\ cfg \in Config
  BY <1>1 DEF VInv, IInv, TypeOK, StartsInThePast, Past, Machine
<1>7. sm'.state \in States /\ sm'.state_entered \in Nat /\ sm.state \in States
  BY <1>5, <1>6 DEF Machine
<1>8. IF SystemOk(e) THEN sm'.state \in Running \cup {"SHUTDOWN"}
      ELSE sm'.state \in {"SELF_TEST", "FAULT", "SHUTDOWN"}
  BY <1>5, <1>7, RestPhase
<1>9. Side(r, e)
  BY ReadyTesting
<1> HIDE DEF e, r
<1>11. (sm'.state = "FAULT" => sm'.state_entered = t) => FaultInv'
  <2>1. MaxTime < Wrap \/ (cfg \in Configs /\ cfg.fault_shutdown > 0)
    BY <1>2 DEF FaultTimesFit, TestInv
  <2> QED
    BY <1>2, <2>1 DEF FaultInv
<1>10. CASE sm.state \in {"BOOT", "SELF_TEST"}
  <2> DEFINE A == {x \in Machine : Sound(x, t) /\ FromStarting(x, t, e)}
  <2>1. r \in A
    BY <1>2, <1>3, <1>9, <1>10 DEF Sound, FromStarting
  <2>2. ASSUME NEW x \in A, NEW y \in Machine, Sound(y, t), Legal(x, y.state, e), Moved(x, y, t)
        PROVE  y \in A
    BY <1>2, <2>2, StartingMoves
  <2>3. ASSUME NEW x \in A, NEW y \in Machine, Sound(y, t), SameTimeline(x, y)
        PROVE  y \in A
    BY <2>3 DEF SameTimeline, FromStarting, Side, Told
  <2>4. sm' \in A
    BY <1>1, <2>1, <2>2, <2>3, StepEndsIn DEF e, r
  <2>5. /\ SystemOk(e) => sm'.state \in Running
        /\ ~SystemOk(e) => sm'.state \in {"SELF_TEST", "FAULT"}
        /\ sm'.state = "FAULT" => sm'.state_entered = t
    <3>1. FromStarting(sm', t, e)
      BY <2>4
    <3>2. sm'.state # "SHUTDOWN" /\ (sm'.state = "FAULT" => sm'.state_entered = t)
      BY <3>1 DEF FromStarting
    <3> QED
      BY <1>8, <3>2
  <2>6. Abstract!Boot(~SystemOk(e))
    BY <1>2, <1>10, <2>5 DEF Abstract!Boot, PhaseOf, Running
  <2>7. FaultInv'
    BY <1>11, <2>5
  <2> QED
    BY <1>2, <1>4, <2>6, <2>7 DEF Abstract!Step
<1>12. CASE sm.state \in Running
  <2> DEFINE A == {x \in Machine : Sound(x, t) /\ FromOn(x, t)}
  <2>1. r \in A
    BY <1>2, <1>3, <1>12 DEF Sound, FromOn, Running
  <2>2. ASSUME NEW x \in A, NEW y \in Machine, Sound(y, t), Legal(x, y.state, e), Moved(x, y, t)
        PROVE  y \in A
    BY <2>2, OnMoves
  <2>3. ASSUME NEW x \in A, NEW y \in Machine, Sound(y, t), SameTimeline(x, y)
        PROVE  y \in A
    BY <2>3 DEF SameTimeline, FromOn
  <2>4. sm' \in A
    BY <1>1, <2>1, <2>2, <2>3, StepEndsIn DEF e, r
  <2>5. /\ sm'.state \notin {"BOOT", "SELF_TEST"}
        /\ sm'.state = "FAULT" => sm'.state_entered = t
    BY <2>4 DEF FromOn
  <2>6. Abstract!Watch(~SystemOk(e))
    BY <1>2, <1>8, <1>12, <2>5 DEF Abstract!Watch, PhaseOf, Running
  <2> QED
    BY <1>2, <1>4, <1>11, <2>5, <2>6 DEF Abstract!Step
<1>13. CASE sm.state = "FAULT"
  <2> DEFINE since == sm.state_entered
             A == {x \in Machine : Sound(x, t) /\ FromFault(x, t, e, since)}
  <2>1. r \in A
    BY <1>2, <1>3, <1>13 DEF Sound, FromFault
  <2>2. ASSUME NEW x \in A, NEW y \in Machine, Sound(y, t), Legal(x, y.state, e), Moved(x, y, t)
        PROVE  y \in A
    BY <2>2, FaultMoves
  <2>3. ASSUME NEW x \in A, NEW y \in Machine, Sound(y, t), SameTimeline(x, y)
        PROVE  y \in A
    BY <2>3 DEF SameTimeline, FromFault
  <2>4. sm' \in A
    BY <1>1, <2>1, <2>2, <2>3, StepEndsIn DEF e, r
  <2>5. FromFault(sm', t, e, since)
    BY <2>4
  <2> HIDE DEF A
  <2>6. CASE SystemOk(e)
    <3>1. sm'.state \in Running \cup {"SHUTDOWN"}
      BY <1>8, <2>6
    <3>2. Abstract!OutOfOrder(~SystemOk(e), gap) /\ sm'.state # "FAULT"
      BY <1>2, <1>13, <2>6, <3>1 DEF Abstract!OutOfOrder, PhaseOf, Running
    <3> QED
      BY <1>2, <1>4, <3>2 DEF Abstract!Step, FaultInv
  <2>7. CASE ~SystemOk(e) /\ sm'.state = "SHUTDOWN"
    <3>1. Abstract!OutOfOrder(~SystemOk(e), gap)
      BY <1>2, <1>13, <2>7 DEF Abstract!OutOfOrder, PhaseOf
    <3> QED
      BY <1>2, <1>4, <2>7, <3>1 DEF Abstract!Step, FaultInv
  <2>8. CASE ~SystemOk(e) /\ sm'.state = "FAULT" /\ sm'.state_entered = since
    <3>1. ~(cfg.fault_shutdown > 0 /\ Elapsed(t, since, cfg.fault_shutdown))
      BY <1>2, <1>5, <1>7, <2>8, RestFacts
    <3>2. t - since < Wrap
      <4>1. CASE MaxTime < Wrap
        BY <1>2, <1>6, <4>1, ClockAssumption
      <4>2. CASE ~(MaxTime < Wrap)
        <5>1. PICK c \in Configs : now - sm.state_entered < c.fault_shutdown
          BY <1>13, <4>2 DEF FaultInv
        <5>2. c.fault_shutdown \in 1..(Wrap - gap)
          BY <4>2 DEF FaultTimesFit
        <5> QED
          BY <1>2, <1>6, <5>1, <5>2, ClockAssumption
      <4> QED
        BY <4>1, <4>2
    <3>3. cfg.fault_shutdown > 0 => t - since < cfg.fault_shutdown
      BY <1>2, <1>6, <3>1, <3>2, ElapsedFits DEF Config
    <3>4. ~(cfg.fault_shutdown > 0 /\ (now - since) + gap >= cfg.fault_shutdown)
      BY <1>2, <1>6, <3>3 DEF Config
    <3>5. Abstract!OutOfOrder(~SystemOk(e), gap)
      BY <1>2, <1>6, <1>13, <2>8, <3>4 DEF Abstract!OutOfOrder, Abstract!Overdue, PhaseOf
    <3>6. FaultInv'
      <4>1. MaxTime < Wrap \/ (cfg \in Configs /\ cfg.fault_shutdown > 0)
        BY <1>2 DEF FaultTimesFit, TestInv
      <4> QED
        BY <1>2, <2>8, <3>3, <4>1 DEF FaultInv
    <3> QED
      BY <1>2, <1>4, <3>5, <3>6 DEF Abstract!Step
  <2>9. CASE /\ ~SystemOk(e) /\ e.reset_request
             /\ sm'.state = "FAULT" /\ sm'.state_entered = t
    <3>1. Abstract!CutAndReset(~SystemOk(e), e.reset_request)
      BY <1>2, <1>13, <2>9 DEF Abstract!CutAndReset, Abstract!Cleared, PhaseOf
    <3> QED
      BY <1>2, <1>4, <1>11, <2>9, <3>1 DEF Abstract!Step
  <2> QED
    BY <1>8, <2>5, <2>6, <2>7, <2>8, <2>9 DEF FromFault
<1>14. CASE sm.state = "SHUTDOWN"
  <2> DEFINE A == {x \in Machine : /\ Sound(x, t)
                                   /\ x.state = "SHUTDOWN" \/ (e.reset_request /\ Anew(x, t))}
  <2>1. r \in A
    BY <1>2, <1>3, <1>14 DEF Sound
  <2>2. ASSUME NEW x \in A, NEW y \in Machine, Sound(y, t), Legal(x, y.state, e), Moved(x, y, t)
        PROVE  y \in A
    <3>1. Anew(y, t)
      BY <1>2, <2>2, AnewMoves
    <3>2. e.reset_request
      BY <2>2 DEF Legal, Running
    <3> QED
      BY <2>2, <3>1, <3>2
  <2>3. ASSUME NEW x \in A, NEW y \in Machine, Sound(y, t), SameTimeline(x, y)
        PROVE  y \in A
    BY <2>3 DEF SameTimeline, Anew
  <2>4. sm' \in A
    BY <1>1, <2>1, <2>2, <2>3, StepEndsIn DEF e, r
  <2>5. sm'.state = "SHUTDOWN" => ~e.reset_request
    BY <1>5, <1>7, RestFacts
  <2>6. /\ ~e.reset_request => sm'.state = "SHUTDOWN"
        /\ e.reset_request => sm'.state \in {"IDLE", "MONITORING", "UNATTENDED", "FAULT"}
        /\ sm'.state = "FAULT" => sm'.state_entered = t
    BY <2>4, <2>5 DEF Anew
  <2>7. Abstract!Latched(~SystemOk(e), e.reset_request)
    BY <1>2, <1>8, <1>14, <2>6 DEF Abstract!Latched, Abstract!Cleared, PhaseOf, Running
  <2> QED
    BY <1>2, <1>4, <1>11, <2>6, <2>7 DEF Abstract!Step
<1> QED
  BY <1>7, <1>10, <1>12, <1>13, <1>14 DEF States, Running

\* The interlock, for every configuration and every input: a fault the step
\* reads is in its state after the same step, one that lasts cuts the gas, and
\* SHUTDOWN is left by a reset alone, whatever else is due in that step.
THEOREM InterlockImplemented ==
    ASSUME SelfTestFits, FaultTimesFit
    PROVE  HSpec => ImplementsInterlock
<1> DEFINE Inv == TestInv /\ FaultInv
           Mapped == IF cfg' = cfg
                     THEN Abstract!Step(hist'.fault, hist'.reset, now' - now)
                     ELSE Abstract!SetLimit
<1>1. HInit => Abstract!Init /\ FaultInv
  BY DEF HInit, Init, Abstract!Init, PhaseOf, FaultInv
<1>2. ASSUME Inv, [HNext]_wvars
      PROVE  FaultInv' /\ (Mapped \/ UNCHANGED wvars)
  <2>1. ASSUME NEW in \in Inputs, NEW gap \in StepGaps, HStep(in, gap)
        PROVE  FaultInv' /\ Mapped
    <3>1. cfg' = cfg
      BY <2>1 DEF HStep, Step
    <3> QED
      BY <1>2, <2>1, <3>1, InterlockStep
  <2>2. ASSUME NEW c \in Configs, HSetConfig(c)
        PROVE  FaultInv' /\ (Mapped \/ UNCHANGED wvars)
    <3>1. UNCHANGED <<now, heat, tier, back, sm>> /\ cfg' \in Configs
      BY <1>2, <2>2 DEF HSetConfig, SetConfig, TestInv
    <3>2. FaultInv'
      BY <1>2, <3>1 DEF FaultInv
    <3>3. cfg' = cfg => UNCHANGED wvars
      BY <2>2, <3>1 DEF HSetConfig, wvars, vars
    <3>4. Abstract!SetLimit
      BY <3>1 DEF Abstract!SetLimit
    <3> QED
      BY <3>2, <3>3, <3>4
  <2>3. UNCHANGED wvars => FaultInv'
    BY <1>2 DEF wvars, vars, FaultInv
  <2> QED
    BY <1>2, <2>1, <2>2, <2>3 DEF HNext
<1>3. Inv /\ [HNext]_wvars => FaultInv' /\ [Mapped]_wvars
  BY <1>2
<1>4. HSpec => []TestInv
  BY HistTest
<1> QED
  BY <1>1, <1>3, <1>4, PTL DEF HSpec, ImplementsInterlock

-----------------------------------------------------------------------------
(* What cancels a countdown. *)

\* The gap that breaks a return is no match for the clock's width.  In the code
\* it is 10 s at most (CONFIG_RB_SAFETY_PRESENCE_RETURN_GAP_MS).
ReturnGapFits == \A c \in Configs, gap \in StepGaps : c.return_gap + gap < Wrap

\* The return timer runs no longer than someone has been seen without a gap.
ReturnInv ==
    /\ hist \in History
    /\ hist.away_until <= now
    /\ back.timing =>
          /\ hist.away_until <= back.since
          /\ back.last = hist.last_seen
          /\ \E c \in Configs : now - back.last <= c.return_gap

LEMMA HistTyped ==
    ASSUME VInv, hist \in History, NEW in \in Inputs, NEW gap \in StepGaps, HStep(in, gap)
    PROVE  hist' \in History
<1>1. VInv'
  <2>1. Next
    BY DEF Next, HStep
  <2> QED
    BY <2>1, NextValid
<1>2. now' \in Nat /\ sm'.unattended_start \in Nat /\ sm'.unattended_active \in BOOLEAN
  BY <1>1 DEF VInv, IInv, TypeOK, Machine
<1>3. in.reset_request \in BOOLEAN /\ in.safety_fault \in BOOLEAN
  BY InputsAssumption DEF Input
<1> DEFINE paused == PauseClock(sm, in.presence, cfg, gap)
           anew == ~sm.unattended_active \/ Reopened(paused)
           open == sm'.unattended_active
           breaks == \/ in.presence = "unknown"
                     \/ in.presence = "absent" /\ now' - hist.last_seen >= cfg.return_gap
           kept == open /\ ~anew
           falls == open /\ sm'.hold = "falling"
           hd == (kept /\ hist.held) \/ (open /\ sm'.hold \in DueHolds)
           fg == falls \/ (kept /\ hist.falling)
           fa == in.safety_fault \/ in.self_test # "pass"
<1>4. hist' = [ began |-> IF open /\ anew THEN sm'.unattended_start ELSE hist.began,
               alone_since |-> IF Attended(in) THEN now' ELSE hist.alone_since,
               danger_since |-> IF Danger(in) THEN hist.danger_since ELSE now',
               last_seen |-> IF in.presence = "present" THEN now' ELSE hist.last_seen,
               away_until |-> IF breaks THEN now' ELSE hist.away_until,
               held |-> hd,
               fell |-> IF falls /\ ~(kept /\ hist.falling) THEN now' ELSE hist.fell,
               falling |-> fg,
               held_since |-> IF sm'.hold \in DueHolds /\ sm'.state = sm.state
                              THEN hist.held_since ELSE now',
               reset |-> in.reset_request,
               fault |-> fa ]
  BY DEF HStep
<1>5. /\ hist.began \in Nat /\ hist.alone_since \in Nat /\ hist.danger_since \in Nat
      /\ hist.last_seen \in Nat /\ hist.away_until \in Nat /\ hist.fell \in Nat
      /\ hist.held_since \in Nat
  BY DEF History
<1>6. hd \in BOOLEAN /\ fg \in BOOLEAN /\ fa \in BOOLEAN
  BY <1>2, <1>3 DEF History
<1> HIDE DEF paused, anew, open, breaks, kept, falls, hd, fg, fa
<1> QED
  BY <1>2, <1>3, <1>4, <1>5, <1>6 DEF History

LEMMA ReturnStep ==
    ASSUME VInv, cfg \in Configs, ReturnInv, ReturnGapFits,
           NEW in \in Inputs, NEW gap \in StepGaps, HStep(in, gap)
    PROVE  ReturnInv'
<1> DEFINE t == now + gap
           breaks == \/ in.presence = "unknown"
                     \/ in.presence = "absent" /\ t - hist.last_seen >= cfg.return_gap
<1>1. /\ t \in Nat /\ now \in Nat /\ gap \in Nat /\ now' = t /\ now <= t /\ cfg \in Config
      /\ back \in Back /\ back.last <= now
      /\ back' = ReturnTimer(back, in.presence, cfg, t) /\ in.presence \in {"present", "absent", "unknown"}
  BY InputsAssumption, ClockAssumption
  DEF HStep, Step, Outcome, VInv, IInv, TypeOK, StartsInThePast, Input
<1>2. /\ hist'.last_seen = IF in.presence = "present" THEN t ELSE hist.last_seen
      /\ hist'.away_until = IF breaks THEN t ELSE hist.away_until
  BY <1>1 DEF HStep
<1>3. hist' \in History /\ hist \in History /\ hist.away_until \in Nat /\ hist.away_until <= now
  BY HistTyped DEF ReturnInv, History
<1> HIDE DEF t
<1>4. CASE in.presence = "present"
  <2>1. back'.timing /\ back'.last = t /\ back'.since = IF back.timing THEN back.since ELSE t
    BY <1>1, <1>4 DEF ReturnTimer
  <2>2. t - t <= cfg.return_gap
    BY <1>1 DEF Config
  <2> QED
    BY <1>1, <1>2, <1>3, <1>4, <2>1, <2>2 DEF ReturnInv, t
<1>5. CASE in.presence = "unknown"
  <2>1. ~back'.timing
    BY <1>1, <1>5 DEF ReturnTimer, Back
  <2> QED
    BY <1>1, <1>2, <1>3, <2>1 DEF ReturnInv
<1>6. CASE in.presence = "absent"
  <2>1. /\ back'.since = back.since /\ back'.last = back.last
        /\ back'.timing <=> back.timing /\ ~Elapsed(t, back.last, cfg.return_gap)
    BY <1>1, <1>6 DEF ReturnTimer, Back
  <2>2. CASE back'.timing
    <3>1. PICK c \in Configs : now - back.last <= c.return_gap
      BY <2>1, <2>2 DEF ReturnInv
    <3>2. t - back.last < Wrap
      <4>1. c.return_gap + gap < Wrap /\ c.return_gap \in Nat /\ back.last \in Nat
        BY <1>1, ConfigsAssumption DEF ReturnGapFits, Config, Back
      <4> QED
        BY <1>1, <3>1, <4>1, ClockAssumption DEF t
    <3>3. t - back.last < cfg.return_gap
      BY <1>1, <2>1, <2>2, <3>2, ElapsedFits DEF Config, Back
    <3>4. back.last = hist.last_seen /\ hist.away_until <= back.since
      BY <2>1, <2>2 DEF ReturnInv
    <3>5. ~breaks
      BY <1>1, <1>6, <3>3, <3>4 DEF Config, Back
    <3>6. t - back'.last <= cfg.return_gap
      BY <1>1, <2>1, <3>3 DEF Config, Back
    <3> QED
      BY <1>1, <1>2, <1>3, <1>6, <2>1, <3>4, <3>5, <3>6 DEF ReturnInv, t
  <2>3. CASE ~back'.timing
    BY <1>1, <1>2, <1>3, <2>3 DEF ReturnInv, t
  <2> QED
    BY <2>2, <2>3
<1> QED
  BY <1>1, <1>4, <1>5, <1>6

\* A pause moves the starts of the countdown on together, by the time it takes
\* from the account.
LEMMA PauseDelays ==
    ASSUME NEW s \in Machine, NEW c \in Config, NEW gap \in Nat, NEW presence
    PROVE  LET p == PauseClock(s, presence, c, gap)
           IN  \E d \in 0..gap :
                  /\ p.unattended_start = s.unattended_start + d
                  /\ p.pause_used = s.pause_used + d
                  /\ p.warning_start = IF s.warning_started THEN s.warning_start + d
                                       ELSE s.warning_start
<1> DEFINE left == PauseBudget(s, c) - s.pause_used
           dt == Min2(Min2(gap, PauseStepMax), left)
           p == PauseClock(s, presence, c, gap)
           stands == /\ s.state \in {"UNATTENDED", "WARNING"} /\ s.unattended_active
                     /\ presence = "present" /\ left > 0
<1>1. PauseBudget(s, c) \in Nat
  BY DEF PauseBudget, Min2, Machine, Config
<1>2. left > 0 => dt \in 0..gap
  BY <1>1, ClockAssumption DEF Min2, Machine
<1> HIDE DEF left, dt
<1>3. p = IF stands
          THEN [s EXCEPT !.unattended_start = @ + dt,
                         !.warning_start = IF s.warning_started THEN @ + dt ELSE @,
                         !.pause_used = @ + dt]
          ELSE s
  BY DEF PauseClock, left, dt
<1>4. CASE stands
  <2>1. /\ dt \in 0..gap /\ p.unattended_start = s.unattended_start + dt
        /\ p.pause_used = s.pause_used + dt
        /\ p.warning_start = IF s.warning_started THEN s.warning_start + dt ELSE s.warning_start
    BY <1>2, <1>3, <1>4 DEF Machine
  <2> QED
    BY <2>1
<1>5. CASE ~stands
  <2>1. /\ 0 \in 0..gap /\ p.unattended_start = s.unattended_start + 0
        /\ p.pause_used = s.pause_used + 0
        /\ p.warning_start = IF s.warning_started THEN s.warning_start + 0 ELSE s.warning_start
    BY <1>3, <1>5 DEF Machine
  <2> QED
    BY <2>1
<1> QED
  BY <1>4, <1>5

\* The shutdown of the countdown that a step found running is due.
CutDue(r, e) ==
    IF e.cfg.shutdown_timing = "unattended_start"
    THEN e.t - r.unattended_start >= e.eff_shutdown
    ELSE r.warning_started /\ e.t - r.warning_start >= e.eff_shutdown

\* The countdown of r is still running in the machine of a later pass.
StillRuns(x, r, t, e) ==
    /\ x.state \in {"UNATTENDED", "WARNING", "FAULT", "SHUTDOWN"}
    /\ x.unattended_active
    /\ x.unattended_start = r.unattended_start /\ x.pause_used = r.pause_used
    /\ IF r.warning_started THEN x.warning_started /\ x.warning_start = r.warning_start
       ELSE x.warning_started => x.warning_start = t
    /\ x.state = "FAULT" => ~SystemOk(e) /\ x.state_entered = t
    /\ x.state = "SHUTDOWN" => CutDue(r, e)

Justified(r, e) ==
    \/ e.person_returned
    \/ CooledDown(e)
    \/ e.reset_request /\ CutDue(r, e)

LEMMA RunningMoves ==
    ASSUME NEW s, NEW t, NEW e, NEW r, NEW y, Sound(s, t), Sound(y, t), Sound(r, t),
           ValidFacts(e, t), Legal(s, y.state, e), Moved(s, y, t), StillRuns(s, r, t, e)
    PROVE  StillRuns(y, r, t, e) \/ Justified(r, e)
<1>1. /\ s \in Machine /\ y \in Machine /\ r \in Machine /\ e.t = t /\ t \in Nat
      /\ e.eff_shutdown \in Nat \ {0} /\ e.cfg.fault_shutdown \in Nat
      /\ Past(r, t)
  BY DEF Sound, ValidFacts, FactsAt, Config
<1>2. ShutdownDue(s, e) => CutDue(r, e)
  <2>1. ASSUME ShutdownDue(s, e), e.cfg.shutdown_timing = "unattended_start"
        PROVE  t - r.unattended_start >= e.eff_shutdown
    BY <1>1, <2>1, ElapsedReal DEF ShutdownDue, StillRuns, Machine, Past
  <2>2. ASSUME ShutdownDue(s, e), e.cfg.shutdown_timing # "unattended_start"
        PROVE  r.warning_started /\ t - r.warning_start >= e.eff_shutdown
    <3>1. s.warning_started /\ Elapsed(t, s.warning_start, e.eff_shutdown)
      BY <1>1, <2>2 DEF ShutdownDue
    <3>2. r.warning_started
      BY <1>1, <3>1, ElapsedNow DEF StillRuns
    <3> QED
      BY <1>1, <3>1, <3>2, ElapsedReal DEF StillRuns, Machine, Past
  <2> QED
    BY <1>1, <2>1, <2>2 DEF CutDue
<1>3. ASSUME s.state = "FAULT"
      PROVE  ~(e.cfg.fault_shutdown > 0 /\ Elapsed(e.t, s.state_entered, e.cfg.fault_shutdown))
  BY <1>1, <1>3, ElapsedNow DEF StillRuns
<1>4. \/ e.person_returned
      \/ CooledDown(e)
      \/ e.reset_request /\ CutDue(r, e)
      \/ y.state = "FAULT" /\ ~SystemOk(e)
      \/ y.state = "WARNING"
      \/ y.state = "SHUTDOWN" /\ CutDue(r, e)
  BY <1>2, <1>3 DEF Legal, Running, StillRuns
<1>5. y.state \in {"FAULT", "WARNING", "SHUTDOWN"} =>
        /\ y.state_entered = t /\ y.unattended_active
        /\ y.unattended_start = s.unattended_start /\ y.pause_used = s.pause_used
        /\ y.warning_started = (s.warning_started \/ y.state = "WARNING")
        /\ y.warning_start = IF y.warning_started /\ ~s.warning_started
                             THEN t ELSE s.warning_start
  BY DEF Moved, StillRuns
<1>6. CASE y.state = "FAULT" /\ ~SystemOk(e)
  BY <1>5, <1>6 DEF StillRuns
<1>7. CASE y.state = "WARNING"
  BY <1>5, <1>7 DEF StillRuns
<1>8. CASE y.state = "SHUTDOWN" /\ CutDue(r, e)
  BY <1>5, <1>8 DEF StillRuns
<1> QED
  BY <1>4, <1>6, <1>7, <1>8 DEF Justified

LEMMA CancelStep ==
    ASSUME VInv, cfg \in Configs, ReturnInv, ReturnInv',
           NEW in \in Inputs, NEW gap \in StepGaps, HStep(in, gap),
           sm.state \in {"UNATTENDED", "WARNING"}, TimelineLost
    PROVE  \/ ReturnSeen
           \/ ~heat'.active /\ cfg.cooling_policy = "idle"
           \/ CutAndReset
<1> DEFINE t == now + gap
           e == Read(in, gap)
           r == Ready(in, gap)
           p == PauseClock(sm, in.presence, cfg, gap)
           A == {x \in Machine : Sound(x, t) /\ (StillRuns(x, r, t, e) \/ Justified(r, e))}
<1>1. Step(in, gap) /\ sm \in Machine /\ Shape(sm) /\ cfg \in Config /\ gap \in Nat
  BY ClockAssumption DEF HStep, VInv, IInv, TypeOK, TimelineShape
<1>2. /\ t \in Nat /\ now \in Nat /\ now' = t /\ cfg' = cfg
      /\ Sound(r, t) /\ ValidFacts(e, t) /\ e.t = t /\ e.cfg = cfg
      /\ e.reset_request = in.reset_request /\ e.cooking = heat'.active
      /\ e.person_returned = PresentConfirmed(back', in.presence, cfg, t)
      /\ e.eff_shutdown = EffShutdown(cfg, tier'.tier)
  BY <1>1, StepParts DEF Step, ValidFacts, FactsAt
<1>3. /\ r.state = sm.state /\ r.unattended_active = sm.unattended_active
      /\ r.warning_started = sm.warning_started
      /\ r.unattended_start = p.unattended_start
      /\ r.warning_start = p.warning_start /\ r.pause_used = p.pause_used
  BY ReadyFields
<1>4. PICK d \in 0..gap :
        /\ p.unattended_start = sm.unattended_start + d
        /\ p.warning_start = IF sm.warning_started THEN sm.warning_start + d
                             ELSE sm.warning_start
  BY <1>1, PauseDelays
<1>5. hist'.began = IF sm'.unattended_active /\ (~sm.unattended_active \/ Reopened(p))
                    THEN sm'.unattended_start ELSE hist.began
  BY DEF HStep
<1> HIDE DEF t, e, r, p
<1>6. sm.unattended_active
  BY <1>1 DEF Shape
<1>7. r \in A
  <2>1. StillRuns(r, r, t, e)
    BY <1>3, <1>6 DEF StillRuns
  <2> QED
    BY <1>2, <2>1 DEF Sound
<1>8. ASSUME NEW x \in A, NEW y \in Machine, Sound(y, t), Legal(x, y.state, e), Moved(x, y, t)
      PROVE  y \in A
  BY <1>2, <1>8, RunningMoves
<1>9. ASSUME NEW x \in A, NEW y \in Machine, Sound(y, t), SameTimeline(x, y)
      PROVE  y \in A
  BY <1>9 DEF SameTimeline, StillRuns
<1>10. sm' \in A
  BY <1>1, <1>7, <1>8, <1>9, StepEndsIn DEF e, r, t
<1>11. ~StillRuns(sm', r, t, e)
  <2> SUFFICES ASSUME StillRuns(sm', r, t, e)
               PROVE  FALSE
    OBVIOUS
  <2>1. /\ sm'.unattended_active /\ sm'.unattended_start = p.unattended_start
        /\ sm'.pause_used = p.pause_used
    BY <1>3 DEF StillRuns
  <2>2. p.pause_used \in Nat
    BY <1>2, <1>3 DEF Sound, Machine
  <2>3. ~Reopened(p)
    BY <2>1, <2>2 DEF Reopened
  <2> QED
    BY <1>5, <1>6, <2>1, <2>3 DEF TimelineLost
<1>12. Justified(r, e)
  BY <1>10, <1>11
<1>13. CASE e.person_returned
  <2>1. /\ back'.timing /\ in.presence = "present" /\ Elapsed(t, back'.since, cfg.return_debounce)
    BY <1>2, <1>13 DEF PresentConfirmed
  <2>2. back' \in Back /\ back'.since <= t
    BY <1>1, <1>2, StepSound DEF VInv, IInv, TypeOK, StartsInThePast
  <2>3. t - back'.since >= cfg.return_debounce
    BY <1>1, <1>2, <2>1, <2>2, ElapsedReal DEF Back, Config
  <2>4. hist'.last_seen = t
    BY <1>2, <2>1 DEF HStep
  <2>5. hist'.away_until <= back'.since /\ hist'.away_until \in Nat
    BY <2>1 DEF ReturnInv, History
  <2>6. now' - hist'.away_until >= cfg.return_debounce
    BY <1>1, <1>2, <2>2, <2>3, <2>5 DEF Back, Config
  <2> QED
    BY <1>2, <2>4, <2>6 DEF ReturnSeen
<1>14. CASE CooledDown(e)
  BY <1>2, <1>14 DEF CooledDown
<1>15. CASE e.reset_request /\ CutDue(r, e)
  <2>1. hist'.reset
    BY <1>2, <1>15 DEF HStep
  <2>2. /\ sm.unattended_start \in Nat /\ sm.warning_start \in Nat /\ e.eff_shutdown \in Nat
    BY <1>1, <1>2 DEF Machine, ValidFacts
  <2>3. CASE cfg.shutdown_timing = "unattended_start"
    <3>1. t - p.unattended_start >= e.eff_shutdown
      BY <1>2, <1>3, <1>15, <2>3 DEF CutDue
    <3> QED
      BY <1>1, <1>2, <1>4, <2>1, <2>2, <2>3, <3>1 DEF CutAndReset
  <2>4. CASE cfg.shutdown_timing # "unattended_start"
    <3>1. sm.warning_started /\ t - p.warning_start >= e.eff_shutdown
      BY <1>2, <1>3, <1>15, <2>4 DEF CutDue
    <3> QED
      BY <1>1, <1>2, <1>4, <2>1, <2>2, <2>4, <3>1 DEF CutAndReset
  <2> QED
    BY <2>3, <2>4
<1> QED
  BY <1>12, <1>13, <1>14, <1>15 DEF Justified

\* Whatever a step reads, however many transitions it makes: a countdown that
\* was running before it, and has gone after it, went by a return that lasted,
\* by a pan that cooled down where the policy says so, or through a shutdown
\* that was really due and was reset in the same step.
THEOREM CancelledByAReturn ==
    ASSUME ReturnGapFits
    PROVE  HSpec => OnlyAReturnCancels
<1> DEFINE Inv == VInv /\ cfg \in Configs /\ ReturnInv
           Lost == sm.state \in {"UNATTENDED", "WARNING"} /\ TimelineLost =>
                     \/ ReturnSeen
                     \/ ~heat'.active /\ cfg.cooling_policy = "idle"
                     \/ CutAndReset
<1>1. HInit => Inv
  <2>1. HInit => VInv /\ cfg \in Configs
    BY InitValid DEF HInit, Init
  <2>2. HInit => ReturnInv
    BY DEF HInit, Init, ReturnInv, History
  <2> QED
    BY <2>1, <2>2
<1>2. ASSUME Inv, [HNext]_wvars
      PROVE  Inv' /\ [Lost]_wvars
  <2>1. VInv'
    BY <1>2, NextValid, HistNext
  <2>2. ASSUME NEW in \in Inputs, NEW gap \in StepGaps, HStep(in, gap)
        PROVE  Inv' /\ Lost
    <3>1. cfg' = cfg
      BY <2>2 DEF HStep, Step
    <3>2. ReturnInv'
      BY <1>2, <2>2, ReturnStep
    <3> QED
      BY <1>2, <2>1, <2>2, <3>1, <3>2, CancelStep
  <2>3. ASSUME NEW c \in Configs, HSetConfig(c)
        PROVE  Inv' /\ Lost
    <3>1. /\ UNCHANGED <<now, heat, tier, back, sm>> /\ cfg' \in Configs
          /\ hist' \in {hist, [hist EXCEPT !.danger_since = now]}
      BY <1>2, <2>3 DEF HSetConfig, SetConfig
    <3>2. hist \in History /\ now \in Nat
      BY <1>2 DEF ReturnInv, VInv, IInv, TypeOK
    <3>3. /\ hist' \in History /\ hist'.away_until = hist.away_until
          /\ hist'.last_seen = hist.last_seen /\ hist'.began = hist.began
      BY <3>1, <3>2 DEF History
    <3>4. ReturnInv'
      BY <1>2, <3>1, <3>3 DEF ReturnInv
    <3> QED
      BY <2>1, <3>1, <3>3, <3>4 DEF TimelineLost
  <2>4. CASE UNCHANGED wvars
    <3>1. cfg' = cfg /\ ReturnInv'
      BY <1>2, <2>4 DEF wvars, vars, ReturnInv
    <3> QED
      BY <1>2, <2>1, <2>4, <3>1
  <2> QED
    BY <1>2, <2>2, <2>3, <2>4 DEF HNext
<1>3. Inv /\ [HNext]_wvars => Inv' /\ [Lost]_wvars
  BY <1>2
<1> QED
  BY <1>1, <1>3, PTL DEF HSpec, OnlyAReturnCancels

-----------------------------------------------------------------------------
(* Never too early. *)

\* The clock has not come half round, so that later() is the later one: 24 days
\* of the controller's uptime.
Uptime == MaxTime < Wrap \div 2

\* No start of the machine lies before the time a was counted from.
Since(s, a) ==
    /\ s.unattended_active => a <= s.unattended_start - s.pause_used
    /\ s.warning_started => s.unattended_start <= s.warning_start
    /\ s.state = "MONITORING" /\ s.absent_timing =>
          a <= Max2(s.absent_since, s.monitoring_since)
    /\ s.state = "FAULT" /\ ~s.unattended_active => a <= s.state_entered

\* The same during a step at t that began in the machine b: and in SHUTDOWN the
\* countdown has run its time, or the fault of b has.
SinceInStep(x, b, a, t, e) ==
    /\ Since(x, a)
    /\ x.state = "FAULT" =>
          x.state_entered = t \/ (b.state = "FAULT" /\ x.state_entered = b.state_entered)
    /\ x.state = "SHUTDOWN" /\ b.state # "SHUTDOWN" =>
          \/ t - a >= e.eff_shutdown + x.pause_used
          \/ /\ b.state = "FAULT" /\ e.cfg.fault_shutdown > 0
             /\ t - b.state_entered >= e.cfg.fault_shutdown

LEMMA SinceMoves ==
    ASSUME Uptime, NEW s, NEW t, NEW e, NEW b \in Machine, NEW a \in Nat, NEW y,
           a <= t, t <= MaxTime, Past(b, t),
           Sound(s, t), Sound(y, t), ValidFacts(e, t),
           Legal(s, y.state, e), Moved(s, y, t), SinceInStep(s, b, a, t, e)
    PROVE  SinceInStep(y, b, a, t, e)
<1>1. /\ s \in Machine /\ y \in Machine /\ Shape(s) /\ Shape(y) /\ Past(s, t) /\ Past(y, t)
      /\ e.t = t /\ t \in Nat
      /\ e.eff_shutdown \in Nat \ {0} /\ e.cfg.fault_shutdown \in Nat
  BY DEF Sound, ValidFacts, FactsAt, Config
<1>2. y.state_entered = t
  BY DEF Moved
<1>3. ShutdownDue(s, e) => t - a >= e.eff_shutdown + s.pause_used
  <2> SUFFICES ASSUME ShutdownDue(s, e)
               PROVE  t - a >= e.eff_shutdown + s.pause_used
    OBVIOUS
  <2>1. /\ s.unattended_active /\ a <= s.unattended_start - s.pause_used
        /\ s.unattended_start \in Nat /\ s.pause_used \in Nat /\ s.warning_start \in Nat
    BY <1>1 DEF ShutdownDue, Shape, SinceInStep, Since, Machine
  <2>2. \/ t - s.unattended_start >= e.eff_shutdown
        \/ s.warning_started /\ t - s.warning_start >= e.eff_shutdown
    BY <1>1, ElapsedReal DEF ShutdownDue, Machine, Past
  <2>3. s.warning_started => s.unattended_start <= s.warning_start
    BY DEF SinceInStep, Since
  <2> QED
    BY <1>1, <2>1, <2>2, <2>3
<1>4. ASSUME y.state = "SHUTDOWN", b.state # "SHUTDOWN"
      PROVE  \/ t - a >= e.eff_shutdown + y.pause_used
             \/ /\ b.state = "FAULT" /\ e.cfg.fault_shutdown > 0
                /\ t - b.state_entered >= e.cfg.fault_shutdown
  <2>1. \/ ShutdownDue(s, e)
        \/ /\ s.state = "FAULT" /\ e.cfg.fault_shutdown > 0
           /\ Elapsed(t, s.state_entered, e.cfg.fault_shutdown)
    BY <1>1, <1>4 DEF Legal, Running
  <2>2. y.pause_used = s.pause_used
    BY <1>4 DEF Moved
  <2>3. CASE ShutdownDue(s, e)
    BY <1>3, <2>2, <2>3
  <2>4. CASE /\ s.state = "FAULT" /\ e.cfg.fault_shutdown > 0
             /\ Elapsed(t, s.state_entered, e.cfg.fault_shutdown)
    <3>1. t - s.state_entered >= e.cfg.fault_shutdown
      BY <1>1, <2>4, ElapsedReal DEF Machine, Past
    <3>2. s.state_entered # t
      BY <1>1, <2>4, <3>1
    <3> QED
      BY <2>4, <3>1, <3>2 DEF SinceInStep
  <2> QED
    BY <2>1, <2>3, <2>4
<1>5. CASE y.state \in {"IDLE", "MONITORING"}
  <2>1. ~y.unattended_active /\ ~y.warning_started
    BY <1>1, <1>5 DEF Shape
  <2>2. y.state = "MONITORING" => y.monitoring_since = t /\ y.absent_since <= t
    BY <1>1 DEF Moved, Past
  <2>3. y.state = "MONITORING" => a <= Max2(y.absent_since, y.monitoring_since)
    BY <1>1, <2>2 DEF Max2, Machine
  <2> QED
    BY <1>5, <2>1, <2>3 DEF SinceInStep, Since
<1>6. CASE y.state \notin {"IDLE", "MONITORING"}
  <2>1. /\ y.pause_used = s.pause_used
        /\ y.unattended_active = (s.unattended_active \/ y.state = "UNATTENDED")
        /\ y.unattended_start = IF y.unattended_active /\ ~s.unattended_active
                                THEN Opening(s, t) ELSE s.unattended_start
        /\ y.warning_started = (s.warning_started \/ y.state = "WARNING")
        /\ y.warning_start = IF y.warning_started /\ ~s.warning_started
                             THEN t ELSE s.warning_start
    BY <1>6 DEF Moved
  <2>2. y.unattended_active => a <= y.unattended_start - y.pause_used
    <3>1. CASE s.unattended_active
      BY <1>1, <2>1, <3>1 DEF SinceInStep, Since
    <3>2. CASE ~s.unattended_active /\ y.unattended_active
      <4>1. y.pause_used = 0 /\ y.state = "UNATTENDED"
        BY <1>1, <2>1, <3>2 DEF Shape
      <4>2. s.state = "FAULT" \/ (s.state = "MONITORING" /\ s.absent_timing)
        BY <1>1, <3>2, <4>1 DEF Legal, Running, AbsentConfirmed, Shape
      <4>3. CASE s.state = "FAULT"
        BY <1>1, <2>1, <3>2, <4>1, <4>3 DEF Opening, SinceInStep, Since, Machine
      <4>4. CASE s.state = "MONITORING" /\ s.absent_timing
        <5>1. /\ s.absent_since \in Nat /\ s.monitoring_since \in Nat
              /\ s.absent_since <= t /\ s.monitoring_since <= t
          BY <1>1 DEF Machine, Past
        <5>2. Later(s.absent_since, s.monitoring_since) = Max2(s.absent_since, s.monitoring_since)
          <6>1. /\ s.absent_since - s.monitoring_since < Wrap \div 2
                /\ s.monitoring_since - s.absent_since <= Wrap \div 2
            BY <1>1, <5>1, ClockAssumption DEF Uptime
          <6> QED
            BY <5>1, <6>1, LaterFits
        <5>3. y.unattended_start = Max2(s.absent_since, s.monitoring_since)
          BY <2>1, <3>2, <4>4, <5>2 DEF Opening
        <5>4. Max2(s.absent_since, s.monitoring_since) \in Nat
          BY <5>1 DEF Max2
        <5> QED
          BY <4>1, <4>4, <5>3, <5>4 DEF SinceInStep, Since
      <4> QED
        BY <4>2, <4>3, <4>4
    <3> QED
      BY <3>1, <3>2
  <2>3. y.warning_started => y.unattended_start <= y.warning_start
    <3>1. CASE s.warning_started
      <4>1. s.unattended_active
        BY <1>1, <3>1 DEF Shape
      <4> QED
        BY <1>1, <2>1, <3>1, <4>1 DEF SinceInStep, Since
    <3>2. CASE ~s.warning_started
      BY <1>1, <2>1, <3>2 DEF Past
    <3> QED
      BY <3>1, <3>2
  <2>4. Since(y, a)
    BY <1>2, <1>6, <2>2, <2>3 DEF Since
  <2> QED
    BY <1>2, <1>4, <1>6, <2>4 DEF SinceInStep
<1> QED
  BY <1>5, <1>6

EarlyInv ==
    /\ hist \in History
    /\ hist.alone_since <= now
    /\ Since(sm, hist.alone_since)

\* What the passes of a step keep for the times nobody had to be counted away.
Attending(x, b, t, e) ==
    /\ x.absent_timing => ~e.person_returned
    /\ b.unattended_active =>
          /\ x.state = "MONITORING" => x.monitoring_since = t
          /\ x.state = "FAULT" /\ ~x.unattended_active => x.state_entered = t
    /\ b.state = "SHUTDOWN" =>
          x.state = "SHUTDOWN" \/ (Anew(x, t) /\ x.pause_used = 0)

LEMMA AttendingMoves ==
    ASSUME NEW s, NEW t, NEW e, NEW b, NEW y, Sound(s, t), Sound(y, t), ValidFacts(e, t),
           Legal(s, y.state, e), Moved(s, y, t), Attending(s, b, t, e)
    PROVE  Attending(y, b, t, e)
<1>1. /\ y.absent_timing = s.absent_timing /\ y.state_entered = t
      /\ y.state = "MONITORING" => y.monitoring_since = t
  BY DEF Moved
<1>2. ASSUME b.state = "SHUTDOWN"
      PROVE  Anew(y, t) /\ y.pause_used = 0
  <2>1. Anew(y, t)
    BY <1>2, AnewMoves DEF Attending
  <2>2. y.state \in {"IDLE", "MONITORING"} => y.pause_used = 0
    BY DEF Sound, Shape
  <2>3. y.state \notin {"IDLE", "MONITORING"} => s.state # "SHUTDOWN" /\ y.pause_used = s.pause_used
    BY <2>1 DEF Moved, Anew, Legal, Running
  <2> QED
    BY <1>2, <2>1, <2>2, <2>3 DEF Attending
<1> QED
  BY <1>1, <1>2 DEF Attending

LEMMA AttendedSince ==
    ASSUME NEW in, NEW e, VInv', TestInv, sm' \in Machine,
           Attended(in), Attending(sm', sm, now', e), AtRest(sm', e),
           e.reset_request = in.reset_request,
           e.person_returned = PresentConfirmed(back', in.presence, cfg, now')
    PROVE  Since(sm', now')
<1>1. Shape(sm') /\ Past(sm', now') /\ now' \in Nat /\ sm'.state \in States
  BY DEF VInv, IInv, TypeOK, TimelineShape, StartsInThePast, Machine
<1>2. CASE sm'.state \in {"BOOT", "SELF_TEST", "IDLE"}
  BY <1>1, <1>2 DEF Shape, Since
<1>3. CASE in.reset_request /\ sm.state = "SHUTDOWN"
  <2>1. sm'.state # "SHUTDOWN"
    BY <1>1, <1>3, RestFacts
  <2>2. Anew(sm', now') /\ sm'.pause_used = 0
    BY <1>3, <2>1 DEF Attending
  <2>3. sm'.state = "MONITORING" => now' <= Max2(sm'.absent_since, sm'.monitoring_since)
    BY <1>1, <2>2 DEF Anew, Max2, Past, Machine
  <2> QED
    BY <1>1, <2>2, <2>3 DEF Anew, Since
<1>4. CASE sm.unattended_active /\ ~sm'.unattended_active
  <2>1. sm'.state = "MONITORING" => sm'.monitoring_since = now'
    BY <1>4 DEF Attending
  <2>2. sm'.state = "MONITORING" => now' <= Max2(sm'.absent_since, sm'.monitoring_since)
    BY <1>1, <2>1 DEF Max2, Past, Machine
  <2>3. sm'.state = "FAULT" => now' <= sm'.state_entered
    BY <1>1, <1>4 DEF Attending
  <2> QED
    BY <1>1, <1>4, <2>2, <2>3 DEF Since, Shape
<1>5. CASE sm'.state = "MONITORING" /\ PresentConfirmed(back', in.presence, cfg, now')
  BY <1>1, <1>5 DEF Attending, Since, Shape
<1> QED
  BY <1>2, <1>3, <1>4, <1>5 DEF Attended

LEMMA EarlyStep ==
    ASSUME TestInv, EarlyInv, Uptime, SelfTestFits,
           NEW in \in Inputs, NEW gap \in StepGaps, HStep(in, gap)
    PROVE  /\ EarlyInv'
           /\ Cuts => \/ now' - hist'.alone_since >= sm'.eff_shutdown + sm'.pause_used
                      \/ FaultPersisted
<1> DEFINE t == now + gap
           e == Read(in, gap)
           r == Ready(in, gap)
           p == PauseClock(sm, in.presence, cfg, gap)
           a == hist.alone_since
           A == {x \in Machine : Sound(x, t) /\ SinceInStep(x, sm, a, t, e)
                                 /\ Attending(x, sm, t, e)}
<1>1. VInv /\ VInv' /\ Step(in, gap)
  <2>1. Next
    BY DEF Next, HStep
  <2> QED
    BY <2>1, NextValid DEF TestInv, HStep
<1>2. /\ sm \in Machine /\ Shape(sm) /\ Past(sm, now) /\ cfg \in Config /\ gap \in Nat
      /\ sm' \in Machine /\ a \in Nat /\ a <= now
  BY <1>1, ClockAssumption DEF VInv, IInv, TypeOK, TimelineShape, StartsInThePast, EarlyInv, History
<1>3. /\ t \in Nat /\ now \in Nat /\ now <= t /\ now' = t /\ cfg' = cfg /\ t <= MaxTime
      /\ Sound(r, t) /\ ValidFacts(e, t) /\ e.t = t /\ e.cfg = cfg
      /\ e.reset_request = in.reset_request
      /\ e.person_returned = PresentConfirmed(back', in.presence, cfg, t)
      /\ sm' = Settle(r, e).sm
  BY <1>1, StepParts DEF Step, ValidFacts, FactsAt
<1>4. /\ r.state = sm.state /\ r.state_entered = sm.state_entered
      /\ r.monitoring_since = sm.monitoring_since
      /\ r.unattended_active = sm.unattended_active
      /\ r.warning_started = sm.warning_started
      /\ r.unattended_start = p.unattended_start
      /\ r.warning_start = p.warning_start /\ r.pause_used = p.pause_used
      /\ r.absent_timing => /\ ~e.person_returned
                            /\ r.absent_since = IF sm.absent_timing THEN sm.absent_since ELSE t
  BY <1>1, ReadyFields
<1>5. PICK d \in 0..gap :
        /\ p.unattended_start = sm.unattended_start + d
        /\ p.pause_used = sm.pause_used + d
        /\ p.warning_start = IF sm.warning_started THEN sm.warning_start + d
                             ELSE sm.warning_start
  BY <1>2, PauseDelays
<1>6. AtRest(sm', e) /\ Since(sm, a)
  BY <1>1, StepAtRest DEF EarlyInv
<1> HIDE DEF t, e, r, p, a
<1>7. r \in A
  <2>1. r \in Machine /\ Shape(r)
    BY <1>3 DEF Sound
  <2>2. r.unattended_active => a <= r.unattended_start - r.pause_used
    BY <1>2, <1>4, <1>5, <1>6 DEF Since, Machine
  <2>3. r.warning_started => r.unattended_start <= r.warning_start
    BY <1>2, <1>4, <1>5, <1>6 DEF Since, Machine
  <2>4. r.state = "MONITORING" /\ r.absent_timing => a <= Max2(r.absent_since, r.monitoring_since)
    BY <1>2, <1>3, <1>4, <1>6 DEF Since, Max2, Machine
  <2>5. SinceInStep(r, sm, a, t, e)
    BY <1>4, <1>6, <2>2, <2>3, <2>4 DEF SinceInStep, Since
  <2>6. Attending(r, sm, t, e)
    <3>1. sm.unattended_active => sm.state # "MONITORING"
      BY <1>2 DEF Shape
    <3> QED
      BY <1>4, <3>1 DEF Attending
  <2> QED
    BY <1>3, <2>1, <2>5, <2>6
<1>8. Past(sm, t) /\ a <= t
  BY <1>2, <1>3 DEF Past, Machine
<1>9. ASSUME NEW x \in A, NEW y \in Machine, Sound(y, t), Legal(x, y.state, e), Moved(x, y, t)
      PROVE  y \in A
  BY <1>2, <1>3, <1>8, <1>9, SinceMoves, AttendingMoves
<1>10. ASSUME NEW x \in A, NEW y \in Machine, Sound(y, t), SameTimeline(x, y)
      PROVE  y \in A
  BY <1>10 DEF SameTimeline, SinceInStep, Since, Attending, Anew
<1>11. sm' \in A /\ sm'.eff_shutdown = e.eff_shutdown
  <2>1. ~Settle(r, e).again /\ FactsAt(e, t)
    BY <1>3, StepRests DEF e, r, ValidFacts
  <2> HIDE DEF A
  <2>2. \A x \in A : Sound(x, t)
    BY DEF A
  <2> QED
    BY <1>3, <1>7, <1>9, <1>10, <2>1, <2>2, SettleClosed
<1>12. SinceInStep(sm', sm, a, t, e) /\ Attending(sm', sm, t, e)
  BY <1>11
<1> HIDE DEF A
<1>13. hist' \in History /\ hist'.alone_since = IF Attended(in) THEN t ELSE a
  BY <1>1, <1>3, HistTyped DEF EarlyInv, HStep, a
<1>14. Attended(in) => Since(sm', t)
  BY <1>1, <1>2, <1>3, <1>6, <1>12, AttendedSince
<1>15. EarlyInv'
  <2>1. hist'.alone_since <= now'
    BY <1>3, <1>8, <1>13
  <2>2. Since(sm', hist'.alone_since)
    BY <1>12, <1>13, <1>14 DEF SinceInStep
  <2> QED
    BY <1>13, <2>1, <2>2 DEF EarlyInv
<1>16. ASSUME Cuts
       PROVE  \/ now' - hist'.alone_since >= sm'.eff_shutdown + sm'.pause_used
              \/ FaultPersisted
  <2>1. sm.state # "SHUTDOWN" /\ sm'.state = "SHUTDOWN" /\ sm'.state \in States
    BY <1>2, <1>16 DEF Cuts, Machine
  <2>2. ~e.reset_request
    BY <1>6, <2>1, RestFacts
  <2>3. ~Attended(in)
    BY <1>3, <2>1, <2>2 DEF Attended
  <2>4. \/ t - a >= e.eff_shutdown + sm'.pause_used
        \/ /\ sm.state = "FAULT" /\ e.cfg.fault_shutdown > 0
           /\ t - sm.state_entered >= e.cfg.fault_shutdown
    BY <1>12, <2>1 DEF SinceInStep
  <2> QED
    BY <1>3, <1>11, <1>13, <2>3, <2>4 DEF FaultPersisted
<1> QED
  BY <1>15, <1>16

\* The gas is cut only when the shutdown time in force, and the time spent
\* paused on top, have passed since the last step nobody had to be counted away;
\* or when a fault lasted.  No order of readings, faults, holds, tiers and resets
\* brings the cut forward.
THEOREM CutsInTime ==
    ASSUME Uptime, SelfTestFits
    PROVE  HSpec => NeverCutEarly
<1> DEFINE Early == Cuts => \/ now' - hist'.alone_since >= sm'.eff_shutdown + sm'.pause_used
                            \/ FaultPersisted
<1>1. HInit => EarlyInv
  BY DEF HInit, Init, EarlyInv, Since, History
<1>2. ASSUME TestInv, EarlyInv, [HNext]_wvars
      PROVE  EarlyInv' /\ [Early]_wvars
  <2>1. ASSUME NEW in \in Inputs, NEW gap \in StepGaps, HStep(in, gap)
        PROVE  EarlyInv' /\ Early
    BY <1>2, <2>1, EarlyStep
  <2>2. ASSUME NEW c \in Configs, HSetConfig(c)
        PROVE  EarlyInv' /\ Early
    <3>1. /\ now' = now /\ sm' = sm /\ now \in Nat
          /\ hist' \in {hist, [hist EXCEPT !.danger_since = now]}
      BY <1>2, <2>2 DEF HSetConfig, SetConfig, TestInv, VInv, IInv, TypeOK
    <3>2. hist' \in History /\ hist'.alone_since = hist.alone_since
      BY <1>2, <3>1 DEF EarlyInv, History
    <3> QED
      BY <1>2, <3>1, <3>2 DEF EarlyInv, Since, Cuts
  <2>3. CASE UNCHANGED wvars
    BY <1>2, <2>3 DEF wvars, vars, EarlyInv, Since
  <2> QED
    BY <1>2, <2>1, <2>2, <2>3 DEF HNext
<1>3. TestInv /\ EarlyInv /\ [HNext]_wvars => EarlyInv' /\ [Early]_wvars
  BY <1>2
<1>4. HSpec => []TestInv
  BY HistTest
<1> QED
  BY <1>1, <1>3, <1>4, PTL DEF HSpec, NeverCutEarly

-----------------------------------------------------------------------------
(* The buzzer after a hold. *)

\* A hold has its reason, and its limit has not run out.
InTime(x, e) ==
    /\ x.hold = "cooling" => e.only_cooling
    /\ x.hold = "falling" =>
          /\ e.pan_falling /\ x.falling_hold_started
          /\ ~Elapsed(e.t, x.falling_hold_since, e.cfg.falling_hold_max)
    /\ x.hold = "return" =>
          /\ e.returning /\ x.return_hold_active
          /\ ~Elapsed(e.t, x.return_hold_since, e.cfg.return_debounce + e.cfg.return_gap)

\* A machine that is holding a due step back has noted so, the step is due and
\* the hold in time; and the countdown is kept back for a look, or by a fall.
HoldNotes(x, e) ==
    /\ x.hold \in DueHolds =>
          /\ x.held_once /\ InTime(x, e)
          /\ \/ x.state = "UNATTENDED" /\ WarningDue(x, e)
             \/ x.state = "WARNING" /\ ShutdownDue(x, e)
    /\ x.hold = "checking" => x.state = "MONITORING" /\ (Looking(x, e) \/ e.pan_falling)

\* The falling and the return hold note when they begin, and go on from there.
GoesOn(s, x, t) ==
    /\ SameFall(s, x)
    /\ ~s.falling_hold_started /\ x.falling_hold_started => x.falling_hold_since = t
    /\ s.return_hold_active =>
          x.return_hold_active /\ x.return_hold_since = s.return_hold_since
    /\ ~s.return_hold_active /\ x.return_hold_active => x.return_hold_since = t

LEMMA HoldReasonGoesOn ==
    ASSUME NEW s, NEW t, NEW e, NEW due, s \in Machine, FactsAt(e, t), s.hold = "none",
           HoldReason(s, e, due).hold \in DueHolds
    PROVE  due /\ InTime(HoldReason(s, e, due), e) /\ GoesOn(s, HoldReason(s, e, due), t)
<1> DEFINE h == HoldReason(s, e, due)
           fall == IF e.pan_falling THEN NoteFall(s, e.t) ELSE s
<1>1. /\ DOMAIN fall = DOMAIN s /\ fall.hold = "none"
      /\ fall.return_hold_active = s.return_hold_active
      /\ fall.return_hold_since = s.return_hold_since
      /\ SameFall(s, fall)
      /\ ~s.falling_hold_started /\ fall.falling_hold_started => fall.falling_hold_since = t
      /\ e.pan_falling => fall.falling_hold_started
  BY DEF NoteFall, Machine, SameFall, FactsAt
<1>2. {"hold", "falling_hold_started", "falling_hold_since",
       "return_hold_active", "return_hold_since"} \subseteq DOMAIN s
  BY DEF Machine
<1>3. \/ h = [s EXCEPT !.return_hold_active = FALSE]
      \/ due /\ e.only_cooling /\ h = [s EXCEPT !.hold = "cooling"]
      \/ /\ due /\ e.pan_falling
         /\ ~Elapsed(e.t, fall.falling_hold_since, e.cfg.falling_hold_max)
         /\ h = [fall EXCEPT !.hold = "falling"]
      \/ due /\ e.returning /\ h = ReturnHold(fall, e)
      \/ h = [fall EXCEPT !.return_hold_active = FALSE]
  BY DEF HoldReason
<1> HIDE DEF h, fall
<1>4. CASE h = [s EXCEPT !.return_hold_active = FALSE]
  BY <1>2, <1>4 DEF h, DueHolds
<1>5. CASE due /\ e.only_cooling /\ h = [s EXCEPT !.hold = "cooling"]
  <2>1. InTime(h, e) /\ GoesOn(s, h, t)
    BY <1>2, <1>5 DEF InTime, GoesOn, SameFall
  <2> QED
    BY <1>5, <2>1 DEF h
<1>6. CASE /\ due /\ e.pan_falling
           /\ ~Elapsed(e.t, fall.falling_hold_since, e.cfg.falling_hold_max)
           /\ h = [fall EXCEPT !.hold = "falling"]
  <2>1. InTime(h, e) /\ GoesOn(s, h, t)
    BY <1>1, <1>2, <1>6 DEF InTime, GoesOn, SameFall
  <2> QED
    BY <1>6, <2>1 DEF h
<1>7. CASE due /\ e.returning /\ h = ReturnHold(fall, e)
  <2> DEFINE since == IF fall.return_hold_active THEN fall.return_hold_since ELSE t
             over == Elapsed(t, since, e.cfg.return_debounce + e.cfg.return_gap)
             reason == IF over THEN "none" ELSE "return"
  <2>1. h = [fall EXCEPT !.return_hold_active = TRUE, !.return_hold_since = since,
                         !.hold = reason]
    BY <1>7 DEF ReturnHold, FactsAt
  <2> HIDE DEF since, reason
  <2>2. /\ h.return_hold_active /\ h.return_hold_since = since /\ h.hold = reason
        /\ h.falling_hold_started = fall.falling_hold_started
        /\ h.falling_hold_since = fall.falling_hold_since
    BY <1>1, <1>2, <2>1
  <2>3. GoesOn(s, h, t)
    BY <1>1, <2>2 DEF GoesOn, SameFall, since
  <2>4. reason = "return" /\ ~over
    BY <2>2 DEF h, reason, DueHolds
  <2>5. InTime(h, e)
    BY <1>7, <2>2, <2>4 DEF InTime, FactsAt
  <2> QED
    BY <1>7, <2>3, <2>5 DEF h
<1>8. CASE h = [fall EXCEPT !.return_hold_active = FALSE]
  BY <1>1, <1>2, <1>8 DEF h, DueHolds
<1> QED
  BY <1>3, <1>4, <1>5, <1>6, <1>7, <1>8

LEMMA UpdateHoldNotes ==
    ASSUME NEW s, NEW t, NEW e, NEW due, s \in Machine, Past(s, t), FactsAt(e, t),
           s.hold = "none", UpdateHold(s, e, due).hold \in DueHolds
    PROVE  LET x == UpdateHold(s, e, due)
           IN  due /\ x.held_once /\ InTime(x, e) /\ GoesOn(s, x, t)
<1> DEFINE h == HoldReason(s, e, due)
           once == h.held_once \/ h.hold # "none"
           x == UpdateHold(s, e, due)
<1>1. x = [h EXCEPT !.held_once = once]
  BY DEF UpdateHold
<1>2. h \in Machine
  BY HoldReasonNoted DEF Noted
<1>3. h.hold \in DueHolds => due /\ InTime(h, e) /\ GoesOn(s, h, t)
  BY HoldReasonGoesOn
<1>4. h.hold # "none" => once
  OBVIOUS
<1> HIDE DEF h, once
<1>5. /\ x.hold = h.hold /\ x.held_once = once
      /\ x.falling_hold_started = h.falling_hold_started
      /\ x.falling_hold_since = h.falling_hold_since
      /\ x.return_hold_active = h.return_hold_active
      /\ x.return_hold_since = h.return_hold_since
  BY <1>1, <1>2 DEF Machine
<1>6. x.hold \in DueHolds
  OBVIOUS
<1> HIDE DEF x
<1>7. due /\ InTime(h, e) /\ GoesOn(s, h, t) /\ once
  BY <1>3, <1>4, <1>5, <1>6 DEF DueHolds
<1>8. InTime(x, e) /\ GoesOn(s, x, t)
  BY <1>5, <1>7 DEF InTime, GoesOn, SameFall
<1> QED
  BY <1>5, <1>7, <1>8 DEF x

\* Only MONITORING takes a look.
LEMMA UpdateHoldChecksNothing ==
    ASSUME NEW s, NEW t, NEW e, NEW due, s \in Machine, Past(s, t), FactsAt(e, t),
           s.hold = "none"
    PROVE  UpdateHold(s, e, due).hold # "checking"
<1> DEFINE h == HoldReason(s, e, due)
           fall == IF e.pan_falling THEN NoteFall(s, e.t) ELSE s
<1>1. fall \in Machine /\ fall.hold = "none"
  BY DEF NoteFall, Machine, FactsAt
<1>2. h \in Machine
  BY HoldReasonNoted DEF Noted
<1>3. UpdateHold(s, e, due).hold = h.hold
  BY <1>2 DEF UpdateHold, Machine
<1>4. \/ h = [s EXCEPT !.return_hold_active = FALSE]
      \/ h = [s EXCEPT !.hold = "cooling"]
      \/ h = [fall EXCEPT !.hold = "falling"]
      \/ h = ReturnHold(fall, e)
      \/ h = [fall EXCEPT !.return_hold_active = FALSE]
  BY DEF HoldReason
<1> HIDE DEF h, fall
<1>5. ReturnHold(fall, e).hold # "checking"
  BY <1>1 DEF ReturnHold, Machine
<1>6. h.hold # "checking"
  BY <1>1, <1>4, <1>5 DEF Machine
<1> QED
  BY <1>3, <1>6

LEMMA HoldBackNotes ==
    ASSUME NEW s, NEW t, NEW e, Sound(s, t), FactsAt(e, t), s.hold = "none"
    PROVE  LET x == HoldBack(s, e)
           IN  HoldNotes(x, e) /\ (x.hold \in DueHolds => GoesOn(s, x, t))
<1> DEFINE x == HoldBack(s, e)
<1>1. s \in Machine /\ Past(s, t) /\ SameTimeline(s, x)
  BY HoldBackNoted DEF Sound, Noted
<1>2. /\ x.state = s.state
      /\ WarningDue(x, e) <=> WarningDue(s, e)
      /\ ShutdownDue(x, e) <=> ShutdownDue(s, e)
  BY <1>1 DEF SameTimeline, WarningDue, ShutdownDue
<1>3. CASE s.state = "UNATTENDED"
  <2>1. x = UpdateHold(s, e, WarningDue(s, e))
    BY <1>3 DEF HoldBack
  <2>2. x.hold # "checking"
    BY <1>1, <2>1, UpdateHoldChecksNothing
  <2> QED
    BY <1>1, <1>2, <1>3, <2>1, <2>2, UpdateHoldNotes DEF HoldNotes
<1>4. CASE s.state = "WARNING"
  <2>1. x = UpdateHold(s, e, ShutdownDue(s, e))
    BY <1>4 DEF HoldBack
  <2>2. x.hold # "checking"
    BY <1>1, <2>1, UpdateHoldChecksNothing
  <2> QED
    BY <1>1, <1>2, <1>4, <2>1, <2>2, UpdateHoldNotes DEF HoldNotes
<1>5. CASE s.state = "MONITORING"
  <2>1. x = CheckFirst(s, e)
    BY <1>5 DEF HoldBack
  <2>2. x.hold \in {"none", "checking"}
    BY <1>1, <2>1 DEF CheckFirst, NoteFall, Machine
  <2>3. x.hold = "checking" => Looking(s, e) \/ e.pan_falling
    BY <1>1, <2>1 DEF CheckFirst, Machine
  <2>4. Looking(s, e) <=> Looking(x, e)
    BY <1>1 DEF SameTimeline, Looking
  <2> QED
    BY <1>2, <1>5, <2>2, <2>3, <2>4 DEF HoldNotes, DueHolds
<1>6. CASE s.state \notin {"MONITORING", "UNATTENDED", "WARNING"}
  <2>1. x = s
    BY <1>6 DEF HoldBack
  <2> QED
    BY <2>1 DEF HoldNotes, DueHolds
<1> QED
  BY <1>3, <1>4, <1>5, <1>6

LEMMA SettleNotes ==
    ASSUME NEW s, NEW t, NEW e, Sound(s, t), FactsAt(e, t), ~Settle(s, e).again
    PROVE  HoldNotes(Settle(s, e).sm, e)
<1> DEFINE A == {x \in Machine : Sound(x, t)}
           Q == {p \in [sm : A, again : BOOLEAN] : ~p.again => HoldNotes(p.sm, e)}
<1>1. [sm |-> s, again |-> TRUE] \in Q
  BY DEF Sound
<1>2. ASSUME NEW p \in Q
      PROVE  Pass(p, e) \in Q
  <2>1. CASE p.again
    <3> DEFINE q == Evaluate(p.sm, e)
               fresh == [p.sm EXCEPT !.hold = "none", !.eff_shutdown = e.eff_shutdown]
    <3>1. Pass(p, e) = q /\ Sound(p.sm, t)
      BY <2>1 DEF Pass
    <3>2. Sound(q.sm, t) /\ q.again \in BOOLEAN
      BY <3>1, PassMoves
    <3>3. q = [sm |-> q.sm, again |-> q.again]
      BY DEF Evaluate
    <3>4. ~q.again => q.sm = HoldBack(fresh, e)
      BY DEF Evaluate
    <3>5. Sound(fresh, t) /\ fresh.hold = "none"
      BY <3>1, FreshSame DEF Sound, Machine
    <3> HIDE DEF q, fresh
    <3>6. ~q.again => HoldNotes(q.sm, e)
      BY <3>4, <3>5, HoldBackNotes
    <3>7. q.sm \in A
      BY <3>2 DEF Sound
    <3>8. q \in [sm : A, again : BOOLEAN]
      BY <3>2, <3>3, <3>7
    <3> QED
      BY <3>1, <3>6, <3>8
  <2>2. CASE ~p.again
    BY <2>2 DEF Pass
  <2> QED
    BY <2>1, <2>2
<1> HIDE DEF Q
<1>3. Settle(s, e) \in Q
  BY <1>1, <1>2, SettleIn
<1> QED
  BY <1>3 DEF Q

\* A held timeline is marked, and it began before this step; the limit of its
\* falling hold runs from the first one at the latest.
HeldInv ==
    /\ hist.held => /\ sm.unattended_active /\ sm.held_once
                    /\ sm.unattended_start < now
    /\ hist.falling => /\ hist.held /\ sm.falling_hold_started
                       /\ sm.falling_hold_since <= hist.fell
    /\ sm.hold = "falling" => hist.falling

\* A held timeline during a step at t that began in the machine b: the one of b,
\* which was held, or one closed in this step, or one that starts now.
HeldOn(x, b, t) ==
    IF x.unattended_active
    THEN \/ x.held_once /\ SameFall(b, x) /\ x.unattended_start = b.unattended_start
         \/ x.unattended_start = t
    ELSE /\ x.state = "MONITORING" => x.monitoring_since = t
         /\ x.state = "FAULT" => x.state_entered = t

LEMMA HeldMoves ==
    ASSUME Uptime, NEW s, NEW t, NEW e, NEW b, NEW y, t <= MaxTime,
           Sound(s, t), Sound(y, t), ValidFacts(e, t),
           Legal(s, y.state, e), Moved(s, y, t), HeldOn(s, b, t)
    PROVE  HeldOn(y, b, t)
<1>1. /\ s \in Machine /\ Shape(s) /\ Past(s, t) /\ Shape(y) /\ t \in Nat
      /\ y.state_entered = t
      /\ y.state = "MONITORING" => y.monitoring_since = t
  BY DEF Sound, ValidFacts, FactsAt, Moved
<1>2. CASE ~y.unattended_active
  BY <1>1, <1>2 DEF HeldOn
<1>3. CASE y.unattended_active
  <2>1. /\ y.state \notin {"IDLE", "MONITORING"}
        /\ s.held_once => y.held_once
        /\ s.unattended_active => SameFall(s, y)
        /\ s.unattended_active \/ y.state = "UNATTENDED"
        /\ y.unattended_start = IF ~s.unattended_active THEN Opening(s, t)
                                ELSE s.unattended_start
    BY <1>1, <1>3 DEF Moved, Shape
  <2>2. CASE s.unattended_active
    <3>1. \/ s.held_once /\ SameFall(b, s) /\ s.unattended_start = b.unattended_start
          \/ s.unattended_start = t
      BY <2>2 DEF HeldOn
    <3>2. y.unattended_start = s.unattended_start
      BY <2>1, <2>2
    <3>3. SameFall(b, s) => SameFall(b, y)
      BY <2>1, <2>2 DEF SameFall
    <3> QED
      BY <1>3, <2>1, <3>1, <3>2, <3>3 DEF HeldOn
  <2>3. CASE ~s.unattended_active
    <3>1. s.state = "FAULT" \/ s.state = "MONITORING"
      BY <1>1, <2>1, <2>3 DEF Legal, Running, Shape
    <3>2. CASE s.state = "FAULT"
      BY <1>3, <2>1, <2>3, <3>2 DEF HeldOn, Opening
    <3>3. CASE s.state = "MONITORING"
      <4>1. s.monitoring_since = t /\ s.absent_since \in Nat /\ s.absent_since <= t
        BY <1>1, <2>3, <3>3 DEF HeldOn, Machine, Past
      <4>2. /\ s.absent_since - t < Wrap \div 2 /\ t - s.absent_since <= Wrap \div 2
        BY <1>1, <4>1, ClockAssumption DEF Uptime
      <4>3. Later(s.absent_since, t) = t
        BY <1>1, <4>1, <4>2, LaterFits DEF Max2
      <4>4. Opening(s, t) = t
        BY <3>3, <4>1, <4>3 DEF Opening
      <4> QED
        BY <1>3, <2>1, <2>3, <4>4 DEF HeldOn
    <3> QED
      BY <3>1, <3>2, <3>3
  <2> QED
    BY <2>2, <2>3
<1> QED
  BY <1>2, <1>3

LEMMA HeldStep ==
    ASSUME TestInv, EarlyInv, EarlyInv', HeldInv, Uptime, SelfTestFits,
           NEW in \in Inputs, NEW gap \in StepGaps, HStep(in, gap)
    PROVE  HeldInv'
<1> DEFINE t == now + gap
           e == Read(in, gap)
           r == Ready(in, gap)
           p == PauseClock(sm, in.presence, cfg, gap)
           anew == ~sm.unattended_active \/ Reopened(p)
           A == {x \in Machine : Sound(x, t) /\ HeldOn(x, r, t)}
<1>1. VInv /\ Step(in, gap)
  BY DEF TestInv, HStep
<1>2. /\ sm \in Machine /\ cfg \in Config /\ gap \in Nat /\ sm' \in Machine
      /\ Shape(sm') /\ Past(sm', t) /\ hist \in History
  <2>1. Next
    BY DEF Next, HStep
  <2>2. VInv'
    BY <1>1, <2>1, NextValid
  <2> QED
    BY <1>1, <2>2, ClockAssumption
    DEF VInv, IInv, TypeOK, TimelineShape, StartsInThePast, Step, EarlyInv
<1>3. /\ t \in Nat /\ now \in Nat /\ now <= t /\ now' = t /\ t <= MaxTime
      /\ Sound(r, t) /\ ValidFacts(e, t) /\ e.t = t
      /\ sm' = Settle(r, e).sm
  BY <1>1, StepParts DEF Step, ValidFacts, FactsAt
<1>4. /\ r.unattended_active = sm.unattended_active /\ r.held_once = sm.held_once
      /\ r.unattended_start = p.unattended_start /\ SameFall(sm, r)
  BY <1>1, ReadyFields DEF SameFall
<1>5. PICK d \in 0..gap : p.unattended_start = sm.unattended_start + d
  BY <1>2, PauseDelays
<1>6. hist'.held = \/ sm'.unattended_active /\ ~anew /\ hist.held
                   \/ sm'.unattended_active /\ sm'.hold \in DueHolds
  BY DEF HStep
<1>7. HoldNotes(sm', e)
  <2>1. ~Settle(r, e).again
    BY StepRests
  <2> QED
    BY <1>3, <2>1, SettleNotes DEF ValidFacts
<1>8. sm'.warning_started => sm'.unattended_start <= sm'.warning_start
  BY DEF EarlyInv, Since
<1> HIDE DEF t, e, r, p
<1>9. ASSUME sm'.unattended_active, sm'.hold \in DueHolds
      PROVE  sm'.held_once /\ sm'.unattended_start < t
  <2>1. sm'.unattended_start \in Nat /\ sm'.warning_start \in Nat
    BY <1>2 DEF Machine
  <2>2. /\ sm'.unattended_start <= t /\ sm'.warning_start <= t
        /\ e.eff_warning \in Nat \ {0} /\ e.eff_shutdown \in Nat \ {0}
    BY <1>2, <1>3 DEF Past, ValidFacts
  <2>3. \/ Elapsed(t, sm'.unattended_start, e.eff_warning)
        \/ Elapsed(t, sm'.unattended_start, e.eff_shutdown)
        \/ sm'.warning_started /\ Elapsed(t, sm'.warning_start, e.eff_shutdown)
    BY <1>3, <1>7, <1>9 DEF HoldNotes, WarningDue, ShutdownDue
  <2>4. sm'.unattended_start < t
    <3>1. CASE Elapsed(t, sm'.unattended_start, e.eff_warning)
      BY <1>3, <2>1, <2>2, <3>1, ElapsedReal
    <3>2. CASE Elapsed(t, sm'.unattended_start, e.eff_shutdown)
      BY <1>3, <2>1, <2>2, <3>2, ElapsedReal
    <3>3. CASE sm'.warning_started /\ Elapsed(t, sm'.warning_start, e.eff_shutdown)
      <4>1. t - sm'.warning_start >= e.eff_shutdown
        BY <1>3, <2>1, <2>2, <3>3, ElapsedReal
      <4> QED
        BY <1>3, <1>8, <2>1, <2>2, <3>3, <4>1
    <3> QED
      BY <2>3, <3>1, <3>2, <3>3
  <2> QED
    BY <1>7, <1>9, <2>4 DEF HoldNotes
<1>10. ASSUME sm'.unattended_active, ~anew, hist.held
       PROVE  sm'.held_once /\ sm'.unattended_start < t /\ SameFall(sm, sm')
  <2>1. sm.unattended_active /\ sm.held_once /\ sm.unattended_start < now
    BY <1>10 DEF HeldInv
  <2>2. p.unattended_start < t
    BY <1>2, <1>3, <1>5, <2>1 DEF Machine, t
  <2>3. r \in A
    BY <1>3, <1>4, <2>1 DEF HeldOn, Sound, SameFall
  <2>4. ASSUME NEW x \in A, NEW y \in Machine, Sound(y, t), Legal(x, y.state, e), Moved(x, y, t)
        PROVE  y \in A
    BY <1>3, <2>4, HeldMoves
  <2>5. ASSUME NEW x \in A, NEW y \in Machine, Sound(y, t), SameTimeline(x, y)
        PROVE  y \in A
    BY <2>5 DEF SameTimeline, HeldOn, SameFall
  <2>6. sm' \in A
    BY <1>1, <2>3, <2>4, <2>5, StepEndsIn DEF e, r, t
  <2>7. sm'.unattended_start = p.unattended_start
    BY <1>10 DEF Reopened
  <2>8. sm'.held_once /\ SameFall(r, sm')
    BY <1>2, <1>3, <1>4, <1>10, <2>2, <2>6, <2>7 DEF HeldOn, Machine
  <2>9. SameFall(sm, sm')
    BY <1>4, <2>8 DEF SameFall
  <2> QED
    BY <2>2, <2>7, <2>8, <2>9
<1>11. hist'.held => sm'.unattended_active /\ sm'.held_once /\ sm'.unattended_start < now'
  BY <1>3, <1>6, <1>9, <1>10
<1>12. ASSUME hist'.falling
       PROVE  hist'.held /\ sm'.falling_hold_started /\ sm'.falling_hold_since <= hist'.fell
  <2>1. /\ hist'.falling = \/ sm'.unattended_active /\ sm'.hold = "falling"
                           \/ sm'.unattended_active /\ ~anew /\ hist.falling
        /\ hist'.fell = IF /\ sm'.unattended_active /\ sm'.hold = "falling"
                           /\ ~(sm'.unattended_active /\ ~anew /\ hist.falling)
                        THEN t ELSE hist.fell
    BY <1>3, <1>12 DEF HStep, anew, p
  <2>2. CASE sm'.unattended_active /\ ~anew /\ hist.falling
    <3>1. hist.held /\ sm.falling_hold_started /\ sm.falling_hold_since <= hist.fell
      BY <2>2 DEF HeldInv
    <3>2. hist'.fell = hist.fell
      BY <2>1, <2>2
    <3> QED
      BY <1>6, <1>10, <2>2, <3>1, <3>2 DEF SameFall
  <2>3. CASE /\ sm'.unattended_active /\ sm'.hold = "falling"
             /\ ~(sm'.unattended_active /\ ~anew /\ hist.falling)
    <3>1. hist'.fell = t /\ sm'.hold \in DueHolds
      BY <2>1, <2>3 DEF DueHolds
    <3> QED
      BY <1>2, <1>6, <1>7, <2>3, <3>1 DEF HoldNotes, InTime, Past
  <2> QED
    BY <1>12, <2>1, <2>2, <2>3
<1>13. ASSUME sm'.hold = "falling"
       PROVE  hist'.falling
  <2>1. sm'.unattended_active
    BY <1>2, <1>7, <1>13 DEF HoldNotes, DueHolds, Shape
  <2> QED
    BY <1>13, <2>1 DEF HStep
<1> QED
  BY <1>11, <1>12, <1>13 DEF HeldInv

\* A machine in a step that began in WARNING, entered at since, with the
\* controller well: it is still there, or has been called off, or the buzzer
\* has sounded its minimum.
FromWarning(x, since, e) ==
    /\ x.absent_timing => ~e.person_returned
    /\ \/ x.state = "WARNING" /\ x.state_entered = since /\ x.held_once
       \/ x.state = "IDLE" /\ ~e.cooking
       \/ x.state = "MONITORING" /\ e.person_returned
       \/ e.t - since >= e.cfg.warning_min_after_hold

LEMMA WarningMoves ==
    ASSUME NEW s, NEW t, NEW e, NEW since \in Nat, NEW y, since <= t,
           ValidFacts(e, t), SystemOk(e),
           Legal(s, y.state, e), Moved(s, y, t), FromWarning(s, since, e)
    PROVE  FromWarning(y, since, e)
<1>1. /\ y.absent_timing = s.absent_timing /\ e.t = t /\ t \in Nat
      /\ e.cfg.warning_min_after_hold \in Nat
  BY DEF Moved, ValidFacts, FactsAt, Config
<1>2. CASE s.state = "WARNING" /\ s.state_entered = since /\ s.held_once
  <2>1. \/ y.state = "MONITORING" /\ e.person_returned
        \/ y.state = "IDLE" /\ ~e.cooking
        \/ y.state = "SHUTDOWN" /\ Elapsed(t, since, e.cfg.warning_min_after_hold)
    BY <1>1, <1>2 DEF Legal, Running, CooledDown
  <2> QED
    BY <1>1, <2>1, ElapsedReal DEF FromWarning
<1>3. CASE s.state = "IDLE" /\ ~e.cooking
  BY <1>3 DEF Legal, Running
<1>4. CASE s.state = "MONITORING" /\ e.person_returned
  BY <1>1, <1>4 DEF Legal, Running, AbsentConfirmed, FromWarning
<1>5. CASE e.t - since >= e.cfg.warning_min_after_hold
  BY <1>1, <1>5 DEF FromWarning
<1> QED
  BY <1>2, <1>3, <1>4, <1>5 DEF FromWarning

LEMMA WarningStep ==
    ASSUME TestInv, HeldInv, NEW in \in Inputs, NEW gap \in StepGaps, HStep(in, gap),
           Cuts, sm.state = "WARNING", hist.held, ~hist'.fault
    PROVE  now' - sm.state_entered >= cfg.warning_min_after_hold
<1> DEFINE t == now + gap
           e == Read(in, gap)
           r == Ready(in, gap)
           since == sm.state_entered
           A == {x \in Machine : Sound(x, t) /\ FromWarning(x, since, e)}
<1>1. VInv /\ Step(in, gap)
  BY DEF TestInv, HStep
<1>2. /\ sm \in Machine /\ Past(sm, now) /\ gap \in Nat
  BY <1>1, ClockAssumption DEF VInv, IInv, TypeOK, StartsInThePast
<1>3. /\ t \in Nat /\ now \in Nat /\ now <= t /\ now' = t
      /\ Sound(r, t) /\ ValidFacts(e, t) /\ e.t = t /\ e.cfg = cfg
      /\ e.self_test = in.self_test /\ e.safety_fault = in.safety_fault
  BY <1>1, StepParts DEF Step, ValidFacts, FactsAt
<1>4. /\ r.state = sm.state /\ r.state_entered = sm.state_entered
      /\ r.held_once = sm.held_once
      /\ r.absent_timing => ~e.person_returned
  BY <1>1, ReadyFields
<1>5. SystemOk(e)
  <2>1. hist'.fault = (in.safety_fault \/ in.self_test # "pass")
    BY DEF HStep
  <2> QED
    BY <1>3, <2>1 DEF SystemOk
<1>6. since \in Nat /\ since <= t
  BY <1>2, <1>3 DEF Machine, Past
<1> HIDE DEF t, e, r, since
<1>7. r \in A
  BY <1>3, <1>4 DEF HeldInv, FromWarning, Sound, since
<1>8. ASSUME NEW x \in A, NEW y \in Machine, Sound(y, t), Legal(x, y.state, e), Moved(x, y, t)
      PROVE  y \in A
  BY <1>3, <1>5, <1>6, <1>8, WarningMoves
<1>9. ASSUME NEW x \in A, NEW y \in Machine, Sound(y, t), SameTimeline(x, y)
      PROVE  y \in A
  BY <1>9 DEF SameTimeline, FromWarning
<1>10. sm' \in A
  BY <1>1, <1>7, <1>8, <1>9, StepEndsIn DEF e, r, t
<1> QED
  BY <1>3, <1>10 DEF FromWarning, Cuts, since

LEMMA HistHeld ==
    ASSUME Uptime, SelfTestFits
    PROVE  HSpec => [](EarlyInv /\ HeldInv)
<1> DEFINE Inv == EarlyInv /\ HeldInv
<1>1. HInit => Inv
  BY DEF HInit, Init, EarlyInv, Since, History, HeldInv
<1>2. ASSUME TestInv, Inv, [HNext]_wvars
      PROVE  Inv'
  <2>1. ASSUME NEW in \in Inputs, NEW gap \in StepGaps, HStep(in, gap)
        PROVE  Inv'
    <3>1. EarlyInv'
      BY <1>2, <2>1, EarlyStep
    <3> QED
      BY <1>2, <2>1, <3>1, HeldStep
  <2>2. ASSUME NEW c \in Configs, HSetConfig(c)
        PROVE  Inv'
    <3>1. /\ now' = now /\ sm' = sm /\ now \in Nat
          /\ hist' \in {hist, [hist EXCEPT !.danger_since = now]}
      BY <1>2, <2>2 DEF HSetConfig, SetConfig, TestInv, VInv, IInv, TypeOK
    <3>2. hist' \in History /\ hist'.alone_since = hist.alone_since /\ hist'.held = hist.held
          /\ hist'.falling = hist.falling /\ hist'.fell = hist.fell
      BY <1>2, <3>1 DEF EarlyInv, History
    <3> QED
      BY <1>2, <3>1, <3>2 DEF EarlyInv, HeldInv, Since
  <2>3. CASE UNCHANGED wvars
    BY <1>2, <2>3 DEF wvars, vars, EarlyInv, HeldInv, Since
  <2> QED
    BY <1>2, <2>1, <2>2, <2>3 DEF HNext
<1>3. TestInv /\ Inv /\ [HNext]_wvars => Inv'
  BY <1>2
<1>4. HSpec => []TestInv
  BY HistTest
<1> QED
  BY <1>1, <1>3, <1>4, PTL DEF HSpec

\* A timeline that was held, however it came there, has its buzzer sound the
\* minimum before WARNING cuts the gas, while the controller is well.
THEOREM BuzzerSounds ==
    ASSUME Uptime, SelfTestFits
    PROVE  HSpec => BuzzerAfterHold
<1> DEFINE Sounds == Cuts /\ sm.state = "WARNING" /\ hist.held /\ ~hist'.fault =>
                        now' - sm.state_entered >= cfg.warning_min_after_hold
<1>1. ASSUME TestInv, EarlyInv, HeldInv, [HNext]_wvars
      PROVE  [Sounds]_wvars
  <2>1. ASSUME NEW in \in Inputs, NEW gap \in StepGaps, HStep(in, gap)
        PROVE  Sounds
    BY <1>1, <2>1, WarningStep
  <2>2. ASSUME NEW c \in Configs, HSetConfig(c)
        PROVE  Sounds
    BY <2>2 DEF HSetConfig, SetConfig, Cuts
  <2> QED
    BY <1>1, <2>1, <2>2 DEF HNext
<1>2. TestInv /\ EarlyInv /\ HeldInv /\ [HNext]_wvars => [Sounds]_wvars
  BY <1>1
<1>3. HSpec => []TestInv
  BY HistTest
<1>4. HSpec => [](EarlyInv /\ HeldInv)
  BY HistHeld
<1> QED
  BY <1>2, <1>3, <1>4, PTL DEF HSpec, BuzzerAfterHold

-----------------------------------------------------------------------------
(* The holds. *)

\* The settings offered have longest ones, and the gaps between two steps, the
\* longest of which is no stand-still: there are finitely many of each.
HoldLimits == {"cooling_hold_max", "falling_hold_max", "return_debounce", "return_gap"}

LongestGapExists == \E g \in StepGaps \ {0} : \A gap \in StepGaps : gap <= g

LongestExist ==
    /\ LongestGapExists
    /\ \A f \in HoldLimits : \E c \in Configs : \A d \in Configs : d[f] <= c[f]

\* How long each hold can last, and with the step that ends it.
StepMax == Max(StepGaps)
CoolingMax == Most("cooling_hold_max")
FallingMax == Most("falling_hold_max")
ReturnMax == Most("return_debounce") + Most("return_gap")

CoolingAndStep == CoolingMax - 1 + StepMax
FallingAndStep == FallingMax - 1 + StepMax
ReturnAndStep == ReturnMax - 1 + StepMax

LEMMA SettingIsNat ==
    ASSUME NEW c \in Configs, NEW f \in HoldLimits
    PROVE  c[f] \in Nat
<1>1. c \in Config
  BY ConfigsAssumption
<1>2. /\ c["cooling_hold_max"] \in Nat /\ c["falling_hold_max"] \in Nat
      /\ c["return_debounce"] \in Nat /\ c["return_gap"] \in Nat
  BY <1>1 DEF Config
<1> QED
  BY <1>2 DEF HoldLimits

LEMMA MostIsMost ==
    ASSUME LongestExist, NEW f \in HoldLimits
    PROVE  Most(f) \in Nat /\ \A c \in Configs : c[f] <= Most(f)
<1> DEFINE S == {c[f] : c \in Configs}
<1>1. \A x \in S : x \in Nat
  BY SettingIsNat
<1>2. PICK c \in Configs : \A d \in Configs : d[f] <= c[f]
  BY DEF LongestExist
<1>3. c[f] \in S /\ \A x \in S : c[f] >= x
  BY <1>2, SettingIsNat
<1>4. Most(f) = Max(S)
  BY DEF Most
<1> HIDE DEF S
<1>5. Max(S) \in S /\ \A x \in S : Max(S) >= x
  BY <1>3 DEF Max
<1>6. \A d \in Configs : d[f] \in S
  BY DEF S
<1> QED
  BY <1>1, <1>4, <1>5, <1>6

LEMMA GapsAreBounded ==
    ASSUME LongestGapExists
    PROVE  StepMax \in Nat \ {0} /\ \A gap \in StepGaps : gap \in Nat /\ gap <= StepMax
<1>1. PICK g \in StepGaps \ {0} : \A gap \in StepGaps : gap <= g
  BY DEF LongestGapExists
<1>2. \A gap \in StepGaps : gap \in Nat
  BY ClockAssumption
<1>3. g \in StepGaps /\ \A gap \in StepGaps : g >= gap
  BY <1>1, <1>2
<1>4. StepMax \in StepGaps /\ \A gap \in StepGaps : StepMax >= gap
  BY <1>3 DEF StepMax, Max
<1> QED
  BY <1>1, <1>2, <1>4

LEMMA LimitsAreNat ==
    ASSUME LongestExist
    PROVE  /\ CoolingMax \in Nat /\ FallingMax \in Nat /\ ReturnMax \in Nat
           /\ StepMax \in Nat \ {0} /\ \A gap \in StepGaps : gap \in Nat /\ gap <= StepMax
           /\ CoolingAndStep \in Nat /\ FallingAndStep \in Nat /\ ReturnAndStep \in Nat
           /\ \A c \in Configs : /\ c.cooling_hold_max <= CoolingMax
                                 /\ c.falling_hold_max <= FallingMax
                                 /\ c.return_debounce + c.return_gap <= ReturnMax
<1>1. StepMax \in Nat \ {0} /\ \A gap \in StepGaps : gap \in Nat /\ gap <= StepMax
  BY GapsAreBounded DEF LongestExist
<1>2. /\ Most("cooling_hold_max") \in Nat /\ Most("falling_hold_max") \in Nat
      /\ Most("return_debounce") \in Nat /\ Most("return_gap") \in Nat
      /\ \A c \in Configs : /\ c["cooling_hold_max"] <= Most("cooling_hold_max")
                            /\ c["falling_hold_max"] <= Most("falling_hold_max")
                            /\ c["return_debounce"] <= Most("return_debounce")
                            /\ c["return_gap"] <= Most("return_gap")
  BY MostIsMost DEF HoldLimits
<1>3. \A c \in Configs : c["return_debounce"] \in Nat /\ c["return_gap"] \in Nat
  BY SettingIsNat DEF HoldLimits
<1> QED
  BY <1>1, <1>2, <1>3
  DEF CoolingMax, FallingMax, ReturnMax, CoolingAndStep, FallingAndStep, ReturnAndStep

\* Where a transition has taken the machine in a step at t that began in b, in
\* UNATTENDED or WARNING: it cannot be back there with a due step to hold back.
Turned(x, b, t, e) ==
    /\ x.state = "UNATTENDED" => x.unattended_start = t
    /\ x.state = "WARNING" => b.state = "UNATTENDED"
    /\ x.state = "MONITORING" => x.monitoring_since = t
    /\ x.state = "FAULT" => ~SystemOk(e)

LEMMA TurnedMoves ==
    ASSUME Uptime, NEW s, NEW t, NEW e, NEW b, NEW y, t <= MaxTime,
           Sound(s, t), Sound(y, t), ValidFacts(e, t),
           Legal(s, y.state, e), Moved(s, y, t),
           \/ Turned(s, b, t, e)
           \/ s.state = b.state /\ s.state \in {"UNATTENDED", "WARNING"}
    PROVE  Turned(y, b, t, e)
<1>1. /\ s \in Machine /\ Shape(s) /\ Past(s, t) /\ Shape(y) /\ t \in Nat /\ e.t = t
      /\ e.eff_warning \in Nat \ {0}
      /\ y.state = "MONITORING" => y.monitoring_since = t
  BY DEF Sound, ValidFacts, FactsAt, Moved
<1>2. y.state = "FAULT" => ~SystemOk(e)
  BY DEF Legal, SystemOk
<1>3. ASSUME y.state = "WARNING"
      PROVE  b.state = "UNATTENDED"
  <2>1. s.state = "UNATTENDED" /\ WarningDue(s, e)
    BY <1>3 DEF Legal
  <2>2. s.unattended_start # t
    BY <1>1, <2>1, ElapsedNow DEF WarningDue
  <2> QED
    BY <2>1, <2>2 DEF Turned
<1>4. ASSUME y.state = "UNATTENDED"
      PROVE  y.unattended_start = t
  <2>1. \/ s.state = "MONITORING" /\ s.absent_timing
        \/ s.state = "FAULT" /\ SystemOk(e)
    BY <1>4 DEF Legal, AbsentConfirmed
  <2>2. Turned(s, b, t, e) /\ s.state = "MONITORING" /\ s.absent_timing
    BY <2>1 DEF Turned
  <2>3. s.monitoring_since = t /\ s.absent_since \in Nat /\ s.absent_since <= t
    BY <1>1, <2>2 DEF Turned, Machine, Past
  <2>4. s.absent_since - t < Wrap \div 2 /\ t - s.absent_since <= Wrap \div 2
    BY <1>1, <2>3, ClockAssumption DEF Uptime
  <2>5. Later(s.absent_since, t) = t
    BY <1>1, <2>3, <2>4, LaterFits DEF Max2
  <2>6. y.unattended_active /\ ~s.unattended_active
    BY <1>1, <1>4, <2>2 DEF Shape
  <2>7. y.unattended_start = Opening(s, t)
    BY <1>4, <2>6 DEF Moved
  <2> QED
    BY <2>2, <2>3, <2>5, <2>7 DEF Opening
<1> QED
  BY <1>1, <1>2, <1>3, <1>4 DEF Turned

\* A step that ends in the state it began in, with a due step held back, has
\* taken no transition: its holds go on.
LEMMA StaysHeld ==
    ASSUME Uptime, NEW b, NEW t, NEW e, t <= MaxTime, Sound(b, t), ValidFacts(e, t),
           b.state \in {"UNATTENDED", "WARNING"}, ~Settle(b, e).again,
           Settle(b, e).sm.state = b.state, Settle(b, e).sm.hold \in DueHolds
    PROVE  GoesOn(b, Settle(b, e).sm, t)
<1> DEFINE A == {x \in Machine : Sound(x, t)}
           Q == {p \in [sm : A, again : BOOLEAN] :
                    IF p.again THEN p.sm = b \/ Turned(p.sm, b, t, e)
                    ELSE /\ HoldNotes(p.sm, e)
                         /\ \/ Turned(p.sm, b, t, e)
                            \/ p.sm.hold \in DueHolds => GoesOn(b, p.sm, t)}
<1>1. [sm |-> b, again |-> TRUE] \in Q
  BY DEF Sound
<1>2. ASSUME NEW p \in Q
      PROVE  Pass(p, e) \in Q
  <2>1. CASE p.again
    <3> DEFINE q == Evaluate(p.sm, e)
               fresh == [p.sm EXCEPT !.hold = "none", !.eff_shutdown = e.eff_shutdown]
    <3>1. Pass(p, e) = q /\ Sound(p.sm, t) /\ FactsAt(e, t)
      BY <2>1 DEF Pass, ValidFacts
    <3>2. p.sm = b \/ Turned(p.sm, b, t, e)
      BY <2>1
    <3>3. /\ Sound(q.sm, t)
          /\ \/ q.again = TRUE /\ Legal(p.sm, q.sm.state, e) /\ Moved(p.sm, q.sm, t)
             \/ q.again = FALSE /\ SameTimeline(p.sm, q.sm)
      BY <3>1, PassMoves
    <3>4. q = [sm |-> q.sm, again |-> q.again]
      BY DEF Evaluate
    <3>5. ~q.again => q.sm = HoldBack(fresh, e)
      BY DEF Evaluate
    <3>6. /\ Sound(fresh, t) /\ fresh.hold = "none"
          /\ fresh.falling_hold_started = p.sm.falling_hold_started
          /\ fresh.falling_hold_since = p.sm.falling_hold_since
          /\ fresh.return_hold_active = p.sm.return_hold_active
          /\ fresh.return_hold_since = p.sm.return_hold_since
      BY <3>1, FreshSame DEF Sound, Machine
    <3> HIDE DEF q, fresh
    <3>7. q.sm \in A
      BY <3>3 DEF Sound
    <3>8. q \in [sm : A, again : BOOLEAN]
      BY <3>3, <3>4, <3>7
    <3>9. CASE q.again
      <4>1. Turned(q.sm, b, t, e)
        BY <3>1, <3>2, <3>3, <3>9, TurnedMoves
      <4> QED
        BY <3>1, <3>8, <3>9, <4>1
    <3>10. CASE ~q.again
      <4>1. HoldNotes(q.sm, e) /\ (q.sm.hold \in DueHolds => GoesOn(fresh, q.sm, t))
        BY <3>1, <3>5, <3>6, <3>10, HoldBackNotes
      <4>2. p.sm = b => (q.sm.hold \in DueHolds => GoesOn(b, q.sm, t))
        BY <3>6, <4>1 DEF GoesOn, SameFall
      <4>3. Turned(p.sm, b, t, e) => Turned(q.sm, b, t, e)
        BY <3>3, <3>10 DEF SameTimeline, Turned
      <4> QED
        BY <3>1, <3>2, <3>8, <3>10, <4>1, <4>2, <4>3
    <3> QED
      BY <3>9, <3>10
  <2>2. CASE ~p.again
    BY <2>2 DEF Pass
  <2> QED
    BY <2>1, <2>2
<1> DEFINE x == Settle(b, e).sm
<1> HIDE DEF Q
<1>3. Settle(b, e) \in Q
  BY <1>1, <1>2, SettleIn
<1>4. /\ HoldNotes(x, e) /\ (Turned(x, b, t, e) \/ GoesOn(b, x, t))
  BY <1>3 DEF Q
<1>5. ~Turned(x, b, t, e)
  <2> SUFFICES ASSUME Turned(x, b, t, e) PROVE FALSE
    OBVIOUS
  <2>1. x.state = "UNATTENDED" /\ x.unattended_start = t
    BY DEF Turned
  <2>2. WarningDue(x, e)
    BY <1>4, <2>1 DEF HoldNotes
  <2> QED
    BY <2>1, <2>2, ElapsedNow DEF WarningDue, ValidFacts, FactsAt
<1> QED
  BY <1>4, <1>5

\* The run of a cooling hold, as the step that holds it judges it.
LEMMA CoolingRuns ==
    ASSUME VInv, NEW in \in Inputs, NEW gap \in StepGaps, Step(in, gap),
           Read(in, gap).only_cooling
    PROVE  /\ heat'.cooling
           /\ heat'.cooling_since = IF heat.cooling THEN heat.cooling_since ELSE now'
           /\ ~Elapsed(now', heat'.cooling_since, cfg.cooling_hold_max)
<1> DEFINE t == now + gap
           h == JudgeHeat(heat, in, cfg, t)
<1>1. heat' = h /\ now' = t
  BY DEF Step, Outcome
<1>2. h.cooling /\ ~Elapsed(t, h.cooling_since, cfg.cooling_hold_max)
  BY DEF Read, Facts
<1>3. h.cooling_since = IF heat.cooling THEN heat.cooling_since ELSE t
  BY <1>2 DEF JudgeHeat
<1> QED
  BY <1>1, <1>2, <1>3

\* What a stretch of holds, without a break since the time since, has spent of
\* its time before its cooling hold, its falling hold and its return hold.
Spent(s) ==
    (IF s.falling_hold_started THEN FallingAndStep + CoolingAndStep ELSE 0)
    + (IF s.return_hold_active THEN ReturnAndStep + CoolingAndStep ELSE 0)

\* The hold in force has time left.
TimeLeft(s, h, t) ==
    /\ s.hold = "cooling" => h.cooling /\ t - h.cooling_since < CoolingMax
    /\ s.hold = "falling" => s.falling_hold_started /\ t - s.falling_hold_since < FallingMax
    /\ s.hold = "return" => s.return_hold_active /\ t - s.return_hold_since < ReturnMax

\* Holds began no later than the ones before them can have lasted.
BeganInTime(s, h, since) ==
    /\ s.hold = "cooling" => h.cooling_since <= since + StepMax + Spent(s)
    /\ s.falling_hold_started =>
          s.falling_hold_since + FallingAndStep <= since + StepMax + Spent(s)
    /\ s.return_hold_active =>
          s.return_hold_since + ReturnAndStep <= since + StepMax + Spent(s)

HoldsInv ==
    /\ hist.held_since <= now
    /\ sm.hold \notin DueHolds => hist.held_since = now
    /\ sm.hold \in DueHolds =>
          TimeLeft(sm, heat, now) /\ BeganInTime(sm, heat, hist.held_since)

\* How far a stretch of holds can have come.
LEMMA StretchSoFar ==
    ASSUME LongestExist, IInv, hist \in History, HoldsInv
    PROVE  /\ Spent(sm) \in Nat
           /\ sm.hold = "cooling" => now < hist.held_since + StepMax + Spent(sm) + CoolingMax
           /\ sm.hold # "cooling" => now <= hist.held_since + Spent(sm)
<1> DEFINE H == hist.held_since
<1>1. /\ CoolingMax \in Nat /\ FallingMax \in Nat /\ ReturnMax \in Nat /\ StepMax \in Nat
      /\ CoolingAndStep \in Nat /\ FallingAndStep \in Nat /\ ReturnAndStep \in Nat
  BY LimitsAreNat
<1>2. /\ H \in Nat /\ now \in Nat /\ heat.cooling_since \in Nat
      /\ sm.falling_hold_since \in Nat /\ sm.return_hold_since \in Nat
  BY DEF History, IInv, TypeOK, Heat, Machine
<1>3. Spent(sm) \in Nat
  BY <1>1 DEF Spent
<1>4. CASE sm.hold \notin DueHolds
  BY <1>2, <1>3, <1>4 DEF HoldsInv, DueHolds
<1>5. CASE sm.hold = "cooling"
  BY <1>1, <1>2, <1>3, <1>5 DEF HoldsInv, DueHolds, TimeLeft, BeganInTime
<1>6. CASE sm.hold = "falling"
  BY <1>1, <1>2, <1>3, <1>6 DEF HoldsInv, DueHolds, TimeLeft, BeganInTime, FallingAndStep
<1>7. CASE sm.hold = "return"
  BY <1>1, <1>2, <1>3, <1>7 DEF HoldsInv, DueHolds, TimeLeft, BeganInTime, ReturnAndStep
<1> QED
  BY <1>3, <1>4, <1>5, <1>6, <1>7 DEF DueHolds

\* A hold goes on in the step from now to t, or begins in it.
LEMMA HoldsGoOn ==
    ASSUME LongestExist, IInv, hist \in History, HoldsInv,
           NEW t \in Nat, now <= t, t <= now + StepMax,
           NEW x \in Machine, GoesOn(sm, x, t), NEW h \in Heat,
           x.hold = "cooling" =>
              h.cooling_since = IF heat.cooling THEN heat.cooling_since ELSE t
    PROVE  BeganInTime(x, h, hist.held_since)
<1> DEFINE H == hist.held_since
           latest == H + StepMax + Spent(sm) + CoolingAndStep
<1>1. /\ CoolingMax \in Nat /\ StepMax \in Nat \ {0}
      /\ CoolingAndStep \in Nat /\ FallingAndStep \in Nat /\ ReturnAndStep \in Nat
      /\ CoolingAndStep = CoolingMax - 1 + StepMax
  BY LimitsAreNat DEF CoolingAndStep
<1>2. /\ H \in Nat /\ now \in Nat /\ heat.cooling_since \in Nat /\ heat.cooling_since <= now
      /\ sm.falling_hold_since \in Nat /\ sm.return_hold_since \in Nat
      /\ sm.falling_hold_started \in BOOLEAN /\ sm.return_hold_active \in BOOLEAN
      /\ x.falling_hold_started \in BOOLEAN /\ x.return_hold_active \in BOOLEAN
      /\ x.falling_hold_since \in Nat /\ x.return_hold_since \in Nat
      /\ sm.falling_hold_since <= now /\ sm.return_hold_since <= now
  BY DEF History, IInv, TypeOK, StartsInThePast, Past, Heat, Machine
<1>3. /\ Spent(sm) \in Nat
      /\ sm.hold = "cooling" => now < H + StepMax + Spent(sm) + CoolingMax
      /\ sm.hold # "cooling" => now <= H + Spent(sm)
  BY StretchSoFar
<1>4. t <= latest
  BY <1>1, <1>2, <1>3
<1>5. /\ Spent(x) \in Nat /\ Spent(x) >= Spent(sm)
      /\ x.falling_hold_started /\ ~sm.falling_hold_started =>
            Spent(x) >= Spent(sm) + FallingAndStep + CoolingAndStep
      /\ x.return_hold_active /\ ~sm.return_hold_active =>
            Spent(x) >= Spent(sm) + ReturnAndStep + CoolingAndStep
      /\ sm.falling_hold_started => Spent(sm) >= FallingAndStep + CoolingAndStep
      /\ sm.return_hold_active => Spent(sm) >= ReturnAndStep + CoolingAndStep
  BY <1>1, <1>2 DEF Spent, GoesOn, SameFall
<1> HIDE DEF H
<1>6. ASSUME x.hold = "cooling"
      PROVE  h.cooling_since <= H + StepMax + Spent(x)
  <2>1. CASE heat.cooling /\ sm.hold = "cooling"
    <3>1. heat.cooling_since <= H + StepMax + Spent(sm)
      BY <2>1 DEF HoldsInv, DueHolds, BeganInTime, H
    <3> QED
      BY <1>1, <1>2, <1>3, <1>5, <1>6, <2>1, <3>1
  <2>2. CASE sm.hold # "cooling"
    <3>1. h.cooling_since <= t /\ h.cooling_since \in Nat
      BY <1>2, <1>6
    <3> QED
      BY <1>1, <1>2, <1>3, <1>5, <2>2, <3>1
  <2>3. sm.hold = "cooling" => heat.cooling
    BY DEF HoldsInv, DueHolds, TimeLeft
  <2> QED
    BY <2>1, <2>2, <2>3
<1>7. ASSUME x.falling_hold_started
      PROVE  x.falling_hold_since + FallingAndStep <= H + StepMax + Spent(x)
  <2>1. CASE ~sm.falling_hold_started
    <3>1. x.falling_hold_since = t
      BY <1>7, <2>1 DEF GoesOn
    <3> QED
      BY <1>1, <1>2, <1>3, <1>4, <1>5, <1>7, <2>1, <3>1
  <2>2. CASE sm.falling_hold_started
    <3>1. x.falling_hold_since = sm.falling_hold_since
      BY <2>2 DEF GoesOn, SameFall
    <3>2. sm.hold \in DueHolds =>
             sm.falling_hold_since + FallingAndStep <= H + StepMax + Spent(sm)
      BY <2>2 DEF HoldsInv, BeganInTime, H
    <3>3. sm.hold \notin DueHolds => now = H
      BY DEF HoldsInv, H
    <3> QED
      BY <1>1, <1>2, <1>3, <1>5, <2>2, <3>1, <3>2, <3>3
  <2> QED
    BY <2>1, <2>2
<1>8. ASSUME x.return_hold_active
      PROVE  x.return_hold_since + ReturnAndStep <= H + StepMax + Spent(x)
  <2>1. CASE ~sm.return_hold_active
    <3>1. x.return_hold_since = t
      BY <1>8, <2>1 DEF GoesOn
    <3> QED
      BY <1>1, <1>2, <1>3, <1>4, <1>5, <1>8, <2>1, <3>1
  <2>2. CASE sm.return_hold_active
    <3>1. x.return_hold_since = sm.return_hold_since
      BY <2>2 DEF GoesOn
    <3>2. sm.hold \in DueHolds =>
             sm.return_hold_since + ReturnAndStep <= H + StepMax + Spent(sm)
      BY <2>2 DEF HoldsInv, BeganInTime, H
    <3>3. sm.hold \notin DueHolds => now = H
      BY DEF HoldsInv, H
    <3> QED
      BY <1>1, <1>2, <1>3, <1>5, <2>2, <3>1, <3>2, <3>3
  <2> QED
    BY <2>1, <2>2
<1> QED
  BY <1>6, <1>7, <1>8 DEF BeganInTime, H

LEMMA HoldsStep ==
    ASSUME TestInv, EarlyInv, EarlyInv', HoldsInv, Uptime, SelfTestFits, LongestExist,
           NEW in \in Inputs, NEW gap \in StepGaps, HStep(in, gap)
    PROVE  HoldsInv'
<1> DEFINE t == now + gap
           e == Read(in, gap)
           r == Ready(in, gap)
<1>1. VInv /\ cfg \in Configs /\ Step(in, gap)
  BY DEF TestInv, HStep
<1>2. IInv /\ IInv' /\ sm \in Machine /\ hist \in History
  <2>1. Next
    BY DEF Next, HStep
  <2> QED
    BY <1>1, <2>1, NextValid DEF VInv, IInv, TypeOK, EarlyInv
<1>3. /\ t \in Nat /\ now \in Nat /\ now <= t /\ now' = t /\ t <= MaxTime
      /\ Sound(r, t) /\ ValidFacts(e, t) /\ e.t = t /\ e.cfg = cfg
      /\ sm' = Settle(r, e).sm
  BY <1>1, StepParts DEF Step, ValidFacts, FactsAt
<1>4. ~Settle(r, e).again
  BY StepRests
<1>5. /\ r.state = sm.state
      /\ r.falling_hold_started = sm.falling_hold_started
      /\ r.falling_hold_since = sm.falling_hold_since
      /\ r.return_hold_active = sm.return_hold_active
      /\ r.return_hold_since = sm.return_hold_since
  BY <1>1, ReadyFields
<1>6. hist'.held_since = IF sm'.hold \in DueHolds /\ sm'.state = sm.state
                         THEN hist.held_since ELSE t
  BY <1>3 DEF HStep
<1>7. t <= now + StepMax /\ StepMax \in Nat
  BY <1>2, LimitsAreNat DEF IInv, TypeOK
<1> HIDE DEF t, e, r
<1>8. HoldNotes(sm', e)
  BY <1>3, <1>4, SettleNotes DEF ValidFacts
<1>9. /\ sm' \in Machine /\ heat' \in Heat /\ Past(sm', t) /\ heat'.cooling_since <= t
      /\ sm'.falling_hold_since \in Nat /\ sm'.return_hold_since \in Nat
      /\ heat'.cooling_since \in Nat
  BY <1>2, <1>3 DEF IInv, TypeOK, StartsInThePast, Machine, Heat
<1>10. hist.held_since \in Nat /\ hist.held_since <= now
  BY <1>2 DEF History, HoldsInv
<1>11. ASSUME sm'.hold = "cooling"
       PROVE  /\ heat'.cooling
              /\ heat'.cooling_since = IF heat.cooling THEN heat.cooling_since ELSE t
              /\ ~Elapsed(t, heat'.cooling_since, cfg.cooling_hold_max)
  <2>1. e.only_cooling
    BY <1>8, <1>11 DEF HoldNotes, InTime, DueHolds
  <2> QED
    BY <1>1, <1>3, <2>1, CoolingRuns DEF e
<1>12. ASSUME sm'.hold \in DueHolds
       PROVE  TimeLeft(sm', heat', t)
  <2>1. InTime(sm', e)
    BY <1>8, <1>12 DEF HoldNotes
  <2>2. /\ cfg.cooling_hold_max \in Nat /\ cfg.falling_hold_max \in Nat
        /\ cfg.return_debounce + cfg.return_gap \in Nat
        /\ cfg.cooling_hold_max <= CoolingMax /\ cfg.falling_hold_max <= FallingMax
        /\ cfg.return_debounce + cfg.return_gap <= ReturnMax
        /\ CoolingMax \in Nat /\ FallingMax \in Nat /\ ReturnMax \in Nat
    BY <1>1, LimitsAreNat DEF VInv, IInv, TypeOK, Config
  <2>3. \A since \in Nat : since <= t => t - since < Wrap
    BY <1>3, ClockAssumption DEF Uptime
  <2>4. sm'.hold = "cooling" => heat'.cooling /\ t - heat'.cooling_since < CoolingMax
    BY <1>3, <1>9, <1>11, <2>2, <2>3, ElapsedFits
  <2>5. sm'.hold = "falling" =>
           sm'.falling_hold_started /\ t - sm'.falling_hold_since < FallingMax
    BY <1>3, <1>9, <2>1, <2>2, <2>3, ElapsedFits DEF InTime, Past
  <2>6. sm'.hold = "return" =>
           sm'.return_hold_active /\ t - sm'.return_hold_since < ReturnMax
    BY <1>3, <1>9, <2>1, <2>2, <2>3, ElapsedFits DEF InTime, Past
  <2> QED
    BY <2>4, <2>5, <2>6 DEF TimeLeft
<1>13. ASSUME sm'.hold \in DueHolds, sm'.state = sm.state
       PROVE  BeganInTime(sm', heat', hist.held_since)
  <2>1. r.state \in {"UNATTENDED", "WARNING"}
    BY <1>5, <1>8, <1>13 DEF HoldNotes
  <2>2. GoesOn(r, sm', t)
    BY <1>3, <1>4, <1>5, <1>13, <2>1, StaysHeld
  <2>3. GoesOn(sm, sm', t)
    BY <1>5, <2>2 DEF GoesOn, SameFall
  <2> QED
    BY <1>2, <1>3, <1>7, <1>9, <1>11, <2>3, HoldsGoOn
<1>14. ASSUME sm'.hold \in DueHolds, sm'.state # sm.state
       PROVE  BeganInTime(sm', heat', t)
  <2>1. /\ CoolingAndStep \in Nat /\ FallingAndStep \in Nat /\ ReturnAndStep \in Nat
    BY LimitsAreNat
  <2>2. /\ Spent(sm') \in Nat
        /\ sm'.falling_hold_started => Spent(sm') >= FallingAndStep
        /\ sm'.return_hold_active => Spent(sm') >= ReturnAndStep
    BY <2>1 DEF Spent
  <2> QED
    BY <1>3, <1>7, <1>9, <2>1, <2>2 DEF BeganInTime, Past
<1> QED
  BY <1>3, <1>6, <1>10, <1>12, <1>13, <1>14 DEF HoldsInv

\* The three holds keep a due buzzer or shutdown back for a bounded time in any
\* order, and the falling hold from the first of the timeline.
THEOREM HoldsAreBounded ==
    ASSUME Uptime, SelfTestFits, LongestExist
    PROVE  HSpec => []HoldsEnd
<1>1. HInit => HoldsInv
  BY DEF HInit, Init, HoldsInv, DueHolds
<1>2. ASSUME TestInv, EarlyInv, EarlyInv', HoldsInv, [HNext]_wvars
      PROVE  HoldsInv'
  <2>1. ASSUME NEW in \in Inputs, NEW gap \in StepGaps, HStep(in, gap)
        PROVE  HoldsInv'
    BY <1>2, <2>1, HoldsStep
  <2>2. ASSUME NEW c \in Configs, HSetConfig(c)
        PROVE  HoldsInv'
    <3>1. /\ now' = now /\ sm' = sm /\ heat' = heat
          /\ hist' \in {hist, [hist EXCEPT !.danger_since = now]}
      BY <2>2 DEF HSetConfig, SetConfig
    <3>2. hist'.held_since = hist.held_since
      BY <1>2, <3>1 DEF EarlyInv, History
    <3> QED
      BY <1>2, <3>1, <3>2 DEF HoldsInv, TimeLeft, BeganInTime, Spent
  <2>3. CASE UNCHANGED wvars
    BY <1>2, <2>3 DEF wvars, vars, HoldsInv, TimeLeft, BeganInTime, Spent
  <2> QED
    BY <1>2, <2>1, <2>2, <2>3 DEF HNext
<1>3. ASSUME TestInv, EarlyInv, HeldInv, HoldsInv
      PROVE  HoldsEnd
  <2>1. IInv /\ hist \in History
    BY <1>3 DEF TestInv, VInv, EarlyInv
  <2>2. /\ CoolingMax \in Nat /\ FallingMax \in Nat /\ ReturnMax \in Nat /\ StepMax \in Nat \ {0}
        /\ CoolingAndStep \in Nat /\ FallingAndStep \in Nat /\ ReturnAndStep \in Nat
    BY LimitsAreNat
  <2>3. /\ now \in Nat /\ hist.held_since \in Nat /\ hist.fell \in Nat
        /\ sm.falling_hold_since \in Nat
    BY <2>1 DEF IInv, TypeOK, History, Machine
  <2>4. /\ Spent(sm) \in Nat
        /\ sm.hold = "cooling" => now < hist.held_since + StepMax + Spent(sm) + CoolingMax
        /\ sm.hold # "cooling" => now <= hist.held_since + Spent(sm)
    BY <1>3, <2>1, StretchSoFar
  <2>5. Spent(sm) <= FallingAndStep + ReturnAndStep + 2 * CoolingAndStep
    BY <2>2 DEF Spent
  <2>6. now - hist.held_since <= 3 * CoolingMax + FallingMax + ReturnMax + 5 * (StepMax - 1)
    BY <2>2, <2>3, <2>4, <2>5 DEF CoolingAndStep, FallingAndStep, ReturnAndStep
  <2>7. ASSUME sm.hold = "falling"
        PROVE  now - hist.fell < FallingMax
    <3>1. now - sm.falling_hold_since < FallingMax
      BY <1>3, <2>7 DEF HoldsInv, TimeLeft, DueHolds
    <3>2. sm.falling_hold_since <= hist.fell
      BY <1>3, <2>7 DEF HeldInv
    <3> QED
      BY <2>2, <2>3, <3>1, <3>2
  <2>8. Most("return_debounce") \in Nat /\ Most("return_gap") \in Nat
    BY MostIsMost DEF HoldLimits
  <2> QED
    BY <2>2, <2>3, <2>6, <2>7, <2>8 DEF HoldsEnd, CoolingMax, FallingMax, ReturnMax, StepMax
<1>4. TestInv /\ (EarlyInv /\ HeldInv) /\ (EarlyInv /\ HeldInv)' /\ HoldsInv /\ [HNext]_wvars
      => HoldsInv'
  BY <1>2
<1>5. HSpec => []TestInv
  BY HistTest
<1>6. HSpec => [](EarlyInv /\ HeldInv)
  BY HistHeld
<1>7. TestInv /\ (EarlyInv /\ HeldInv) /\ HoldsInv => HoldsEnd
  BY <1>3
<1> QED
  BY <1>1, <1>4, <1>5, <1>6, <1>7, PTL DEF HSpec
-----------------------------------------------------------------------------
(***************************************************************************)
(* Cut off by the deadline.  In a danger nobody returns, nothing pauses and  *)
(* no hold has a reason, so each state is left when its timer runs out; and  *)
(* the ways round through FAULT use the timers that are already running.     *)
(***************************************************************************)

\* The longest the absence takes to be confirmed, the countdown after it, and the
\* buzzer's minimum.
AwayMax(c) == Max2(c.absence_debounce, c.look_window)
CountMax(c) == IF c.shutdown_timing = "unattended_start"
               THEN Max2(c.shutdown, c.fault_shutdown) ELSE c.warning
DwellMax(c) == Max2(c.warning_min_after_hold, c.late_warning_min)

\* In a danger that began at h: the latest a countdown can start, and the latest
\* its buzzer can.
LatestStart(c, h) == h + 2 * StepMax + AwayMax(c) - 1
LatestBuzzer(c, h) == LatestStart(c, h) + CountMax(c) + StepMax - 1

\* No timer of the machine began later than the danger lets it.
InDanger(x, c, h) ==
    /\ x.absent_timing /\ x.absent_since <= h + StepMax
    /\ x.state = "MONITORING" => x.monitoring_since <= h + StepMax
    /\ x.unattended_active => x.unattended_start <= LatestStart(c, h)
    /\ x.state = "FAULT" /\ ~x.unattended_active => x.state_entered <= LatestStart(c, h)
    /\ x.state = "WARNING" => x.state_entered <= LatestBuzzer(c, h)
    /\ x.warning_started => x.warning_start <= LatestBuzzer(c, h)

\* The same during a step at t: a state that opens a timer is passed in time.
DangerInStep(x, t, e, h) ==
    /\ InDanger(x, e.cfg, h)
    /\ x.state \in {"BOOT", "SELF_TEST", "IDLE"} => t <= h + StepMax
    /\ x.state = "MONITORING" => t <= LatestStart(e.cfg, h)
    /\ x.state = "UNATTENDED" => t <= LatestBuzzer(e.cfg, h)
    /\ x.state = "FAULT" /\ SystemOk(e) => t <= LatestBuzzer(e.cfg, h)

\* The machine a step at t leaves waits for a timer that has not run out.
Waits(x, c, h, t) ==
    /\ x.state \in {"MONITORING", "UNATTENDED", "WARNING", "SHUTDOWN", "FAULT"}
    /\ x.state = "MONITORING" => t < h + StepMax + AwayMax(c)
    /\ x.state = "UNATTENDED" => t < x.unattended_start + c.warning
    /\ x.state = "FAULT" =>
          /\ c.shutdown_timing = "unattended_start"
          /\ IF x.unattended_active THEN t < x.unattended_start + c.shutdown
             ELSE t < x.state_entered + c.fault_shutdown
    /\ x.state = "WARNING" =>
          \/ t < c.shutdown + (IF c.shutdown_timing = "unattended_start"
                               THEN x.unattended_start ELSE x.warning_start)
          \/ t < x.state_entered + DwellMax(c)

DangerInv ==
    /\ hist.danger_since <= now
    /\ hist.danger_since < now => /\ heat.active
                                  /\ InDanger(sm, cfg, hist.danger_since)
                                  /\ Waits(sm, cfg, hist.danger_since, now)

\* What a reading in danger says to the guards.
DangerFacts(e) ==
    /\ e.cooking /\ ~e.only_cooling /\ ~e.pan_falling
    /\ e.presence # "present" /\ ~e.returning /\ ~e.person_returned
    /\ ~e.reset_request

\* The limits of a danger in numbers.
LEMMA DangerLimits ==
    ASSUME LongestGapExists, NEW c \in Config, SafetyConfigValid(c), NEW h \in Nat
    PROVE  /\ StepMax \in Nat \ {0} /\ AwayMax(c) \in Nat /\ CountMax(c) \in Nat \ {0}
           /\ DwellMax(c) \in Nat
           /\ LatestStart(c, h) \in Nat /\ LatestBuzzer(c, h) \in Nat
           /\ h + StepMax <= LatestStart(c, h) /\ LatestStart(c, h) <= LatestBuzzer(c, h)
           /\ AwayMax(c) >= c.absence_debounce /\ AwayMax(c) >= c.look_window
           /\ DwellMax(c) >= c.warning_min_after_hold /\ DwellMax(c) >= c.late_warning_min
           /\ CountMax(c) >= c.warning
           /\ c.shutdown_timing = "unattended_start" =>
                 CountMax(c) >= c.shutdown /\ CountMax(c) >= c.fault_shutdown
<1>1. StepMax \in Nat \ {0}
  BY GapsAreBounded
<1>2. /\ c.absence_debounce \in Nat /\ c.look_window \in Nat
      /\ c.warning \in Nat \ {0} /\ c.shutdown \in Nat \ {0} /\ c.fault_shutdown \in Nat
      /\ c.warning_min_after_hold \in Nat /\ c.late_warning_min \in Nat
      /\ c.shutdown_timing = "unattended_start" => c.shutdown > c.warning
  BY DEF Config, SafetyConfigValid, ShutdownAfterWarning
<1>3. /\ AwayMax(c) \in Nat /\ DwellMax(c) \in Nat
      /\ AwayMax(c) >= c.absence_debounce /\ AwayMax(c) >= c.look_window
      /\ DwellMax(c) >= c.warning_min_after_hold /\ DwellMax(c) >= c.late_warning_min
  BY <1>2 DEF AwayMax, DwellMax, Max2
<1>4. /\ CountMax(c) \in Nat \ {0} /\ CountMax(c) >= c.warning
      /\ c.shutdown_timing = "unattended_start" =>
            CountMax(c) >= c.shutdown /\ CountMax(c) >= c.fault_shutdown
  BY <1>2 DEF CountMax, Max2
<1> QED
  BY <1>1, <1>3, <1>4 DEF LatestStart, LatestBuzzer

\* A legal move in danger opens no timer late.
LEMMA DangerMoves ==
    ASSUME LongestGapExists, NEW h \in Nat, NEW s, NEW t, NEW e, NEW y,
           Sound(s, t), Sound(y, t), ValidFacts(e, t), DangerFacts(e),
           Legal(s, y.state, e), Moved(s, y, t), DangerInStep(s, t, e, h)
    PROVE  DangerInStep(y, t, e, h)
<1> DEFINE c == e.cfg
<1>1. /\ s \in Machine /\ y \in Machine /\ Shape(s) /\ Shape(y) /\ t \in Nat /\ e.t = t
      /\ y.state_entered = t /\ c \in Config /\ SafetyConfigValid(c)
  BY DEF Sound, ValidFacts, FactsAt, Moved
<1>2. /\ StepMax \in Nat /\ LatestStart(c, h) \in Nat /\ LatestBuzzer(c, h) \in Nat
      /\ h + StepMax <= LatestStart(c, h) /\ LatestStart(c, h) <= LatestBuzzer(c, h)
  BY <1>1, DangerLimits
<1>3. /\ s.absent_timing /\ s.absent_since <= h + StepMax
      /\ s.state = "MONITORING" => s.monitoring_since <= h + StepMax /\ t <= LatestStart(c, h)
      /\ s.state \in {"BOOT", "SELF_TEST", "IDLE"} => t <= h + StepMax
      /\ s.state = "UNATTENDED" => t <= LatestBuzzer(c, h)
      /\ s.state = "FAULT" /\ SystemOk(e) => t <= LatestBuzzer(c, h)
      /\ s.unattended_active => s.unattended_start <= LatestStart(c, h)
      /\ s.state = "FAULT" /\ ~s.unattended_active => s.state_entered <= LatestStart(c, h)
      /\ s.warning_started => s.warning_start <= LatestBuzzer(c, h)
  BY DEF DangerInStep, InDanger
<1>4. \/ y.state = "SELF_TEST" /\ s.state = "BOOT"
      \/ y.state = "IDLE" /\ s.state = "SELF_TEST"
      \/ y.state = "MONITORING" /\ s.state = "IDLE"
      \/ y.state = "FAULT" /\ ~SystemOk(e) /\ s.state \in Running \cup {"SELF_TEST"}
      \/ y.state = "UNATTENDED" /\ s.state = "MONITORING"
      \/ y.state = "UNATTENDED" /\ s.state = "FAULT" /\ SystemOk(e)
      \/ y.state = "WARNING" /\ s.state = "UNATTENDED"
      \/ y.state = "SHUTDOWN" /\ s.state # "SHUTDOWN"
  BY DEF Legal, DangerFacts, CooledDown, SystemOk
<1> HIDE DEF c
<1>5. y.absent_timing /\ y.absent_since <= h + StepMax
  BY <1>3, <1>4 DEF Moved, Running
<1>6. CASE y.state \in {"IDLE", "MONITORING"}
  <2>1. ~y.unattended_active /\ ~y.warning_started
    BY <1>1, <1>6 DEF Shape
  <2>2. y.state = "MONITORING" => y.monitoring_since = t
    BY DEF Moved
  <2>3. t <= h + StepMax
    BY <1>3, <1>4, <1>6
  <2> QED
    BY <1>1, <1>2, <1>5, <1>6, <2>1, <2>2, <2>3 DEF DangerInStep, InDanger, c
<1>7. CASE y.state \notin {"IDLE", "MONITORING"}
  <2>1. /\ y.unattended_active = (s.unattended_active \/ y.state = "UNATTENDED")
        /\ y.unattended_start = IF y.unattended_active /\ ~s.unattended_active
                                THEN Opening(s, t) ELSE s.unattended_start
        /\ y.warning_started = (s.warning_started \/ y.state = "WARNING")
        /\ y.warning_start = IF y.warning_started /\ ~s.warning_started
                             THEN t ELSE s.warning_start
    BY <1>7 DEF Moved
  <2>2. y.unattended_active => y.unattended_start <= LatestStart(c, h)
    <3>1. CASE s.unattended_active
      BY <1>3, <2>1, <3>1
    <3>2. CASE ~s.unattended_active /\ y.unattended_active
      <4>1. y.unattended_start = Opening(s, t) /\ s.state \in {"MONITORING", "FAULT"}
        BY <1>4, <2>1, <3>2
      <4>2. CASE s.state = "FAULT"
        BY <1>3, <3>2, <4>1, <4>2 DEF Opening
      <4>3. CASE s.state = "MONITORING"
        <5>1. y.unattended_start \in {s.absent_since, s.monitoring_since}
          BY <1>3, <4>1, <4>3, LaterPicks DEF Opening
        <5> QED
          BY <1>1, <1>2, <1>3, <4>3, <5>1 DEF Machine
      <4> QED
        BY <4>1, <4>2, <4>3
    <3> QED
      BY <3>1, <3>2
  <2>3. y.state = "WARNING" => t <= LatestBuzzer(c, h)
    BY <1>3, <1>4
  <2>4. y.warning_started => y.warning_start <= LatestBuzzer(c, h)
    BY <1>3, <2>1, <2>3
  <2>5. y.state = "FAULT" /\ ~y.unattended_active => t <= LatestStart(c, h)
    <3>1. ASSUME y.state = "FAULT", ~y.unattended_active
          PROVE  s.state \in {"SELF_TEST", "IDLE", "MONITORING"}
      BY <1>1, <1>4, <2>1, <3>1 DEF Running, Shape
    <3> QED
      BY <1>1, <1>2, <1>3, <3>1
  <2>6. y.state = "UNATTENDED" => t <= LatestBuzzer(c, h)
    BY <1>1, <1>2, <1>3, <1>4
  <2>7. y.state \in {"BOOT", "SELF_TEST"} => t <= h + StepMax
    BY <1>3, <1>4
  <2>8. ~(y.state = "FAULT" /\ SystemOk(e))
    BY <1>4
  <2> QED
    BY <1>1, <1>5, <1>7, <2>2, <2>3, <2>4, <2>5, <2>6, <2>7, <2>8 DEF DangerInStep, InDanger, c
<1> QED
  BY <1>6, <1>7

\* What the readings of a danger make of the step's facts, and of the machine its
\* first pass finds.
LEMMA DangerRead ==
    ASSUME VInv, NEW in \in Inputs, NEW gap \in StepGaps, Step(in, gap), Danger(in),
           hist.danger_since # now => heat.active
    PROVE  /\ DangerFacts(Read(in, gap)) /\ heat'.active
           /\ PauseClock(sm, in.presence, cfg, gap) = sm
           /\ Ready(in, gap).absent_timing
<1> DEFINE t == now + gap
           h == JudgeHeat(heat, in, cfg, t)
           k == UpdateTier(tier, h.active, in, cfg, t)
           b == ReturnTimer(back, in.presence, cfg, t)
           e == Read(in, gap)
           r == Ready(in, gap)
<1>1. /\ in.pan = "cooking" \/ (in.pan \in {"hold", "lost"} /\ heat.active)
      /\ in.fit \in {"unknown", "heating"} /\ in.fast # "falling"
      /\ in.presence # "present" /\ ~in.reset_request
      /\ in.presence \in {"absent", "unknown"}
  BY InputsAssumption DEF Danger, Input
<1>2. h.active /\ ~h.cooling
  BY <1>1 DEF JudgeHeat, HeatDetect
<1>3. heat' = h
  BY DEF Step, Outcome
<1>4. e = Facts(in, cfg, t, h, k, b)
  BY DEF Read
<1> HIDE DEF h, k, b, e
<1>5. DangerFacts(e) /\ e.presence = in.presence
  BY <1>1, <1>2, <1>4 DEF DangerFacts, Facts, PresentConfirmed
<1>6. PauseClock(sm, in.presence, cfg, gap) = sm
  BY <1>1 DEF PauseClock
<1>7. r = AbsenceTimer(sm, e)
  BY <1>6, StepParts DEF e
<1>8. sm \in Machine
  BY DEF VInv, IInv, TypeOK
<1> HIDE DEF r
<1>9. r.absent_timing
  <2>1. ~e.person_returned /\ EffectivePresence(e) = "absent"
    BY <1>1, <1>5 DEF DangerFacts, EffectivePresence
  <2>2. CASE sm.absent_timing
    BY <1>7, <2>1, <2>2 DEF AbsenceTimer
  <2>3. CASE ~sm.absent_timing
    <3>1. r = [sm EXCEPT !.absent_timing = TRUE, !.absent_since = e.t]
      BY <1>7, <2>1, <2>3 DEF AbsenceTimer
    <3> QED
      BY <1>8, <3>1 DEF Machine
  <2> QED
    BY <2>2, <2>3
<1> QED
  BY <1>2, <1>3, <1>5, <1>6, <1>9 DEF e, r

\* The first pass of a step in danger finds no timer that began late, and no wait
\* that has outlasted its timer by more than the step.
LEMMA DangerReady ==
    ASSUME LongestGapExists, VInv, hist \in History, DangerInv,
           NEW in \in Inputs, NEW gap \in StepGaps, Step(in, gap), Danger(in)
    PROVE  DangerInStep(Ready(in, gap), now + gap, Read(in, gap), hist.danger_since)
<1> DEFINE t == now + gap
           e == Read(in, gap)
           r == Ready(in, gap)
           h == hist.danger_since
<1> SUFFICES DangerInStep(r, t, e, h)
  OBVIOUS
<1>1. /\ h \in Nat /\ h <= now /\ now \in Nat /\ gap \in Nat /\ gap <= StepMax /\ t \in Nat
      /\ sm \in Machine /\ cfg \in Config /\ SafetyConfigValid(cfg) /\ Shape(sm)
      /\ r \in Machine /\ Past(r, t) /\ e.cfg = cfg
      /\ heat.active \in BOOLEAN
  BY StepParts, GapsAreBounded
  DEF History, VInv, IInv, TypeOK, TimelineShape, DangerInv, Sound, Heat
<1>2. /\ StepMax \in Nat \ {0} /\ AwayMax(cfg) \in Nat /\ CountMax(cfg) \in Nat
      /\ LatestStart(cfg, h) \in Nat /\ LatestBuzzer(cfg, h) \in Nat
      /\ h + StepMax <= LatestStart(cfg, h) /\ LatestStart(cfg, h) <= LatestBuzzer(cfg, h)
      /\ CountMax(cfg) >= cfg.warning
      /\ cfg.shutdown_timing = "unattended_start" =>
            CountMax(cfg) >= cfg.shutdown /\ CountMax(cfg) >= cfg.fault_shutdown
      /\ cfg.warning \in Nat /\ cfg.shutdown \in Nat /\ cfg.fault_shutdown \in Nat
  BY <1>1, DangerLimits DEF Config
<1>3. r.absent_timing /\ PauseClock(sm, in.presence, cfg, gap) = sm
  <2>1. hist.danger_since # now => heat.active
    BY <1>1 DEF DangerInv
  <2> QED
    BY <2>1, DangerRead
<1>4. /\ r.state = sm.state /\ r.state_entered = sm.state_entered
      /\ r.monitoring_since = sm.monitoring_since
      /\ r.unattended_active = sm.unattended_active
      /\ r.warning_started = sm.warning_started
      /\ r.unattended_start = sm.unattended_start /\ r.warning_start = sm.warning_start
      /\ r.absent_since = IF sm.absent_timing THEN sm.absent_since ELSE t
  BY <1>3, ReadyFields
<1> HIDE DEF t, e, r, h
<1>5. CASE h = now
  <2>1. t <= h + StepMax
    BY <1>1, <1>2, <1>5 DEF t
  <2>2. /\ r.absent_since <= t /\ r.monitoring_since <= t /\ r.unattended_start <= t
        /\ r.state_entered <= t /\ r.warning_start <= t
        /\ r.absent_since \in Nat /\ r.monitoring_since \in Nat /\ r.unattended_start \in Nat
        /\ r.state_entered \in Nat /\ r.warning_start \in Nat
    BY <1>1 DEF Past, Machine
  <2> QED
    BY <1>1, <1>2, <1>3, <2>1, <2>2 DEF DangerInStep, InDanger
<1>6. CASE h < now
  <2>1. InDanger(sm, cfg, h) /\ Waits(sm, cfg, h, now)
    BY <1>6 DEF DangerInv, h
  <2>2. InDanger(r, cfg, h)
    BY <1>3, <1>4, <2>1 DEF InDanger
  <2>3. /\ sm.unattended_start \in Nat /\ sm.state_entered \in Nat
        /\ t = now + gap
    BY <1>1 DEF Machine, t
  <2>4. r.state = "MONITORING" => t <= LatestStart(cfg, h)
    BY <1>1, <1>2, <1>4, <2>1, <2>3 DEF Waits, LatestStart
  <2>5. r.state = "UNATTENDED" => t <= LatestBuzzer(cfg, h)
    <3>1. r.state = "UNATTENDED" =>
             now < sm.unattended_start + cfg.warning /\ sm.unattended_start <= LatestStart(cfg, h)
      BY <1>1, <1>4, <2>1 DEF Waits, InDanger, Shape
    <3> QED
      BY <1>1, <1>2, <2>3, <3>1 DEF LatestBuzzer
  <2>6. r.state = "FAULT" => t <= LatestBuzzer(cfg, h)
    <3>1. ASSUME r.state = "FAULT"
          PROVE  /\ cfg.shutdown_timing = "unattended_start"
                 /\ \/ /\ now < sm.unattended_start + cfg.shutdown
                       /\ sm.unattended_start <= LatestStart(cfg, h)
                    \/ /\ now < sm.state_entered + cfg.fault_shutdown
                       /\ sm.state_entered <= LatestStart(cfg, h)
      BY <1>4, <2>1, <3>1 DEF Waits, InDanger
    <3> QED
      BY <1>1, <1>2, <2>3, <3>1 DEF LatestBuzzer
  <2>7. r.state \notin {"BOOT", "SELF_TEST", "IDLE"}
    BY <1>4, <2>1 DEF Waits
  <2> QED
    BY <1>1, <2>2, <2>4, <2>5, <2>6, <2>7 DEF DangerInStep
<1> QED
  BY <1>1, <1>5, <1>6

\* Where a step in danger comes to rest, the wait is not over.
LEMMA DangerRests ==
    ASSUME LongestGapExists, Uptime, NEW h \in Nat, NEW x, NEW t, NEW e, t <= MaxTime,
           Sound(x, t), ValidFacts(e, t), DangerFacts(e), AtRest(x, e), HoldNotes(x, e),
           e.eff_warning <= e.cfg.warning, e.eff_shutdown <= e.cfg.shutdown,
           x.state \notin {"BOOT", "SELF_TEST"},
           x.state = "FAULT" =>
              e.cfg.shutdown_timing = "unattended_start" /\ e.cfg.fault_shutdown > 0,
           DangerInStep(x, t, e, h)
    PROVE  Waits(x, e.cfg, h, t)
<1> DEFINE c == e.cfg
<1>1. /\ x \in Machine /\ Shape(x) /\ t \in Nat /\ e.t = t /\ MaxTime \in Nat
      /\ c \in Config /\ SafetyConfigValid(c)
      /\ e.eff_warning \in Nat /\ e.eff_shutdown \in Nat
      /\ x.state_entered \in Nat /\ x.state_entered <= t
      /\ x.absent_since \in Nat /\ x.absent_since <= t
      /\ x.monitoring_since \in Nat /\ x.monitoring_since <= t
      /\ x.unattended_start \in Nat /\ x.unattended_start <= t
      /\ x.warning_start \in Nat /\ x.warning_start <= t
      /\ x.state \in States
  BY ClockAssumption DEF Sound, ValidFacts, FactsAt, Machine, Past
<1>2. /\ StepMax \in Nat /\ AwayMax(c) \in Nat /\ DwellMax(c) \in Nat
      /\ AwayMax(c) >= c.absence_debounce /\ AwayMax(c) >= c.look_window
      /\ DwellMax(c) >= c.warning_min_after_hold /\ DwellMax(c) >= c.late_warning_min
      /\ c.absence_debounce \in Nat /\ c.look_window \in Nat
      /\ c.warning \in Nat /\ c.shutdown \in Nat /\ c.fault_shutdown \in Nat
      /\ c.warning_min_after_hold \in Nat /\ c.late_warning_min \in Nat
  BY <1>1, DangerLimits DEF Config
<1>3. \A since \in Nat, wait \in Nat :
         since <= t /\ ~Elapsed(t, since, wait) => t < since + wait
  <2> TAKE since \in Nat, wait \in Nat
  <2> HAVE since <= t /\ ~Elapsed(t, since, wait)
  <2>1. t - since < Wrap
    BY <1>1, ClockAssumption DEF Uptime
  <2> QED
    BY <1>1, <2>1, ElapsedFits
<1>4. x.state \in {"UNATTENDED", "WARNING"} => x.hold = "none"
  <2>1. x.hold \in {"none", "return", "cooling", "falling", "checking"}
    BY <1>1 DEF Machine, Holds
  <2> QED
    BY <2>1 DEF HoldNotes, InTime, DueHolds, DangerFacts
<1> HIDE DEF c
<1>5. x.state \in {"MONITORING", "UNATTENDED", "WARNING", "SHUTDOWN", "FAULT"}
  BY <1>1, RestFacts DEF DangerFacts, States
<1>6. x.state = "MONITORING" => t < h + StepMax + AwayMax(c)
  <2> SUFFICES ASSUME x.state = "MONITORING"
               PROVE  t < h + StepMax + AwayMax(c)
    OBVIOUS
  <2>1. /\ x.absent_timing /\ x.absent_since <= h + StepMax
        /\ x.monitoring_since <= h + StepMax
    BY DEF DangerInStep, InDanger
  <2>2. ~(AbsentConfirmed(x, e) /\ x.hold = "none")
    BY <1>1, RestFacts
  <2>3. CASE ~AbsentConfirmed(x, e)
    <3>1. ~Elapsed(t, x.absent_since, c.absence_debounce)
      BY <1>1, <2>1, <2>3 DEF AbsentConfirmed, c
    <3>2. t < x.absent_since + c.absence_debounce
      BY <1>1, <1>2, <1>3, <3>1
    <3> QED
      BY <1>1, <1>2, <2>1, <3>2
  <2>4. CASE x.hold # "none"
    <3>1. x.hold = "checking"
      BY <1>1, <2>4 DEF HoldNotes, DueHolds, Machine, Holds
    <3>2. Looking(x, e)
      BY <3>1 DEF HoldNotes, DangerFacts
    <3>3. PICK away \in {x.absent_since, x.monitoring_since} : ~Elapsed(t, away, c.look_window)
      BY <1>1, <3>2, LaterPicks DEF Looking, c
    <3>4. t < away + c.look_window
      BY <1>1, <1>2, <1>3, <3>3
    <3> QED
      BY <1>1, <1>2, <2>1, <3>3, <3>4
  <2> QED
    BY <2>2, <2>3, <2>4
<1>7. x.state = "UNATTENDED" => t < x.unattended_start + c.warning
  <2> SUFFICES ASSUME x.state = "UNATTENDED"
               PROVE  t < x.unattended_start + c.warning
    OBVIOUS
  <2>1. ~WarningDue(x, e)
    BY <1>1, <1>4, RestFacts
  <2>2. ~Elapsed(t, x.unattended_start, e.eff_warning)
    BY <1>1, <2>1 DEF WarningDue, Shape
  <2>3. t < x.unattended_start + e.eff_warning
    BY <1>1, <1>3, <2>2
  <2> QED
    BY <1>1, <1>2, <2>3 DEF c
<1>8. x.state = "FAULT" =>
        /\ c.shutdown_timing = "unattended_start"
        /\ IF x.unattended_active THEN t < x.unattended_start + c.shutdown
           ELSE t < x.state_entered + c.fault_shutdown
  <2> SUFFICES ASSUME x.state = "FAULT"
               PROVE  IF x.unattended_active THEN t < x.unattended_start + c.shutdown
                      ELSE t < x.state_entered + c.fault_shutdown
    BY DEF c
  <2>1. c.shutdown_timing = "unattended_start" /\ c.fault_shutdown > 0
    BY DEF c
  <2>2. ~ShutdownDue(x, e) /\ ~Elapsed(t, x.state_entered, c.fault_shutdown)
    BY <1>1, <2>1, RestFacts DEF c
  <2>3. x.unattended_active => t < x.unattended_start + e.eff_shutdown
    BY <1>1, <1>3, <2>1, <2>2 DEF ShutdownDue, c
  <2>4. t < x.state_entered + c.fault_shutdown
    BY <1>1, <1>2, <1>3, <2>2
  <2> QED
    BY <1>1, <1>2, <2>3, <2>4 DEF c
<1>9. x.state = "WARNING" =>
        \/ t < c.shutdown + (IF c.shutdown_timing = "unattended_start"
                             THEN x.unattended_start ELSE x.warning_start)
        \/ t < x.state_entered + DwellMax(c)
  <2> SUFFICES ASSUME x.state = "WARNING"
               PROVE  \/ t < c.shutdown + (IF c.shutdown_timing = "unattended_start"
                                           THEN x.unattended_start ELSE x.warning_start)
                      \/ t < x.state_entered + DwellMax(c)
    OBVIOUS
  <2>1. ~ShutdownDue(x, e) \/ ~Elapsed(t, x.state_entered, Dwell(x, e))
    BY <1>1, <1>4, RestFacts
  <2>2. CASE ~ShutdownDue(x, e)
    <3> DEFINE start == IF c.shutdown_timing = "unattended_start"
                        THEN x.unattended_start ELSE x.warning_start
    <3>1. ~Elapsed(t, start, e.eff_shutdown)
      BY <1>1, <2>2 DEF ShutdownDue, Shape, c
    <3>2. start \in Nat /\ start <= t
      BY <1>1
    <3> HIDE DEF start
    <3>3. t < start + e.eff_shutdown
      BY <1>1, <1>3, <3>1, <3>2
    <3> QED
      BY <1>1, <1>2, <3>2, <3>3 DEF c, start
  <2>3. CASE ~Elapsed(t, x.state_entered, Dwell(x, e))
    <3>1. Dwell(x, e) \in Nat /\ Dwell(x, e) <= DwellMax(c)
      BY <1>2 DEF Dwell, c
    <3>2. t < x.state_entered + Dwell(x, e)
      BY <1>1, <1>3, <2>3, <3>1
    <3> QED
      BY <1>1, <1>2, <3>1, <3>2
  <2> QED
    BY <2>1, <2>2, <2>3
<1> QED
  BY <1>5, <1>6, <1>7, <1>8, <1>9 DEF Waits, c

\* The waits of a tier are no longer than the base ones.
LEMMA TiersShorten ==
    ASSUME NEW c \in Config, NEW k \in 1..TopTier
    PROVE  EffWarning(c, k) <= c.warning /\ EffShutdown(c, k) <= c.shutdown
<1>1. c.warning \in Nat /\ c.shutdown \in Nat
  BY DEF Config
<1>2. CASE TierApplies(c, k)
  <2>1. c.tiers[k].warning \in Nat /\ c.tiers[k].shutdown \in Nat
    BY <1>2 DEF Config, TierSetting, TierApplies
  <2>2. TierShutdown(c, k) \in Int
    BY <2>1 DEF TierShutdown
  <2> QED
    BY <1>1, <1>2, <2>1, <2>2 DEF EffWarning, EffShutdown, Min2
<1>3. CASE ~TierApplies(c, k)
  BY <1>1, <1>3 DEF EffWarning, EffShutdown
<1> QED
  BY <1>2, <1>3

LEMMA DangerStep ==
    ASSUME TestInv, EarlyInv, EarlyInv', DangerInv, Uptime, SelfTestFits, LongestGapExists,
           NEW in \in Inputs, NEW gap \in StepGaps, HStep(in, gap)
    PROVE  DangerInv'
<1> DEFINE t == now + gap
           e == Read(in, gap)
           r == Ready(in, gap)
           h == hist.danger_since
           A == {x \in Machine : Sound(x, t) /\ DangerInStep(x, t, e, h)}
<1>1. VInv /\ VInv' /\ Step(in, gap) /\ hist \in History
  <2>1. Next
    BY DEF Next, HStep
  <2> QED
    BY <2>1, NextValid DEF TestInv, EarlyInv, HStep
<1>2. /\ t \in Nat /\ now \in Nat /\ now <= t /\ now' = t /\ cfg' = cfg /\ t <= MaxTime
      /\ Sound(r, t) /\ ValidFacts(e, t) /\ e.cfg = cfg /\ sm' = Settle(r, e).sm
      /\ h \in Nat /\ h <= now
  BY <1>1, StepParts DEF Step, DangerInv, History
<1>3. hist'.danger_since = IF Danger(in) THEN h ELSE t
  BY <1>2 DEF HStep
<1>4. CASE ~Danger(in)
  BY <1>2, <1>3, <1>4 DEF DangerInv
<1>5. CASE Danger(in)
  <2>1. DangerFacts(e) /\ heat'.active
    BY <1>1, <1>2, <1>5, DangerRead DEF DangerInv
  <2>2. DangerInStep(r, t, e, h)
    BY <1>1, <1>5, DangerReady
  <2>3. e.eff_warning <= cfg.warning /\ e.eff_shutdown <= cfg.shutdown
    <3> DEFINE k == UpdateTier(tier, heat'.active, in, cfg, t)
    <3>1. tier' = k /\ tier' \in Tier
      BY <1>1 DEF Step, Outcome, VInv, IInv, TypeOK
    <3>2. heat' = JudgeHeat(heat, in, cfg, t)
      BY <1>1 DEF Step, Outcome
    <3>3. e.eff_warning = EffWarning(cfg, k.tier) /\ e.eff_shutdown = EffShutdown(cfg, k.tier)
      BY <3>2 DEF Read, Facts
    <3>4. cfg \in Config /\ k.tier \in 1..TopTier
      BY <1>1, <3>1 DEF VInv, IInv, TypeOK, Tier
    <3> QED
      BY <3>3, <3>4, TiersShorten
  <2>4. AtRest(sm', e) /\ ~Settle(r, e).again
    BY <1>1, StepAtRest, StepRests
  <2>5. sm'.state \notin {"BOOT", "SELF_TEST"}
        /\ (sm'.state = "FAULT" =>
               cfg.shutdown_timing = "unattended_start" /\ cfg.fault_shutdown > 0)
    BY <1>5 DEF Danger
  <2> HIDE DEF t, e, r, h
  <2>6. HoldNotes(sm', e)
    BY <1>2, <2>4, SettleNotes DEF ValidFacts
  <2>7. ASSUME NEW x \in A, NEW y \in Machine, Sound(y, t), Legal(x, y.state, e), Moved(x, y, t)
        PROVE  y \in A
    BY <1>2, <2>1, <2>7, DangerMoves
  <2>8. ASSUME NEW x \in A, NEW y \in Machine, Sound(y, t), SameTimeline(x, y)
        PROVE  y \in A
    BY <2>8 DEF SameTimeline, DangerInStep, InDanger
  <2>9. r \in A
    BY <1>2, <2>2 DEF Sound
  <2>10. sm' \in A
    <3> HIDE DEF A
    <3>1. \A x \in A : Sound(x, t)
      BY DEF A
    <3> QED
      BY <1>1, <2>7, <2>8, <2>9, <3>1, StepEndsIn DEF t, e, r
  <2>11. Sound(sm', t) /\ DangerInStep(sm', t, e, h)
    BY <2>10
  <2>12. Waits(sm', cfg, h, t)
    BY <1>2, <2>1, <2>3, <2>4, <2>5, <2>6, <2>11, DangerRests
  <2> QED
    BY <1>2, <1>3, <1>5, <2>1, <2>11, <2>12 DEF DangerInv, DangerInStep
<1> QED
  BY <1>4, <1>5

\* A pan with heat going in and nobody in sight is cut off by its deadline,
\* whatever the faults, tiers, holds and pauses before and meanwhile.
THEOREM CutByDeadline ==
    ASSUME Uptime, SelfTestFits, LongestGapExists
    PROVE  HSpec => []CutOffByDeadline
<1>1. HInit => DangerInv
  BY DEF HInit, Init, DangerInv
<1>2. ASSUME TestInv, EarlyInv, EarlyInv', DangerInv, [HNext]_wvars
      PROVE  DangerInv'
  <2>1. ASSUME NEW in \in Inputs, NEW gap \in StepGaps, HStep(in, gap)
        PROVE  DangerInv'
    BY <1>2, <2>1, DangerStep
  <2>2. ASSUME NEW c \in Configs, HSetConfig(c)
        PROVE  DangerInv'
    <3>1. /\ now' = now /\ sm' = sm /\ heat' = heat
          /\ hist' = IF cfg' = cfg THEN hist ELSE [hist EXCEPT !.danger_since = now]
      BY <2>2 DEF HSetConfig, SetConfig
    <3>2. now \in Nat /\ (cfg' # cfg => hist'.danger_since = now)
      BY <1>2, <3>1 DEF EarlyInv, History, TestInv, VInv, IInv, TypeOK
    <3>3. CASE cfg' = cfg
      BY <1>2, <3>1, <3>3 DEF DangerInv
    <3>4. CASE cfg' # cfg
      BY <3>1, <3>2, <3>4 DEF DangerInv
    <3> QED
      BY <3>3, <3>4
  <2>3. CASE UNCHANGED wvars
    BY <1>2, <2>3 DEF wvars, vars, DangerInv
  <2> QED
    BY <1>2, <2>1, <2>2, <2>3 DEF HNext
<1>3. ASSUME TestInv, EarlyInv, DangerInv
      PROVE  CutOffByDeadline
  <2> DEFINE h == hist.danger_since
  <2>1. /\ now \in Nat /\ h \in Nat /\ h <= now /\ sm \in Machine /\ Shape(sm)
        /\ cfg \in Config /\ SafetyConfigValid(cfg)
        /\ cfg.warning \in Nat /\ cfg.shutdown \in Nat \ {0} /\ cfg.fault_shutdown \in Nat
    BY <1>3 DEF TestInv, VInv, IInv, TypeOK, TimelineShape, EarlyInv, History, DangerInv,
                Config, SafetyConfigValid
  <2>2. /\ StepMax \in Nat \ {0} /\ AwayMax(cfg) \in Nat /\ CountMax(cfg) \in Nat \ {0}
        /\ DwellMax(cfg) \in Nat
        /\ LatestStart(cfg, h) \in Nat /\ LatestBuzzer(cfg, h) \in Nat
        /\ CountMax(cfg) >= cfg.warning
        /\ cfg.shutdown_timing = "unattended_start" =>
              CountMax(cfg) >= cfg.shutdown /\ CountMax(cfg) >= cfg.fault_shutdown
    BY <2>1, DangerLimits
  <2>3. /\ LatestStart(cfg, h) = h + 2 * StepMax + AwayMax(cfg) - 1
        /\ LatestBuzzer(cfg, h) = h + 3 * StepMax + AwayMax(cfg) + CountMax(cfg) - 2
    BY <2>1, <2>2 DEF LatestStart, LatestBuzzer
  <2>4. Deadline(cfg) = AwayMax(cfg) +
           (IF cfg.shutdown_timing = "unattended_start" THEN CountMax(cfg) + DwellMax(cfg)
            ELSE cfg.warning + Max2(cfg.shutdown, DwellMax(cfg))) + 3 * StepMax
    BY DEF Deadline, AwayMax, CountMax, DwellMax, StepMax
  <2>5. Deadline(cfg) \in Nat /\ Deadline(cfg) >= AwayMax(cfg) + 3 * StepMax + CountMax(cfg)
    BY <2>1, <2>2, <2>4 DEF CountMax, Max2
  <2>6. ASSUME h < now, sm.state # "SHUTDOWN"
        PROVE  now - h < Deadline(cfg)
    <3>1. InDanger(sm, cfg, h) /\ Waits(sm, cfg, h, now)
      BY <1>3, <2>6 DEF DangerInv
    <3>2. /\ sm.unattended_start \in Nat /\ sm.state_entered \in Nat /\ sm.warning_start \in Nat
      BY <2>1 DEF Machine
    <3> HIDE DEF h
    <3>3. CASE sm.state = "MONITORING"
      BY <2>1, <2>2, <2>5, <3>1, <3>3 DEF Waits
    <3>4. CASE sm.state = "UNATTENDED"
      <4>1. /\ now < sm.unattended_start + cfg.warning
            /\ sm.unattended_start <= LatestStart(cfg, h)
        BY <2>1, <3>1, <3>4 DEF Waits, InDanger, Shape
      <4> QED
        BY <2>1, <2>2, <2>3, <2>5, <3>2, <4>1
    <3>5. CASE sm.state = "FAULT"
      <4>1. /\ cfg.shutdown_timing = "unattended_start"
            /\ \/ /\ now < sm.unattended_start + cfg.shutdown
                  /\ sm.unattended_start <= LatestStart(cfg, h)
               \/ /\ now < sm.state_entered + cfg.fault_shutdown
                  /\ sm.state_entered <= LatestStart(cfg, h)
        BY <3>1, <3>5 DEF Waits, InDanger
      <4> QED
        BY <2>1, <2>2, <2>3, <2>5, <3>2, <4>1
    <3>6. CASE sm.state = "WARNING"
      <4>1. /\ sm.state_entered <= LatestBuzzer(cfg, h)
            /\ sm.warning_start <= LatestBuzzer(cfg, h)
            /\ sm.unattended_start <= LatestStart(cfg, h)
        BY <2>1, <3>1, <3>6 DEF InDanger, Shape
      <4>2. \/ now < cfg.shutdown + (IF cfg.shutdown_timing = "unattended_start"
                                     THEN sm.unattended_start ELSE sm.warning_start)
            \/ now < sm.state_entered + DwellMax(cfg)
        BY <3>1, <3>6 DEF Waits
      <4>3. CASE cfg.shutdown_timing = "unattended_start"
        BY <2>1, <2>2, <2>3, <2>4, <3>2, <4>1, <4>2, <4>3
      <4>4. CASE cfg.shutdown_timing # "unattended_start"
        <5>1. CountMax(cfg) = cfg.warning
          BY <4>4 DEF CountMax
        <5>2. /\ Max2(cfg.shutdown, DwellMax(cfg)) \in Nat
              /\ Max2(cfg.shutdown, DwellMax(cfg)) >= cfg.shutdown
              /\ Max2(cfg.shutdown, DwellMax(cfg)) >= DwellMax(cfg)
          BY <2>1, <2>2 DEF Max2
        <5> QED
          BY <2>1, <2>2, <2>3, <2>4, <3>2, <4>1, <4>2, <4>4, <5>1, <5>2
      <4> QED
        BY <4>3, <4>4
    <3> QED
      BY <2>6, <3>1, <3>3, <3>4, <3>5, <3>6 DEF Waits
  <2> QED
    BY <2>1, <2>2, <2>5, <2>6 DEF CutOffByDeadline
<1>4. TestInv /\ (EarlyInv /\ HeldInv) /\ (EarlyInv /\ HeldInv)' /\ DangerInv /\ [HNext]_wvars
      => DangerInv'
  BY <1>2
<1>5. HSpec => []TestInv
  BY HistTest
<1>6. HSpec => [](EarlyInv /\ HeldInv)
  BY HistHeld
<1>7. TestInv /\ (EarlyInv /\ HeldInv) /\ DangerInv => CutOffByDeadline
  BY <1>3
<1> QED
  BY <1>1, <1>4, <1>5, <1>6, <1>7, PTL DEF HSpec
=============================================================================
