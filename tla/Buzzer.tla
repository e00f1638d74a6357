------------------------------- MODULE Buzzer -------------------------------
(***************************************************************************)
(* The buzzer driver, firmware/components/buzzer/src/buzzer.c.  Two tasks    *)
(* run it: the safety task calls buzzer_set_pattern on every loop, and the   *)
(* timer task runs pattern_tick when the one-shot timer of the last step     *)
(* expires.  Only the choice of the step is under the lock; driving the pin  *)
(* and arming the timer are not, so the two tasks interleave there.         *)
(*                                                                         *)
(* Time is in units of 50 ms.  ON and CHIRP are left out: no task asks for   *)
(* them (pattern_for, rb_outputs.c).                                        *)
(***************************************************************************)
EXTENDS Naturals, Sequences

CONSTANT TickMax    \* the longest the safety task waits between two calls

ASSUME TickAssumption == TickMax \in Nat \ {0}

VARIABLES
    pattern,   \* s_pattern
    step,      \* s_step, counted from 1
    timer,     \* the one-shot timer: armed, and the time left
    sounding,  \* the pin
    job,       \* what each task has still to do of its call
    since,     \* the time since the last call of the safety task
    amiss      \* how long the pin has been against the pattern in force

bvars == <<pattern, step, timer, sounding, job, since, amiss>>

\* PATTERNS: on and off in turn, over and over.
Steps ==
    [ OFF |-> << >>,
      WARNING |-> <<4, 16>>,
      SHUTDOWN |-> <<3, 3>>,
      FAULT |-> <<2, 2, 2, 34>> ]

Patterns == DOMAIN Steps
Tasks == {"safety", "timer"}

LongestOn == 4
LongestOff == 34

\* Bound on amiss: past it nothing is worse.
AmissMax == 2 * LongestOff

\* A task's place in the code, and the level and time of the step it plays.
Job == [pc : {"idle", "stop", "play", "drive", "arm", "silence"}, on : BOOLEAN, time : 0..LongestOff]
Idle == [pc |-> "idle", on |-> FALSE, time |-> 0]

BuzzerTypeOK ==
    /\ pattern \in Patterns /\ step \in 1..5 /\ sounding \in BOOLEAN
    /\ timer \in [armed : BOOLEAN, left : 0..LongestOff]
    /\ job \in [Tasks -> Job]
    /\ since \in 0..TickMax /\ amiss \in 0..AmissMax

BuzzerInit ==
    /\ pattern = "OFF" /\ step = 1 /\ sounding = FALSE
    /\ timer = [armed |-> FALSE, left |-> 0]
    /\ job = [k \in Tasks |-> Idle]
    /\ since = 0 /\ amiss = 0

At(k, pc) == job[k].pc = pc
Goto(k, pc) == job' = [job EXCEPT ![k].pc = pc]
Done(k) == job' = [job EXCEPT ![k] = Idle]

\* A call of buzzer_set_pattern(p), to the end of its critical section: the
\* pattern starts over even when it is the one that plays already.
SetPattern(p) ==
    /\ At("safety", "idle")
    /\ pattern' = p /\ step' = 1
    /\ job' = [job EXCEPT !["safety"].pc = IF p # pattern THEN "stop" ELSE "idle"]
    /\ since' = 0
    /\ amiss' = IF p = pattern THEN amiss ELSE 0
    /\ UNCHANGED <<timer, sounding>>

\* esp_timer_stop: no harm when the timer is not running.
Stop ==
    /\ At("safety", "stop")
    /\ timer' = [timer EXCEPT !.armed = FALSE]
    /\ Goto("safety", IF pattern = "OFF" THEN "silence" ELSE "play")
    /\ UNCHANGED <<pattern, step, sounding, since, amiss>>

\* Mutants: a pattern is not repeated; a finished one is not silenced.
StepNoMutant == step
EndedMutant(k) == Done(k)

\* The step to play: after the last one a pattern starts over.
StepNo == IF step > Len(Steps[pattern]) THEN 1 ELSE step

\* OFF has no steps, and nothing repeats it.
Ended(k) == Goto(k, "silence")

\* The critical section of pattern_tick.
Play(k) ==
    /\ At(k, "play")
    /\ IF StepNo > Len(Steps[pattern])
       THEN Ended(k) /\ UNCHANGED step
       ELSE /\ job' = [job EXCEPT ![k] = [pc |-> "drive", on |-> StepNo % 2 = 1,
                                          time |-> Steps[pattern][StepNo]]]
            /\ step' = StepNo + 1
    /\ UNCHANGED <<pattern, timer, sounding, since, amiss>>

Drive(k) ==
    /\ At(k, "drive")
    /\ sounding' = job[k].on
    /\ Goto(k, "arm")
    /\ UNCHANGED <<pattern, step, timer, since, amiss>>

\* esp_timer_start_once fails on a timer the other task has armed: its step is
\* then as long as the other's.
Arm(k) ==
    /\ At(k, "arm")
    /\ timer' = IF timer.armed THEN timer ELSE [armed |-> TRUE, left |-> job[k].time]
    /\ Done(k)
    /\ UNCHANGED <<pattern, step, sounding, since, amiss>>

Silence(k) ==
    /\ At(k, "silence")
    /\ sounding' = FALSE
    /\ Done(k)
    /\ UNCHANGED <<pattern, step, timer, since, amiss>>

\* The timer expires: its task calls pattern_tick.
Fire ==
    /\ At("timer", "idle") /\ timer.armed /\ timer.left = 0
    /\ timer' = [timer EXCEPT !.armed = FALSE]
    /\ Goto("timer", "play")
    /\ UNCHANGED <<pattern, step, sounding, since, amiss>>

\* Time passes while neither task has anything to do: their code takes far
\* less than a unit.
Pass ==
    /\ \A k \in Tasks : At(k, "idle")
    /\ ~(timer.armed /\ timer.left = 0)
    /\ since < TickMax
    /\ since' = since + 1
    /\ timer' = IF timer.armed THEN [timer EXCEPT !.left = @ - 1] ELSE timer
    /\ amiss' = IF sounding = (pattern # "OFF") THEN 0
                ELSE IF amiss = AmissMax THEN amiss ELSE amiss + 1
    /\ UNCHANGED <<pattern, step, sounding, job>>

Work ==
    \/ Stop
    \/ \E k \in Tasks : Play(k) \/ Drive(k) \/ Arm(k) \/ Silence(k)
    \/ Fire

BuzzerNext ==
    \/ \E p \in Patterns : SetPattern(p)
    \/ Work
    \/ Pass

\* The tasks run, and time passes however often the safety task calls; that it
\* calls at all is due to Pass waiting for it.
Fairness == WF_bvars(Work) /\ SF_bvars(Pass) /\ WF_bvars(\E p \in Patterns : SetPattern(p))

BuzzerSpec == BuzzerInit /\ [][BuzzerNext]_bvars /\ Fairness

-----------------------------------------------------------------------------
\* However the two tasks interleave, an alarm that stays is never silent for
\* longer than the pause the timer task may bring along from the pattern before
\* and its own first one, and OFF is never heard for longer than one beep.
HeardAsAsked ==
    BuzzerTypeOK /\ amiss <= IF pattern = "OFF" THEN LongestOn ELSE LongestOff + Steps[pattern][2]

\* A pin at rest has nothing against it: the timer runs whenever an alarm is
\* asked for and no task is at work, so the next step will come.
TimerKeptAlive ==
    pattern # "OFF" /\ (\A k \in Tasks : At(k, "idle")) => timer.armed

\* An OFF that stays ends in silence that stays.
OffGoesQuiet == <>[](pattern = "OFF") => <>[](~sounding)
=============================================================================
