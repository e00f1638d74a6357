# TLA+ models of the RB4107 cooking-safety system

The repository holds a system that cuts the gas or power of a stove left
unattended: ESP-IDF firmware in C (three sensor nodes and a controller), a
Django backend and a dashboard. This directory holds TLA+ models of the parts
whose behaviour over time matters, TLC configurations that check them on small
instances, and TLAPS proofs of what they hold for every value of their
constants. Paths below are relative to `src/`; `components/` is
`firmware/components/`.

## 1. The system

```text
C4002 radars A, B + MLX90640  -> sensor nodes -> ESP-NOW -> rx queue -> safety task
safety task: sensor_node set -> safety_step -> rb_outputs -> buzzer (esp_timer), relay (I2C expander)
safety task -> event queue, snapshot -> telemetry -> MQTT -> Django -> dashboard
dashboard -> MQTT commands -> pending slots, NVS -> safety task (next loop)
```

One task of the controller, the safety task, owns the node states and the
state machine. It wakes for a packet or after a tick (100 ms), takes the
requests other tasks left under a spinlock, evaluates the nodes, runs one
`safety_step` and applies its outputs. Everything else either feeds it through
a queue or a flag, or gets copies.

| Component | State it keeps | Operations | What is hard | What makes it correct |
|---|---|---|---|---|
| Safety state machine (`components/safety`) | state, three holds, absence and return timers, the unattended timeline, tier, pause account, latched heat | `safety_step`, `safety_set_config`; 21 transitions in `safety_rules.def` | long sequences of faults, returns, holds, tiers and settings; clocks that wrap; chains of rules in one step | the gas is cut by a deadline and never early; only a lasting return cancels; SHUTDOWN is latched |
| Sensor nodes as the controller sees them (`components/sensor_node`) | last sequence, uptime, times and reading of each node; restart ring; radar episodes | classify and store a packet, evaluate link and health, judge who dwells, fuse the radars | loss, repeats, reordering, reboots on both sides; five time limits in any order | no old reading replaces a newer one or is used too long; a verdict is earned by the visitor it is about |
| Relay and expander (`shutdown_output`, `tca9554`, `rb_outputs`, `rb_app`) | believed level and command, last check, relay fault; the chip's registers | boot, command, verify, restore | half-done transfers, brownouts, reboots | the gas follows the state once the board is calm; what is cut stays cut |
| Buzzer (`components/buzzer`) | pattern, step, one-shot timer, pin | `buzzer_set_pattern` (safety task), `pattern_tick` (timer task) | the tasks interleave outside the lock | an alarm is heard, OFF is silent |
| Controller core (`components/rb_controller`) | pending slots, queues, snapshot, counters | requests from other tasks, the loop | merge of concurrent settings, full queues | a request is taken once and whole; all settings or none |
| Settings (`rb_controller_app`, `rb_params`, `rb_ctrl_cmd`) | NVS copies of the settings, request slots, cards in force | parse, post, save, merge, reload at boot | saved before accepted, judged in batches | what runs is the base with the cards in force; what is in force is saved |
| Radar tuning (`rb_c4002_relay`, `_remote`, `_cmd`, `rb_node_sensors`) | one pending request, reply slot; the node's settings, its NVS and the radar's own | request, ACK, timeout; push, take back, save, calibrate | the answer races the timeout; a push fails half way | the radar uses what the node believes; a command is carried out once |
| Network and MQTT (`rb_net`, `rb_mqtt`, `rb_wifi`) | uplink, fallback and retry timers, connection, outbox | events and retries | loss during a switch | some uplink is tried again for ever |
| Node application and radio (`rb_node_app`, `rb_espnow`, `rb_protocol`) | last data sent, channel, counters of the search | send on change, heartbeat, channel search, receive | a failed send after the state moved on; late results | a change is reported in the end; no foreign frame counts |
| Telemetry (`rb_telemetry`, event queue of `rb_controller`, `rb_app_faults`) | event queue, snapshot, fault list | post, publish, flag losses | queue and outbox full, messages overtaken, messages expired | nothing is lost silently but what waited for 30 s |
| Backend (`django/ingest`) | device row, incidents, alerts, commands | handle telemetry and events | at-least-once and late messages | one incident per episode |
| Thermal pipeline, drivers, JSON, diagnostics, frontend | – | pure functions, I/O, presentation | – | – |

`PROJECT.json` lists them one by one under `components`, with what is modelled
of each, and every hazard met in the code under `hazards`, at its line, with
the properties that would catch it going wrong or the reason there is none.

## 2. The modules

| Module | Models | Role |
|---|---|---|
| `Safety` | `safety.c`, `safety_rules.def` | the state machine in full detail |
| `SafetyProps` | – | a history record beside the machine, and what the machine promises |
| `MCSafety` | – | configurations, inputs and the view of the runs |
| `SafetyProofs` | – | proofs about `Safety` and `SafetyProps`, and that the machine implements `Interlock` |
| `Interlock` | the machine's contract | abstract specification; `Safety` implements it, `Outputs` is driven by it |
| `Buzzer` | `buzzer.c`, its caller in `rb_outputs.c` | two tasks in one driver |
| `Outputs`, `OutputsProofs` | `rb_outputs.c`, `shutdown_output.c`, `tca9554.c`, the relay fault of `rb_app_faults.c` | from the safety state to the gas and back; the proofs are about `Buzzer` too |
| `SensorNode` | one node in `sensor_node.c` | from the air to a reading that may be used; proved about in `NodeLinkProofs` |
| `Presence`, `MCPresence`, `PresenceProofs` | the radar episodes and the fusion in `sensor_node.c` | from the readings of all radars to what the state machine is told |
| `Commands` | `rb_ctrl_cmd.c`, `rb_c4002_cmd.c` | which objects are commands; used by `Settings` and `Tuning` |
| `Settings`, `MCSettings`, `SettingsProofs` | `rb_controller_app.c`, the slots and the merge of `rb_controller.c`, `rb_params.c`, `safety_config_valid` | from MQTT and NVS to the configuration in force |
| `Radar` | `rb_node_sensors.c`, `rb_c4002_remote.c`, `c4002.c` | a presence node and its radar; no specification of its own |
| `Tuning`, `MCTuning`, `TuningProofs` | `rb_c4002_relay.c`, the command handling of `rb_c4002_remote.c` | drives `Radar` from the dashboard, over the radio |
| `Net` | `rb_net.c` | Ethernet, Wi-Fi, fallback and retry |
| `Connectivity`, `ConnectivityProofs` | the connection of `rb_mqtt.c`, the hooks on network changes | composes `Net` with the MQTT client |
| `Protocol` | framing and checks of `rb_protocol.c` | used by `NodeLink` |
| `NodeLink`, `NodeLinkProofs` | `rb_node_link.c`, `rb_espnow.c`, the receive queue | a node, its channel search, and the controller's ear |
| `Ingest` | `storage.py`, `incidents.py` | what the dashboard makes of a message; used by `Telemetry` |
| `Telemetry`, `TelemetryProofs` | `rb_telemetry.c`, the event queue and snapshot of `rb_controller.c`, `rb_app_faults.c`, the outbox of `rb_mqtt.c` | from the safety task to the dashboard |

`Interlock` ties the modules together. `Safety` is shown to implement it
(`ImplementsInterlock`, checked on the run `faults` and proved), and
`Outputs` uses it in place of the whole machine, so what is checked and proved
there holds whatever the detailed machine does.

### Safety

`Step(in, gap)` is one call of `safety_step`; `SetConfig(c)` is
`safety_set_config`. The step is a composition of operators with the names and
the order of the C code: `HeatDetect`, `JudgeHeat`, `UpdateTier`,
`PauseClock`, `ReturnTimer`, `AbsenceTimer`, then up to eight passes of
`Evaluate`, each of which takes the first rule of the table that fires
(`Guard`, `RuleAction`, `Transition` with `OnExit` and `OnEnter`). The rules
are numbered as in `safety_rules.def`.

State: `now` (time of the last step), `cfg`, and four records for
`safety_sm_t`: `heat` (heat detector and latched "only cooling"), `tier`,
`back` (return timer), `sm` (state, absence timer, timeline, holds, pause).

Abstractions:
- Time is in ticks. Instants are kept whole; the 32-bit wrap is in `Elapsed`
  and `Later`, the only operators of the code that compare instants.
- Thresholds and the regression over the trend buffer enter as the verdict they
  reach (`pan`, `fit`, `fast`, `tier_up`, `tier_down`), inputs of the step. What
  is done with a verdict (hysteresis latches, persistence, look window) is
  modelled.
- Fields of `safety_sm_t` and of the outputs that only telemetry reads are left
  out; so is `timing_hook`, NULL in this build (`rb_safety_config.c:68`). The
  branch of `evaluate` for an invalid state cannot be reached.
- A dashboard may change times and tiers, never the build's policies
  (`SameBuild`).

`hist` of `SafetyProps` is never read by the machine. It follows the readings
and the states from outside: since when nobody had to be counted away, since
when the pan is in danger, when someone was last seen, where the countdown
began. Properties compare the machine's timers with it.

### Outputs

A loop of the safety task is `Decide` (self-test hook and `safety_step`),
`Command` and `Verify`, with `Restore` and `Direct` after a mismatch; each bus
transfer is a step. The expander is external: two bits of one channel, which a
brownout sets to its power-on state (input, pulled high). A transfer on a flaky
bus may take effect and be reported as failed; on a dead one none succeeds.
A reboot keeps the chip and loses the machine and the driver's belief. The
latch of the shutdown is lost at a reboot, as `docs/remote_reset.md` says.

### Buzzer

`SetPattern`, `Stop`, `Play`, `Drive`, `Arm` and `Silence` are the pieces of
the two functions between which the other task can run: the critical section is
one step, driving the pin and arming the timer are others. Units of 50 ms.
`buzzer_on` and the CHIRP one-shot are left out: `pattern_for` asks for neither.

### SensorNode

`Deliver(p)` is `sensor_node_on_packet` on a packet in the air; `Rebooted`,
`Late` and `Classify` are `classify()`, `Link` and `SensorOk` are
`sensor_node_evaluate`. `Send`, `NodeReboot` and the radio are external,
modelled from `rb_espnow_send` and `rb_node_link_send`: packets carry uptime
and a sequence number, both start over at a reboot. What the slot stores as
instants is kept as ages, up to the longest a comparison can tell; a silence of
2^32 ms is left out, and so is the restart ring; episodes and fusion are in
`Presence`. Assumed of the environment
(`RadioAssumption`): a packet is in the air for less than a reboot takes and no
longer than the restart margin (1 s); a node that is up sends at least once a
tick and at most `Burst` times on average.

### Presence

`Loop` is one pass of the safety task: at most one packet of each radar
(`OnPacket`, with `Update` for `radar_episode_update`), a change of the rules,
`Evaluate` with `radar_episode_tick`, and `Inputs` for `node_set_inputs`. Packets
in the air are `SensorNode`'s business; here one comes, is not valid, or does
not come. Instants are ages up to the longest a limit can tell. The ring is
the set of its distances with their ages, and `recent_span_cm` the distances it
is the span of. `stay` is history, kept from what the rules were given and not
from what they made of it: since when nobody was seen, the time in the zone since
the visitor came, the time in one place, whether the rules heard the last reading.
That time is counted from the first sample after a change of the rules: an episode
that the old rules had ended starts over under the new ones.
Left out is what only telemetry reads: `presence_any`, start, extremes and the
last finished episode. With several settings `InSomeZone` takes the widest zone,
since rules may change in mid-stay.

### Settings and Commands

`Handler(card)` is one handler of `on_controller_command` in its two steps: the
post into the slot (`Post`) and the save to NVS (`Save`), between which the
safety task may run and the power may go. `SafetyTask` takes all slots at once,
merges them over the cards in use and over the base (`Merge`, in the order of
`take_requests`), and takes the result whole or not at all. `Reboot` posts what
`Load` accepts. `Commands` reads an object pair by pair, as the two parsers do;
`Around` makes the correct object and all that are one pair away from it. The
values of a card are abstracted to what validity and the merge tell apart. Left
out: resets (in `Safety`), log levels, the threshold of the thermal display, the
Kconfig choice of test timers at build time, and the verify period.

### Radar and Tuning

`Radar` holds what the node believes (`current`), what it saved (`stored`) and
what the radar really uses. `Push` is `c4002_apply_settings`: any command may
fail, with or without effect, and ends the push there. Each command of the
node's one tuning task is a step. `Tuning` adds the relay's three tasks, where
the send and the mark it leaves afterwards are two steps (`OnCommand`,
`MarkPending`), and a radio that keeps the order, loses any packet and repeats a
command right after itself. Timeouts may end at any moment. The settings are
the range and the sensitivity; gates, delays and periods are pushed like the
range. `doubt`, `stale` and `behind` are history: a failure of the radar
reported, a step that changed only one of current and stored, a report that will not
be shown. Left out: live data, and the answer of an earlier command that the
radar driver takes for one with the same code (`c4002.c:143`).

### Net and Connectivity

Handlers of the default event loop are steps (`EventLoop` takes the oldest
event), the fallback and the retry timer fire between them. Cable, access
points, drivers and brokers are external. `Connectivity` adds the MQTT client:
each change of the network state passes through `OnNetState`; a disconnect that is
asked for there, which the client's task carries out a moment later, is done at
once. Durations of the timers and the backoff are abstracted. `Init` covers Wi-Fi
only (the default build), Ethernet with fallback, and an Ethernet chip that does not start.

### NodeLink and Protocol

Four tasks share the radio: the link task (`LinkTick`), the follow task (seven
actions, `FollowTask`), the Wi-Fi task (`Transmit`, `OnSent`) and, on the other
side, the receiver and the safety task (`OnReceived`, `Drain`). A packet that is
transmitted on the wrong channel, not heard, not acknowledged, or has no room
is still reported to `OnSent`, later: what is counted then may belong to the
channel just left. `Stray` puts eight kinds of foreign frames on the air, and
`Decode` is the order of checks in `rb_protocol_decode`. A tick is one step,
as is a send with its count; bodies are one bit each of reading and faults.
`rb_espnow_follow_check` has no caller and the heat-map pieces are not sent.

### Telemetry and Ingest

A loop of the safety task is `Loop` (its events) and `Snapshot`; the telemetry
task may `Pass` in between, which publishes the periodic messages and the
events it finds. QoS 0 is delivered or lost, QoS 1 is kept in an outbox that
newer messages overtake (`Resend`). The firmware sets no time for that outbox,
so the client's own applies: the oldest messages come to have waited for 30 s
(`ThirtySeconds`, a mishap), and the client deletes each of those unless it sends it
first (`DeleteExpired`); no handler hears of it. `Ingest` is what `storage.py` and
`incidents.py` make of one message. A message carries, in place of times and
sequence numbers, whether a later one of this boot was stored. Assumed: the
controller's clock is set; the time after which a fault is cleared is longer
than a telemetry period, which also drains the queue (`rested`). One pass is
one step; broker and subscriber are one. Of the faults only the overflow of the event queue is followed.

## 3. The runs

| Run | Question | Bounds |
|---|---|---|
| `faults` | faults, failed self-tests, resets, lost camera, radar noise, stalled steps: is a countdown only cancelled by what may, and does it cut in time? | absence 1, return 2, warning 3, shutdown 4 ticks; one accepted and one refused configuration; steps 1 or 2 ticks apart; 5,751 states |
| `holds` | a falling, cooling, rising pan while people come and go: are the holds bounded, alone and in turn, and does the buzzer sound after them, with controller faults in between? | warning 1, shutdown 2, each hold 2 ticks; steps one or two ticks apart; two tiers; 12,519 states |
| `policies` | both builds of menuconfig with settings changed in mid-countdown | five configurations, one of them refused; 76,974 states |
| `buzzer` | do the two tasks keep the alarm? | any wait up to 1 s (20 units) between calls; 11,525 states |
| `outputs` | does the gas follow the state, with the default wiring? | a check every third loop, fault shutdown after 4 or 5 loops; 6,742 states |
| `sensor_node` | is every reading used fresh and in order? | two packets in the air, delay 1, reboot 2, stale 2, offline 3, lives of 3 ticks with 2 packets each on average; 498,249 states |
| `presence` | is a cook at the stove present, is a radar trusted only after a stay of the visitor it sees, and what does silence change? | two radars, a quiet gap and a dwell of one tick, stale after 2; either fusion, rules observed and in force; 55,773 states up to symmetry |
| `settings` | do commands, batches, refusals, failed saves and reboots leave in force, and in NVS, what was asked for? | seven cards, those that can be inconsistent with one value that is; three commands, one failed save, one reboot; 761,348 states |
| `tuning` | do node, radar and dashboard agree after lost, repeated and failed commands? | two commands that are in order one by one and not together, one automatic read, one packet in the air each way, two mishaps; 531,724 states |
| `connectivity` | is the controller served again whatever uplinks and brokers do? | two stored networks, a switch after two failures, two changes of the world; 669,607 states |
| `node_link` | does the controller know what its node knows, and the node where its controller is? | three channels, loss after two failures, room for two packets in the driver and one in the receive queue, both roles, two mishaps, one change; 276,336 states |
| `telemetry` | does the dashboard end up with the controller's state, incident and faults, and hear of what it lost? | queue of one event, outbox of two messages, two changes, two mishaps; 163,208 states |

**Why the bounds are enough.** The state machine compares ages with settings and
with each other, so what a tick stands for matters only through the order in
which timers run out. The settings keep the order of the defaults (absence before
warning before shutdown, holds shorter than the countdown; the instance `holds`
shortens the countdown to the length of one hold, so that holds outlast it), are a
few ticks apart, so that any other timer can start, end or start over in between, and are
varied between the runs (`policies` changes them within one). The view of
`MCSafety` makes the search exhaustive in time: two states are the same if every
age agrees up to the longest setting that is compared with it (over all
configurations, because settings change). The number of states is the same for
any number of TLC workers, which it would not be if states the view identifies
behaved differently. The clock itself is left out of it, and the search ends well
before `MaxTime` and `Wrap ÷ 2` are reached. There is the base tier and one
hotter one, switched on in some configurations and off in others; a third would
be one more pair of times. In `SensorNode` a duplicate is a packet that stays in
the air after delivery, a reordering needs two; the reboot is longer than a delay
as on the real node.

In `Presence` a tick is a loop with at most one packet of each radar; nodes send
one in five loops, so every pattern of packets and losses is a shorter one
here. What the run is about is which of two slots counts, and when: it has one
distance, no zone and a dwell of one tick. Zones, longer times and rings of
any size are in the proofs; that the distance has settled over the window is
modelled and holds only where the ring lasts as long (section 6).

The runs over the network bound what goes wrong (`MaxMishaps`, `MaxChanges`,
`MaxCommands`, `MaxReboots`), never what the tasks do: any number of ticks,
retries and retransmissions follow. `settings`: three commands are two cards in one
batch and one after it, or a batch refused and repaired. `tuning`: the second of two
requests can take the turn, the reply slot or the place on the radio of the
first; two mishaps are a refused push and a refused push back. `connectivity`: two
changes are an uplink lost and found again, during the switch the first one
caused. `node_link`: three channels are the old one, one in passing and the new one; two packets
fill the driver, one fills the receive queue. `telemetry`: with a queue of one
event, a loop that goes through two transitions overflows; two changes and two
mishaps contain an outbox overtaken, one whose alert expires after the connection
broke (an outage of 30 s), a restart, an incident closed and another opened, FAULT
followed by SHUTDOWN.

**Properties.** Where a run checks types, they are a conjunct of a property that
needs them.

- `CutOffByDeadline`: a hot pan nobody attends is cut off by a deadline computed
  from the settings, whatever happened before.
- `NeverCutEarly`: since the last moment nobody had to be counted away, the
  whole shutdown time in force and every pause have passed.
- `OnlyAReturnCancels`: in UNATTENDED and WARNING, a countdown is lost only to a
  return that lasted, a cooled pan or a reset of the shutdown itself.
- `PauseAccounted`: the countdown stood still for exactly the time on the account.
- `HoldsEnd`, `BuzzerAfterHold`: the three holds in any
  order keep a due step back for a bounded time, and the buzzer sounds after,
  unless the step reads a controller fault: the way through FAULT cuts a due
  shutdown at once.
- `SettlesInOneStep`: eight passes are enough from every reachable state.
- `ResetStartsOver`, `ImplementsInterlock`: the latch and the contract. A step
  is a step of the interlock, a new configuration changes its limit at most.
- `HeardAsAsked`, `TimerKeptAlive`, `OffGoesQuiet`: an alarm is silent for at
  most the pause inherited from the old pattern and its own; the chain of timer
  steps never breaks; OFF ends in silence.
- `RelayFollows`, `FaultPasses`: a period and a loop after the last
  disturbance, the gas is where the state wants it (or, before the first decision
  after a boot, where boot put it) and no fault is left.
  `NeverOnWithoutRelay`, `StaysCut`: safe states hold whatever the bus does.
- `UsedIsFresh`, `NeverBackwards`, `RestartIsReal`: freshness in true time
  (not the slot's), order, and no restart made up.
- `EarnedInThisStay`: a radar is trusted only for time in the zone, and still
  there, of the visitor it sees now, however the samples before were lost.
- `TheCookCounts`: who has stood still at the stove for as long as the rules ask
  is present. `SilenceTellsNothing`: a loop without packets makes nobody absent,
  and somebody present only where all must agree and one is gone.
- `RunsItsCards`: what runs is valid and is the base with the cards in force,
  whatever batches led there. `InForceIsSaved`: what is in force was asked for last and
  would be loaded again. `RefusedForABadCard`: no combination of consistent
  cards is refused.
- `RadarAsBelieved`, `SavedSurvives`: node, radar and NVS agree unless a failure
  was reported. `ExecutedOnce`: a command delivered twice is carried out once.
  `ShownIsCurrent`: the dashboard shows the node's settings once every report arrived.
  `EveryRequestAnswered`: each accepted request gets a reply in the end.
- `NeverStranded`: without an uplink some event, timer or attempt is on its way.
  `ChannelComesHome`: the radio returns to the nodes' channel. `ServedInTheEnd`:
  the client is connected over the interface in use.
- `FoundIsAnswered`: a node never takes a late result for an answer.
  `SeenIsOnItsWay`: while
  nothing goes wrong, the reading of the last tick is the last one in the two
  queues, or what the controller shows if they hold none.
  `KnownInTheEnd`: the controller learns reading and faults of its node.
- `NothingLostSilently`: an alert is queued, stored or counted, but for one that
  waited in the outbox for 30 s (`expired`). `LossIsFlagged`: a dropped event is
  shown. `OncePerEpisode`: an episode has one incident. `ShownInTheEnd`: state, faults and incident of the dashboard agree with the
  controller once the connection holds.

Each has a mutant in `PROJECT.json`: a plausible bug of the mapped code that
makes TLC report the property.

**Fairness.** `Safety`, `SensorNode`, `Presence` and `Settings` are safety only; "in the end" is
expressed there as a deadline. `Buzzer`: `WF(Work)` (both tasks run when they
have something to do), `SF(Pass)` (time goes on however often the safety task
calls), `WF` of the call (the safety task's loop). `Outputs`: `WF(Task)`, the
safety task has the highest priority and waits at most one tick
(`rb_controller.c`). `Tuning`: the MQTT handler ends and the telemetry task
polls; neither the radio nor the node is fair, which is what the timeout is for.
`Connectivity`: event loop, timers, drivers and the client's task run; the
world is not fair, and `ServedInTheEnd` speaks of worlds that settle.
`NodeLink`: the Wi-Fi and safety tasks run (`WF`); the periodic sends and the
follow task are `SF`, because the driver is full or busy only for moments, and a
packet that can be heard is, once the mishaps are over. `Telemetry`: both tasks
run and, while the connection holds, a pass gets through and the outbox is sent;
the client is not fair in deleting.
Nothing is assumed of the bus, the expander, the operator or the dashboard.

**Deadlock** is checked in the runs of `Safety`, `Buzzer`, `Outputs` and
`SensorNode`. It is switched off in `presence`, which never
stops, and in `settings`, `tuning`, `connectivity`, `node_link`
and `telemetry`, where nothing happens once the bounded inputs are used up and
everything has been handled.

## 4. The proofs

All are checked by TLAPS for every value of the constants; the assumptions are
the named `ASSUME`s of the modules, which TLC also evaluates on each run, and
the hypotheses named below, which the theorems state.

**`SafetyProofs`.** `TypeCorrect`, `ShapeKept`, `NoStartAhead`: the conjunction
`TypeOK /\ TimelineShape /\ StartsInThePast` is inductive. Each part needs
the others: a start is in the past only if the flags say which starts are
live, and pauses move one only as far as the step took. The proof follows a
step through its stages, one lemma for each, then by cases on the rules; the
eight passes are eight uses of one lemma. `PausesAccounted` adds the history:
each stage moves start and account together or empties the account.

The other theorems are about what a whole step may do, up to eight transitions
in a row. They do not go through the 21 rules again: a pass is abstracted once, to
`Legal` (which transition the facts of the step allow from a state), `Moved` (what
it makes of the timeline) and `AtRest` (no rule fires). A property of the step
is then a relation between the machine before the step and the one after some
passes, shown once to be kept by a legal move:

- `ResetClears` (`ResetStartsOver`): after a reset no timer lies before the step.
- `OneStepSettles` (`SettlesInOneStep`): `Rank` bounds the transitions a step can
  still make; each lowers it, it is 8 at most, and at 0 the machine rests. Needs
  `SelfTestFits`: the self-test timeout and a gap fit in half the clock (two
  minutes at most, against 24 days), or an absence from before the test would
  compare as later than now.
- `InterlockImplemented` (`ImplementsInterlock`), the refinement: initial states map
  to initial states, every step to the interlock's step on the same fault, reset
  and gap, every configuration to a change of the limit or to nothing. Needs that the
  step comes to rest, and `FaultTimesFit`: a fault does not outlast the 32-bit clock,
  because the controller restarts within 49 days or because the fault shutdown is on.
  A fault that lasts 49 days with the fault shutdown off has its age wrap.
- `CancelledByAReturn` (`OnlyAReturnCancels`): the return timer runs no longer than
  somebody was seen without a gap (`ReturnInv`), and a chain of transitions that
  closes a countdown contains one of the three reasons, even if a later one
  opens another. Needs `ReturnGapFits` (10 s at most in the code).
- `CutsInTime` (`NeverCutEarly`): no start of the machine, less its pauses, lies
  before the last moment somebody attended (`Since`, `SinceInStep`).
- `BuzzerSounds` (`BuzzerAfterHold`): a timeline that was held is marked
  (`held_once`) until it closes, through FAULT and back, so the guard of the
  shutdown asks for the buzzer's minimum.
- `HoldsAreBounded` (`HoldsEnd`): a stretch of holds spends the one falling hold
  and the one return hold of the timeline, and a cooling hold before, between and
  after them, each begun a step after the one before it has ended (`Spent`,
  `HoldsInv`). A step that ends where it began with a due step held has taken no
  transition (`StaysHeld`). The first version of the bound left out the steps
  between two holds; the proof did not close, and with stalled steps TLC shows
  it false. The `holds` run now has them, and meets the new bound exactly.
- `CutByDeadline` (`CutOffByDeadline`): in a danger nobody returns, nothing is paused
  and no hold has a reason, so each state is left when its timer runs out, and
  the detours through FAULT go on with timers that already run (`InDanger`: none
  started late; `Waits`: the one waited for has not run out). `DangerInStep`
  carries both through the passes of a step.
- These two need a longest step gap, the first also a longest of each hold's
  settings (`LongestExist`): their bounds name it.
- The last four need `Uptime`: the clock has not come half round (24 days). This
  is a real limit of the code: an instant older than 2^31 ms compares as later than
  any other (section 6).

**`OutputsProofs`.** `TypesKept`; `OffWithoutRelay` from an invariant on the boot
flags; `GasStaysCut` from an invariant that ties the driver's belief to the
command, assuming the fail-safe wiring (`FailSafe`: the level an input is pulled
to is the one that cuts the gas, as with the defaults): without it a brownout
gives the gas back and the property is false. `GasFollows` and
`RelayFaultPasses`: on a calm board the chip disobeys, or a fault stays, for no
longer than the check that is due by then, which `FollowInv` says at each place
of the loop.

`BuzzerHeard` and `BuzzerNeverStalls` are about `Buzzer`, for any longest time
between two calls. `BuzzerInv` has four parts: an alarm has its next step on the
way (`Alive`), the places the two tasks can be in together (`Places`), what is
left of a beep under OFF (`Hush`), and for a silence under an alarm the step
that ends it (`Loud`). While both tasks play the first steps of a new alarm, the
steps they still owe and the one reached are three at most, so both stop short of a
pause that would count twice.

**`PresenceProofs`.** The invariant relates episode and history of each radar: the
last sample is the same, what the next sample can credit is no more than the
visitor spent, and nobody was seen gone for longer than the episode has been
without a sample, or that plus a quiet gap; while rules are on,
`radar_episode_tick` bounds the former. One lemma for each stage of a loop.
`Recent` (an episode ends with the visit, packets or not) and `Earned` follow.
`Silent` assumes `PatientRules`: in ENFORCE two quiet gaps and a second are no
shorter than the stale time, as with the defaults (4 s and 2 s); without it the
property is false (section 6). `CookCounts` (`TheCookCounts`), under the same
assumption, is the converse of `Earned`: `Steadied` says that a visitor heard of lately
has an episode, that it has credited the time in one place, and that the ring has
no other place as young as that time; `Counted` that it goes on while its
reading counts. The proof found the history too generous: time from before a
change of the rules must not count, because the old rules may have ended the
episode (`Close`).

**`SettingsProofs`.** `RunningIsMerged`: the merge does not read the radar rules and
gives the base when there are no cards, so a refused batch changes nothing of
it. `ForceAndSave` needs that a full slot holds what was asked for last, and that
what NVS lacks is the one message between its post and its save.
`RefusedWithCause` (`RefusedForABadCard`): what is in force is consistent card by
card (`FineInForce`), and consistent cards merge into a valid configuration on
either base, stage by stage (`MergeSound`): the gap below the cooking temperature
is never negative, and times and tiers are replaced as a whole. It rests on
`RangeAssumption`: what the commands and loads check of a card by itself
(`rb_ctrl_cmd.c:297`, `:309`, the range of `heat_off_gap_dc` in `rb_params.def`), and
that `rb_controller_set_safety_config` takes a valid configuration only (line 602).

**`TuningProofs`.** `BelievedIsUsed` needs that the range is right even while a
calibration runs (only thresholds are learned), or its end would not bring
radar and node together. `SavedIsLoaded`. `NoneTwice`: copies are contiguous,
so an id on its way that was carried out is the last one carried out, and
stands in front. `DashboardIsCurrent` (`ShownIsCurrent`): unless it was lost or
pushed aside, the newest report is the last on the radio, or the reply that
waits in the slot, or what the dashboard shows, and holds the settings of the node.
`MaxRequests \in Nat` (`RequestsAssumption`) tells the automatic read from requests.

**`ConnectivityProofs`.** `AlwaysTrying` and `HomeAgain`: one invariant over the
states of the interfaces, what the drivers do and the events on their way;
each state "on the move" has the event or the timer that ends it.

**`NodeLinkProofs`.** `AnsweredHere`: from the moment a probe counts, every result
in the driver is about a packet sent on its channel. `NothingForeign`: each
kind of stray frame fails one of the checks. `NewestOnItsWay` (`SeenIsOnItsWay`):
until the first mishap the follow task is idle and every packet is acknowledged
and taken in before its result is reported (`Smooth`); the newest of the
readings received is the one that those in the driver continue from (`Flow`), also
in the moment a packet is in both queues. "Newest" is a relation (`LatestIs`), not a
filter over the queues: what a filter computes takes induction.

Of the node's slot on the controller (`SensorNode`): `SlotTypes`; `ReadingsAreFresh` from "the reading is at
most a delay older than the slot knows". `NoOlderReplaces` and
`RestartsAreReal` assume no life of the node comes within the margin of the
wrap of its uptime. Their invariant says that the packets in the air are all
of one life (a reboot outlasts a delay), with sequence and age in opposite
orders, and that the packet in the slot is of that life (uptime plus age
agree) or of an earlier one (it is older than that life).

**`TelemetryProofs`.** `NothingIsLost` (`NothingLostSilently`): every stage of a pass
hands an alert on, stores it, or counts it (`Through`, `Sent`), and an event with a
number is announced on a topic of QoS 1 (`Announces`). The theorem excepts the
alerts that waited in the outbox for 30 s; that the client deletes no others is
part of the invariant (`Stale`). `OneIncident`
(`OncePerEpisode`): what the device has closed is over, by the snapshot and by the
controller (`Gone`). Messages that wait may overtake each other, so the
invariant orders those that can still be taken for live: each was made from a
snapshot no older than what the device has stored (`Apt`), one that says the episode
is over only comes before messages that know it (`Before`), and all others are
marked old in the moment a newer one arrives. An incident left open by an
earlier boot is of an episode that is over, because a restart ends it. A loop posts
at most three events and a pass at most three messages: `InTurn` writes
them out, because what a fold computes takes induction over data.

`TypeOK`, `TimelineShape` and `StartsInThePast` of `Safety`, `TypeOK` of
`Outputs`, `SensorNode` and `Presence`, `VerdictIsRecent` of `Presence` and
`OnlyWholePackets` of `NodeLink` are proved and therefore in no run.

**Only model-checked.** What is out of the prover's reach, liveness under fairness:
`OffGoesQuiet`, `EveryRequestAnswered`, `ServedInTheEnd`, `KnownInTheEnd`,
`ShownInTheEnd` and `LossIsFlagged`. Every invariant and action property that a run
checks is proved.

## 5. Hazards

See `hazards` in `PROJECT.json`, each with the properties that cover it.

## 6. Where the code and its documents part

What follows was met while modelling. The models do what the code does, and the
properties are stated so that they hold of it, the settings of the runs chosen so.

- An episode ends after two quiet gaps and a second without a packet
  (`sensor_node.c:107`), and in ENFORCE the radar's PRESENT is then read as ABSENT
  (line 403). With a quiet gap below 500 ms, which menuconfig (from 200 ms) and
  the dashboard (from 0) accept, this comes before the reading is stale (2 s):
  missing data turns into ABSENT, which `sensor_node.h:265` says it never does.
- The ring of distances holds 24, which is 12 s at the default
  data period; the dashboard accepts a window of 60 s (`rb_ctrl_cmd.c:345`).
  What the ring has lost is not looked at, and a target that moved within the
  window counts as settled (`sensor_node.h:58-59`).
- A setting is saved before the safety task has judged it
  (`rb_controller_app.c:148`). An inconsistent one is refused alone and the
  others stay in force; after a reboot all cards are judged as one batch, which
  is refused whole, although they were "saved so they survive a reboot" (line
  44).
- As a controller fault clears, one presence reading cancels a running countdown
  (`safety.c:1045`); `docs/safety_state_machine.md:51-53` says that a single
  reading cancels nothing.
- A stricter tier in WARNING cuts at once: `late_warning` guards T12 only
  (`safety.c:1012`); the same document, lines 259-263, wants 10 s of buzzer.
- A reset requested before the shutdown undoes it in the step it is due
  (`rb_controller.c:596`, `safety.c:1193`); `docs/remote_reset.md:20` says that a reset
  does nothing in any other state.
- The buzzer's pattern starts over at every call of the safety task
  (`buzzer.c:135`): WARNING is a continuous tone, not 200 ms on and 800 ms off
  (`buzzer.h:20`).
- A relay that stays dead is a fault for one loop per check (`rb_outputs.c:65`),
  so the fault shutdown of `docs/architecture.md:97-98` never comes.
- A rebooted node that is not heard until its uptime reaches the old one is
  refused as out of order (`sensor_node.c:157`, `sensor_node.h:37`). In the last second
  before a node's uptime wraps, every packet counts as a restart.
- A quiet gap of 0, which the dashboard accepts, credits no time to anybody
  (`sensor_node.c:53`): in ENFORCE nobody ever dwells unless no time is asked for.
- An absence count older than 2^31 ms compares as later than the start of
  cooking (`safety.c:220`).
- `rb_params_write` clips the heat-off gap at the base on-temperature before the
  cooking temperature raises it: a gap of 60 with cooking at 150 ends at 100.
- A tuning reset whose erase succeeds and whose push fails leaves the settings
  reported as saved with nothing stored (`rb_c4002_remote.c:138`); one whose erase
  fails and whose push succeeds reports unsaved what the next boot restores. A
  read that finds other thresholds leaves "saved" on settings that are not.
  `SavedSurvives` excepts these through `stale`.
- The relay has one reply slot: an unpublished reply is overwritten, by an
  automatic read too. An ACK that comes before the command is marked pending
  (`rb_c4002_relay.c:146`) is followed by a "no reply" for the same request. A
  duplicate queued behind the end of a calibration is answered with the ACK from before
  it. After a node reboot the dashboard keeps showing settings the
  node no longer has. `ShownIsCurrent` excepts the reports lost this way.
- An access point that associates and gives no address keeps the uplink waiting
  for ever (`rb_net.c`); `Uplink` leaves it out. The result of posting the fallback
  event is ignored, and a lost IP address is not handled.
- An outage of more than 30 s loses the alerts of its beginning, uncounted: the client
  deletes what has waited so long, because its configuration sets no other time
  (`rb_mqtt.c:191-208`), and `on_event` ignores it. `rb_mqtt.h:65` says that
  QoS 1 is "sent after reconnect", and `critical_failure_test.py:16` expects the
  warning and shutdown events of an outage, by default of 45 s, to arrive. Without its
  exception `NothingLostSilently` fails; `ShownInTheEnd` holds all the same, because
  the next telemetry carries state and faults. In the model a message may also be
  sent after its 30 s, if the connection is back before it is deleted.
- The retained `controller/faults` can stay outdated after a reconnection with a
  full outbox; `docs/mqtt_schema.md:212` says it always holds the current set.
  `alerts.py` has a kind "unattended" that the firmware never publishes. Events
  whose time lies before a merged periodic message are stored as history, so
  a transition is shown with the next periodic message.

## 7. What is left

In the order of what it would add:

1. The restart ring, and `Presence` composed with `Safety`.
2. `SensorNode` driven by `NodeLink` instead of its own radio.
3. Retained messages, the last will and the command subscriptions of `rb_mqtt`.
4. Reassembly of a heat-map picture.

## 8. Not modelled

Formatting, topics and JSON text; the numeric features of a thermal frame and the
regression of the trend; vendored drivers; console, logging and the simulator; the
dashboard's presentation, the backend's web API and its administration commands.
They hold no protocol of their own, or talk to a device that is not in the
repository. Of the modelled parts, sections 2 and `components` name what is left out.

## 9. Use

```sh
tlc -workers 2 -config MCSafety_faults.cfg MCSafety.tla
tlc -workers 2 -config Tuning.cfg MCTuning.tla
tlc -workers 2 -config MCPresence.cfg MCPresence.tla
tlapm SettingsProofs.tla
```
