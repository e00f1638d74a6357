------------------------------- MODULE NodeLink -------------------------------
(***************************************************************************)
(* What a sensor node tells the controller, and how it keeps finding it:      *)
(* rb_node_link.c and rb_espnow.c on the node, the receiver of rb_espnow.c    *)
(* and the queue of the safety task on the controller.                      *)
(*                                                                         *)
(* The link task samples the sensor, reports its faults and its reading; the *)
(* follow task looks for the controller's channel when packets are no longer *)
(* acknowledged; the Wi-Fi task transmits what both have queued and reports  *)
(* each result.  They share the radio channel, so a result may be about the  *)
(* channel the follow task has just left.                                    *)
(*                                                                         *)
(* A tick of the link task is one step (nothing it reads is written by the   *)
(* others), the time between two sends of a kind is abstracted to "due or    *)
(* not".  A packet is acknowledged by the controller's radio, whether or not *)
(* its safety task has room for it.                                         *)
(***************************************************************************)
EXTENDS Naturals, Sequences, Protocol

CONSTANTS
    MaxChannel,     \* MAX_CHANNEL, 13
    HomeChannel,    \* CONFIG_RB_ESPNOW_CHANNEL
    LostFailures,   \* CONFIG_RB_ESPNOW_LOST_FAILURES
    Roles,          \* the kinds of node: a subset of {"presence", "thermal"}
    TxRoom,         \* packets the Wi-Fi driver takes
    RxRoom,         \* CONFIG_RB_CTRL_RX_QUEUE_LEN
    MaxChanges,     \* bound: changes of the sensor and of the controller's channel
    MaxMishaps      \* bound: losses, full queues, failing calls, late results, restarts

ASSUME LinkAssumption ==
    /\ MaxChannel \in Nat \ {0} /\ HomeChannel \in 1 .. MaxChannel /\ LostFailures \in Nat \ {0}
    /\ Roles \subseteq {"presence", "thermal"}
    /\ TxRoom \in Nat \ {0} /\ RxRoom \in Nat \ {0}

Channels == 1 .. MaxChannel
Values == {0, 1}    \* readings, and sensor fault flags
None == 2           \* nothing yet; as last_faults, 0xFFFF
Garbage == 3        \* the body of a frame that is not this node's

VARIABLES
    role,       \* s_cfg.role
    sensor,     \* external: what the sample callback finds, [reading, faults]
    link,       \* the link task: [faults (s_faults), lastFaults, lastSent], and
                \* history: seen, the reading of its last tick
    channel,    \* the radio channel
    queue,      \* in the driver: packets and, once transmitted, their results
    failures,   \* s_tx.consecutive_failures, as far as it is compared
    follow,     \* the follow task: [at, old, i, faults, ahead, acked]
    saved,      \* NVS: the channel, 0 if none
    answered,   \* history: the controller acknowledged on the channel being probed
    home,       \* external: the controller's channel, 0 while it is off
    rx,         \* the queue of the safety task
    shown,      \* what the controller last took in of the node: [reading, faults]
    moved,      \* history: the controller has left HomeChannel
    changes, mishaps    \* bounds

vars == <<role, sensor, link, channel, queue, failures, follow, saved, answered, home, moved, rx, shown, changes, mishaps>>

Mishap == mishaps < MaxMishaps /\ mishaps' = mishaps + 1
Fine == UNCHANGED mishaps
Change == changes < MaxChanges /\ changes' = changes + 1

-----------------------------------------------------------------------------
(* Sending *)

Data(v) == [type |-> IF role = "presence" THEN "presence_data" ELSE "thermal_data", value |-> v]
SensorFault(f) == [type |-> "sensor_fault", value |-> f]
Heartbeat(f) == [type |-> "heartbeat", value |-> f]

Waiting(packets) == [k \in DOMAIN packets |-> [packet |-> packets[k], result |-> "none"]]

Failed(n) == IF n < LostFailures THEN n + 1 ELSE n

\* send_encoded, for the packets of a task in turn.  The driver has room for
\* them all, or, as a mishap, for none.
Queued(packets) ==
    /\ Len(queue) + Len(packets) <= TxRoom
    /\ queue' = queue \o Waiting(packets)
    /\ UNCHANGED failures

NotQueued ==
    /\ Len(queue) = TxRoom
    /\ failures' = Failed(failures)
    /\ UNCHANGED queue

-----------------------------------------------------------------------------
(* The link task *)

\* Without a last packet nothing counts as changed.
DataPacketChangedMutant(data) == role = "presence" /\ link.lastSent \notin {None, data}

\* rb_data_packet_changed: only a presence node reports a change at once.
DataPacketChanged(data) == role = "presence" /\ link.lastSent # data

\* The heartbeat without the faults.
TickPacketsMutant(dataDue, heartbeatDue) ==
    (IF sensor.faults # link.lastFaults THEN <<SensorFault(sensor.faults)>> ELSE <<>>)
    \o (IF dataDue THEN <<Data(sensor.reading)>> ELSE <<>>)
    \o (IF heartbeatDue THEN <<Heartbeat(0)>> ELSE <<>>)

\* The packets of one tick of link_task, in order.
TickPackets(dataDue, heartbeatDue) ==
    (IF sensor.faults # link.lastFaults THEN <<SensorFault(sensor.faults)>> ELSE <<>>)
    \o (IF dataDue THEN <<Data(sensor.reading)>> ELSE <<>>)
    \o (IF heartbeatDue THEN <<Heartbeat(sensor.faults)>> ELSE <<>>)

\* link_task.  last_faults moves on even when nothing was sent; last_sent does not.
LinkTick(dataDue, heartbeatDue) ==
    LET sendsData == dataDue \/ DataPacketChanged(sensor.reading)
        packets == TickPackets(sendsData, heartbeatDue)
        After(last) == [faults |-> sensor.faults, lastFaults |-> sensor.faults, lastSent |-> last,
                        seen |-> sensor.reading] IN
    /\ \/ /\ Queued(packets) /\ Fine
          /\ link' = After(IF sendsData THEN sensor.reading ELSE link.lastSent)
       \/ /\ packets # <<>> /\ NotQueued /\ Mishap
          /\ link' = After(link.lastSent)
    /\ UNCHANGED <<role, sensor, channel, follow, saved, answered, home, moved, rx, shown, changes>>

-----------------------------------------------------------------------------
(* The Wi-Fi task, on both sides *)

\* on_received: what decodes goes to the safety task's queue, or is gone if that
\* is full; a heat-map piece has a handler of its own.
OnReceived(frame) ==
    rx' = IF IsFramePiece(frame) \/ Decode(frame) # "ok" \/ Len(rx) >= RxRoom THEN rx
          ELSE Append(rx, [type |-> frame.type, value |-> frame.body])

\* What goes wrong with a packet on the controller's channel is a mishap: it is
\* not heard, its acknowledgement is not, or the safety task has no room for it.
\* The next one waits for its result.
Transmit ==
    \E heard, acked \in BOOLEAN :
        /\ queue # <<>> /\ Head(queue).result = "none"
        /\ acked => heard
        /\ heard => channel = home
        /\ IF channel = home => acked /\ Len(rx) < RxRoom THEN Fine ELSE Mishap
        /\ IF heard THEN OnReceived(Encode(role, Head(queue).packet.type, Head(queue).packet.value)) ELSE UNCHANGED rx
        /\ queue' = [queue EXCEPT ![1].result = IF acked THEN "acked" ELSE "failed"]
        /\ answered' = (answered \/ acked)
        /\ UNCHANGED <<role, sensor, link, channel, failures, follow, saved, home, moved, shown, changes>>

\* Frames the controller hears that are no packets of this node: cut short,
\* foreign, of other firmware, damaged, of the wrong kind of node, a picture.
Strays ==
    LET whole == Encode("presence", "presence_data", Garbage) IN
    {[whole EXCEPT !.length = 2], [whole EXCEPT !.length = @ + 1], [whole EXCEPT !.magic = 0], [whole EXCEPT !.version = 2],
     [whole EXCEPT !.type = "valve_command"], [whole EXCEPT !.crc = FALSE], [whole EXCEPT !.role = "thermal"],
     [whole EXCEPT !.type = "thermal_frame"]}

Stray ==
    /\ home # 0 /\ Mishap
    /\ \E f \in Strays : OnReceived(f)
    /\ UNCHANGED <<role, sensor, link, channel, queue, failures, follow, saved, answered, home, moved, shown, changes>>

\* on_sent, one result after the other.
OnSent ==
    /\ queue # <<>> /\ Head(queue).result # "none"
    /\ queue' = Tail(queue)
    /\ failures' = IF Head(queue).result = "acked" THEN 0 ELSE Failed(failures)
    /\ follow' = [follow EXCEPT
           !.ahead = IF @ > 0 THEN @ - 1 ELSE 0,
           !.acked = @ \/ (follow.at \in {"probe", "wait"} /\ Head(queue).result = "acked")]
    /\ UNCHANGED <<role, sensor, link, channel, saved, answered, home, moved, rx, shown, changes, mishaps>>

-----------------------------------------------------------------------------
(* The follow task *)

\* The current channel first, then the others in turn.
Target(i) == ((follow.old + i - 1) % MaxChannel) + 1

Idle == [at |-> "idle", old |-> HomeChannel, i |-> 0, faults |-> 0, ahead |-> 0, acked |-> FALSE]

\* follow_task wakes up: enough packets in a row were not acknowledged.
FollowCheck ==
    /\ follow.at = "idle" /\ failures >= LostFailures
    /\ follow' = [Idle EXCEPT !.at = "move", !.old = channel]
    /\ UNCHANGED <<role, sensor, link, channel, queue, failures, saved, answered, home, moved, rx, shown, changes, mishaps>>

\* search: not acknowledged here; the next channel, or a pause after the last.
NextProbe ==
    IF follow.i + 1 < MaxChannel THEN [Idle EXCEPT !.at = "move", !.old = follow.old, !.i = follow.i + 1]
    ELSE [Idle EXCEPT !.at = "pause", !.old = follow.old]

\* probe_channel: rb_wifi_set_channel, which may fail.
MoveTo ==
    /\ follow.at = "move"
    /\ \/ /\ channel' = Target(follow.i) /\ Fine
          /\ follow' = [follow EXCEPT !.at = "settle"]
          /\ answered' = FALSE
       \/ /\ channel # Target(follow.i) /\ Mishap
          /\ follow' = NextProbe
          /\ UNCHANGED <<channel, answered>>
    /\ UNCHANGED <<role, sensor, link, queue, failures, saved, home, moved, rx, shown, changes>>

\* The probe goes out at once.
SettledMutant == TRUE

\* PROBE_SETTLE_MS: what was sent on the old channel has reported.
Settled == \A k \in DOMAIN queue : queue[k].result = "none"

\* The counters are read, then the faults the heartbeat will carry.
ReadCounters ==
    /\ follow.at = "settle" /\ Settled
    /\ follow' = [follow EXCEPT !.at = "probe", !.faults = link.faults]
    /\ UNCHANGED <<role, sensor, link, channel, queue, failures, saved, answered, home, moved, rx, shown, changes, mishaps>>

\* probe: the heartbeat is sent, and the results up to its own are waited for.
Probe ==
    /\ follow.at = "probe"
    /\ \/ Queued(<<Heartbeat(follow.faults)>>) /\ Fine
       \/ NotQueued /\ Mishap
    /\ follow' = [follow EXCEPT !.at = "wait", !.ahead = Len(queue')]
    /\ UNCHANGED <<role, sensor, link, channel, saved, answered, home, moved, rx, shown, changes>>

\* Acknowledged: this is the channel, and it is saved (which may fail).
Found ==
    /\ follow.at = "wait" /\ follow.acked
    /\ \/ saved' = channel /\ Fine
       \/ saved # channel /\ UNCHANGED saved /\ Mishap
    /\ follow' = Idle
    /\ UNCHANGED <<role, sensor, link, channel, queue, failures, answered, home, moved, rx, shown, changes>>

\* Everything has reported, or PROBE_WAIT_MS are over first.
GiveUp ==
    /\ follow.at = "wait" /\ ~ follow.acked
    /\ IF follow.ahead = 0 THEN Fine ELSE Mishap
    /\ follow' = NextProbe
    /\ UNCHANGED <<role, sensor, link, channel, queue, failures, saved, answered, home, moved, rx, shown, changes>>

\* SWEEP_PAUSE_MS are over: the next sweep.
SweepAgain ==
    /\ follow.at = "pause"
    /\ follow' = [follow EXCEPT !.at = "move"]
    /\ UNCHANGED <<role, sensor, link, channel, queue, failures, saved, answered, home, moved, rx, shown, changes, mishaps>>

FollowTask == FollowCheck \/ MoveTo \/ ReadCounters \/ Probe \/ Found \/ GiveUp \/ SweepAgain

-----------------------------------------------------------------------------
(* The controller, restarts and the world *)

\* sensor_node_on_packet, for the fields that come from the body.
Take(packet) ==
    IF packet.type \in {"presence_data", "thermal_data"} THEN [shown EXCEPT !.reading = packet.value]
    ELSE [shown EXCEPT !.faults = packet.value]

\* The safety task takes a packet.
Drain ==
    /\ rx # <<>>
    /\ rx' = Tail(rx) /\ shown' = Take(Head(rx))
    /\ UNCHANGED <<role, sensor, link, channel, queue, failures, follow, saved, answered, home, moved, changes, mishaps>>

Booted == [faults |-> 0, lastFaults |-> None, lastSent |-> None, seen |-> None]

\* rb_espnow_start, then rb_espnow_follow_start.
BootChannel == IF saved # 0 THEN saved ELSE HomeChannel

NodeRestarts ==
    /\ Mishap
    /\ link' = Booted /\ channel' = BootChannel /\ queue' = <<>> /\ failures' = 0 /\ follow' = Idle
    /\ UNCHANGED <<role, sensor, saved, answered, home, moved, rx, shown, changes>>

ControllerRestarts ==
    /\ Mishap
    /\ rx' = <<>> /\ shown' = [reading |-> None, faults |-> None]
    /\ UNCHANGED <<role, sensor, link, channel, queue, failures, follow, saved, answered, home, moved, changes>>

SensorChanges ==
    /\ Change
    /\ \E r, f \in Values : sensor' = [reading |-> r, faults |-> f] /\ sensor' # sensor
    /\ UNCHANGED <<role, link, channel, queue, failures, follow, saved, answered, home, moved, rx, shown, mishaps>>

ControllerMoves ==
    /\ Change
    /\ \E c \in Channels \cup {0} : home' = c /\ c # home
    /\ moved' = TRUE
    /\ UNCHANGED <<role, sensor, link, channel, queue, failures, follow, saved, answered, rx, shown, mishaps>>

Init ==
    /\ role \in Roles
    /\ sensor = [reading |-> 0, faults |-> 0]
    /\ link = Booted /\ channel = HomeChannel /\ queue = <<>> /\ failures = 0 /\ follow = Idle
    /\ saved = 0 /\ answered = FALSE /\ home = HomeChannel /\ moved = FALSE
    /\ rx = <<>> /\ shown = [reading |-> None, faults |-> None]
    /\ changes = 0 /\ mishaps = 0

Next ==
    \/ \E dataDue, heartbeatDue \in BOOLEAN : LinkTick(dataDue, heartbeatDue)
    \/ Transmit \/ Stray \/ OnSent \/ FollowTask \/ Drain
    \/ NodeRestarts \/ ControllerRestarts \/ SensorChanges \/ ControllerMoves

-----------------------------------------------------------------------------
(* Every task runs, both periodic sends come due again and again at a tick    *)
(* when the driver has room (it sends a packet in milliseconds, a tick comes   *)
(* every 50), and a packet that can be heard is, once the mishaps are over.   *)

Fairness ==
    /\ SF_vars(LinkTick(TRUE, FALSE)) /\ SF_vars(LinkTick(FALSE, TRUE))
    /\ WF_vars(Transmit) /\ WF_vars(OnSent) /\ SF_vars(FollowTask) /\ WF_vars(Drain)

Spec == Init /\ [][Next]_vars /\ Fairness

-----------------------------------------------------------------------------
(* Properties *)

\* Types of the state, and what the follow task counts is in the driver.
TypeOK ==
    /\ role \in Roles /\ channel \in Channels /\ saved \in 0 .. MaxChannel /\ home \in 0 .. MaxChannel
    /\ link.faults \in Values /\ link.lastFaults \in Values \cup {None} /\ link.lastSent \in Values \cup {None}
    /\ Len(queue) <= TxRoom /\ Len(rx) <= RxRoom /\ failures \in 0 .. LostFailures
    /\ follow.at \in {"idle", "move", "settle", "probe", "wait", "pause"}
    /\ follow.i \in 0 .. MaxChannel - 1 /\ follow.ahead \in 0 .. Len(queue)

\* Only readings and faults that this node has sent reach the safety task,
\* whatever else is on the air.
OnlyWholePackets ==
    /\ TypeOK
    /\ \A k \in DOMAIN rx : rx[k].value \in Values
    /\ shown.reading # Garbage /\ shown.faults # Garbage

\* rb_espnow.c, probe_channel: "any acknowledged packet on this channel will
\* do", and no packet of another channel.  The follow task stays on a channel,
\* and saves it, only after the controller acknowledged a packet on it in this
\* probe: a late result of the channel just left is never taken for an answer.
FoundIsAnswered == follow.acked => answered /\ channel = Target(follow.i)

IsReading(packet) == packet.type \in {"presence_data", "thermal_data"}

\* The last reading among these packets is v, or there is none and v was before.
LatestIs(packets, before, v) ==
    \/ v = before /\ \A k \in DOMAIN packets : ~ IsReading(packets[k])
    \/ \E k \in DOMAIN packets :
          /\ IsReading(packets[k]) /\ packets[k].value = v
          /\ \A j \in DOMAIN packets : j > k => ~ IsReading(packets[j])

InDriver == [k \in DOMAIN queue |-> queue[k].packet]

\* The newest reading that is on its way, or has arrived.
NewestIs(v) == LatestIs(rx \o InDriver, shown.reading, v)

\* rb_node_link.c: "Raw state goes out the moment it changes".  While nothing
\* goes wrong and the controller stays where it is, the reading a presence node
\* saw at its last tick is the newest one the controller has or will get,
\* whatever was sent before it and is still in a queue.
SeenIsOnItsWay == mishaps = 0 /\ ~ moved /\ role = "presence" => NewestIs(link.seen)

\* If the controller stays somewhere, it ends up knowing the node's reading and
\* its faults, although last_faults moves on when the SENSOR_FAULT packet was
\* never sent, a queue that is full drops packets that were acknowledged, and a
\* probe may carry faults read before they changed.
KnownInTheEnd == <>[](home # 0) => <>[](shown = sensor)
=============================================================================
