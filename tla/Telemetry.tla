------------------------------ MODULE Telemetry ------------------------------
(***************************************************************************)
(* How the dashboard comes to know what the safety task does: the event      *)
(* queue and the snapshot of rb_controller.c, the fault list of rb_app, the  *)
(* telemetry task, the MQTT client, and the subscriber (Ingest.tla).         *)
(*                                                                         *)
(* A loop of the safety task posts its events before it publishes its        *)
(* snapshot, and the telemetry task may run in between.  Messages of QoS 0   *)
(* arrive or are gone; those of QoS 1 wait in a bounded outbox until they    *)
(* are acknowledged, while newer ones go out directly and overtake them, or   *)
(* until they have waited for 30 s and are deleted.                          *)
(* Broker and subscriber are one: what reaches the broker is stored.         *)
(***************************************************************************)
EXTENDS Naturals, Sequences, Ingest

CONSTANTS
    QueueLen,       \* CONFIG_RB_CTRL_EVENT_QUEUE_LEN
    OutboxRoom,     \* CONFIG_RB_MQTT_OUTBOX_LIMIT_KB, in messages
    MaxChanges,     \* bound: transitions and other things that are reported
    MaxMishaps      \* bound: broken connections, waits of 30 s, restarts, locks that are busy

ASSUME RoomAssumption == QueueLen \in Nat \ {0} /\ OutboxRoom \in Nat /\ MaxChanges \in Nat

VARIABLES
    state,      \* sm.state
    episode,    \* history: the unattended episode the controller is in, or the last
    over,       \* history: that episode has ended
    pc,         \* the safety task is about to "step" or to publish its "snapshot"
    snap,       \* s_snapshot: [state, episode]
    events,     \* s_event_queue; "passed": telemetry of a later time was merged
    dropped,    \* s_events_dropped has grown since the last loop
    faults,     \* the faults of fault_manager.c that are followed here
    conn,       \* the MQTT client: not started ("none"), "down" or "up"
    outbox,     \* its outbox: [message, old, expired]
    device,     \* what the dashboard has stored
    rested,     \* a period of telemetry went by since events were dropped last
    pending,    \* history: alerts not yet stored nor counted as lost
    expired,    \* history: alerts that waited in the outbox for 30 s (0: other messages)
    unflagged,  \* history: events were dropped, and the dashboard does not know
    changes, mishaps    \* bounds

controller == <<state, episode, over, pc, snap>>
queue == <<events, dropped, faults, rested>>
vars == <<state, episode, over, pc, snap, events, dropped, faults, conn, outbox, device,
          rested, pending, expired, unflagged, changes, mishaps>>

Mishap == mishaps < MaxMishaps /\ mishaps' = mishaps + 1
Fine == UNCHANGED mishaps
ConnectionOnly == Fine /\ UNCHANGED <<controller, queue, outbox, device, pending, expired, unflagged, changes>>

\* One after the other.  A loop posts at most three events (two transitions and a
\* sensor's), and a pass publishes at most three messages.
InTurn(op(_, _), base, seq) ==
    LET After(x, k) == IF k \in DOMAIN seq THEN op(x, seq[k]) ELSE x
    IN  After(After(After(base, 1), 2), 3)

-----------------------------------------------------------------------------
(* The event queue and the faults *)

\* The rules of safety_rules.def (Safety.tla); BOOT, SELF_TEST, IDLE and MONITORING,
\* which all mean that no incident is open, are "calm".
Moves == [calm |-> {"unattended", "fault"},
          unattended |-> {"calm", "warning", "fault"}, warning |-> {"calm", "shutdown", "fault"},
          shutdown |-> {"calm"}, fault |-> {"calm", "unattended", "shutdown"}]

Event(type) == [type |-> type, to |-> "none", id |-> 0, fault |-> "none", passed |-> FALSE]
FaultEvent(fault) == [Event("fault") EXCEPT !.fault = fault]

\* The queue and what becomes of the events posted to it.
Box == [events |-> events, dropped |-> dropped, lost |-> {}, full |-> FALSE]

\* rb_controller_post_event: an event that finds the queue full is counted.
Post(box, event) ==
    IF Len(box.events) < QueueLen THEN [box EXCEPT !.events = Append(@, event)]
    ELSE [box EXCEPT !.dropped = TRUE, !.full = TRUE, !.lost = @ \cup ({event.id} \ {0})]

\* What is posted now, and the alerts among it ("new").
Posted(box, new) ==
    /\ events' = box.events /\ dropped' = box.dropped
    /\ pending' = (pending \cup new) \ box.lost
    /\ unflagged' = (unflagged \/ (box.full /\ conn = "up"))

\* FAULT_QUIET_CLEAR_MS have passed: the telemetry task has seen to the queue, and
\* at least one period of telemetry went by.
Quiet == events = <<>> /\ rested

\* A lost event is counted, and that is all.
WatchDroppedMutant == [box |-> [Box EXCEPT !.dropped = FALSE], faults |-> faults, rested |-> rested]

\* rb_app_faults_tick, watch_counter: that events are dropped is a fault itself.
WatchDropped ==
    LET raised == "overflow" \in faults
        seen == [Box EXCEPT !.dropped = FALSE]
        told == Post(seen, FaultEvent("overflow")) IN
    CASE dropped -> [box |-> IF raised THEN seen ELSE told, faults |-> faults \cup {"overflow"}, rested |-> FALSE]
      [] ~ dropped /\ raised /\ Quiet -> [box |-> told, faults |-> faults \ {"overflow"}, rested |-> rested]
      [] OTHER -> [box |-> Box, faults |-> faults, rested |-> rested]

-----------------------------------------------------------------------------
(* The safety task *)

\* The transitions of one loop: none, one, or two in a row.
Paths == {<<>>} \cup {<<a>> : a \in Moves[state]}
         \cup UNION {{<<a, b>> : b \in Moves[a]} : a \in Moves[state]}

\* WARNING, SHUTDOWN and FAULT are announced by an event of their own.
Alerting == {"warning", "shutdown", "fault"}

Transition(path, k) ==
    [Event("state") EXCEPT !.to = path[k], !.id = IF path[k] \in Alerting THEN changes + k ELSE 0]

\* The unattended episode goes on through FAULT.
Follow(run, to) ==
    IF to \in Active /\ run.over THEN [episode |-> run.episode + 1, over |-> FALSE]
    ELSE IF to \in Active \cup {"fault"} THEN run
    ELSE [run EXCEPT !.over = TRUE]

\* One loop up to its snapshot: the tick hook, the transitions, and
\* the event of a changed sensor.
Loop(path, sensor) ==
    LET watched == WatchDropped
        moves == [k \in DOMAIN path |-> Transition(path, k)]
        posts == moves \o sensor
        run == InTurn(Follow, [episode |-> episode, over |-> over], path) IN
    /\ pc = "step" /\ pc' = "snapshot"
    /\ changes + Len(posts) <= MaxChanges /\ changes' = changes + Len(posts)
    /\ UNCHANGED <<snap, conn, outbox, device, expired, mishaps>>
    /\ state' = IF path = <<>> THEN state ELSE path[Len(path)]
    /\ episode' = run.episode /\ over' = run.over
    /\ faults' = watched.faults /\ rested' = watched.rested
    /\ Posted(InTurn(Post, watched.box, posts), {moves[k].id : k \in DOMAIN moves} \ {0})

SafetyStep == \E path \in Paths, sensor \in {<<>>, <<Event("sensor")>>} : Loop(path, sensor)

\* The loop publishes its snapshot, unless it does not get the lock in 5 ms.
Snapshot(busy) ==
    /\ pc = "snapshot" /\ pc' = "step"
    /\ IF busy THEN Mishap /\ UNCHANGED snap ELSE Fine /\ snap' = [state |-> state, episode |-> episode]
    /\ UNCHANGED <<state, episode, over, events, dropped, faults, conn, outbox, device,
                   rested, pending, expired, unflagged, changes>>

-----------------------------------------------------------------------------
(* The MQTT client *)

\* Events are sent once, as routine telemetry is.
QosMutant == [telemetry |-> 0, state_telemetry |-> 1, event |-> 0, faults |-> 1]

\* rb_topics.c: routine telemetry is sent once, what matters until acknowledged.
Qos == [telemetry |-> 0, state_telemetry |-> 1, event |-> 1, faults |-> 1]

\* What transmissions do: to the outbox, the dashboard and the connection, the
\* alerts they resolve, whether the dashboard hears of dropped events, and whether
\* it merged telemetry of this very moment.
Line == [outbox |-> outbox, device |-> device, conn |-> conn, done |-> {}, flagged |-> FALSE, merged |-> FALSE]

\* The dashboard gets a message.
Store(line, m, old) ==
    LET stored == Persist(line.device, m, old) IN
    [line EXCEPT !.device = stored, !.done = @ \cup {m.id},
                 !.flagged = @ \/ m.fault = "overflow" \/ "overflow" \in stored.faults,
                 !.merged = @ \/ m.routine]

\* ... one just published: all that still wait are older.
Arrive(line, m) ==
    [Store(line, m, FALSE) EXCEPT !.outbox = [k \in DOMAIN @ |-> [@[k] EXCEPT !.old = TRUE]]]

Keep(line, m, old) ==
    [line EXCEPT !.outbox = Append(@, [message |-> m, old |-> old, expired |-> FALSE]), !.conn = "down"]

\* rb_mqtt_publish: what may come of it.  A message the client refuses is counted;
\* one that is sent arrives, or the connection breaks before it does, or before
\* it is acknowledged.
Publish(line, m) ==
    LET refused == [line EXCEPT !.done = @ \cup {m.id}] IN
    IF line.conn = "none" \/ (Qos[m.topic] = 0 /\ line.conn # "up") THEN {refused}
    ELSE IF Qos[m.topic] = 0 THEN {Arrive(line, m), [line EXCEPT !.conn = "down"]}
    ELSE IF Len(line.outbox) >= OutboxRoom THEN {refused}
    ELSE IF line.conn = "up"
    THEN {Arrive(line, m), Keep(line, m, FALSE), Keep(Arrive(line, m), m, TRUE)}
    ELSE {Keep(line, m, FALSE)}

PublishOn(lines, m) == UNION {Publish(line, m) : line \in lines}
PublishAll(messages) == InTurn(PublishOn, {Line}, messages)

StartClient == conn = "none" /\ conn' = "down" /\ ConnectionOnly

Connect == conn = "down" /\ conn' = "up" /\ ConnectionOnly

\* The connection is lost, and what it was to tell of dropped events may be too.
Lose == Mishap /\ conn' = "down" /\ unflagged' = FALSE

Disconnect ==
    /\ conn = "up" /\ Lose
    /\ UNCHANGED <<controller, queue, outbox, device, pending, expired, changes>>

\* The MQTT task sends what waits; the connection may break before the answer.
Resend(acked) ==
    /\ conn = "up" /\ outbox # <<>>
    /\ UNCHANGED <<controller, queue, expired, changes>>
    /\ LET head == Head(outbox)
           line == Store(Line, head.message, head.old) IN
        /\ device' = line.device
        /\ IF acked
           THEN /\ outbox' = Tail(outbox) /\ Fine /\ UNCHANGED conn
                /\ unflagged' = (unflagged /\ ~ line.flagged)
           ELSE outbox' = <<[head EXCEPT !.old = TRUE]>> \o Tail(outbox) /\ Lose
        /\ pending' = pending \ line.done

\* The first k messages of the outbox, the oldest, have now waited for 30 s, the
\* time after which the client deletes them unless its configuration says otherwise.
ThirtySeconds(k) ==
    /\ conn # "none" /\ ~ outbox[k].expired /\ Mishap
    /\ outbox' = [i \in DOMAIN outbox |-> [outbox[i] EXCEPT !.expired = @ \/ i <= k]]
    /\ expired' = expired \cup {outbox[i].message.id : i \in 1 .. k}
    /\ UNCHANGED <<controller, queue, conn, device, pending, unflagged, changes>>

\* The MQTT task deletes such a message, should it not get to send it first.
\* on_event ignores it: no counter says so.
DeleteExpired ==
    /\ conn # "none" /\ outbox # <<>> /\ Head(outbox).expired
    /\ outbox' = Tail(outbox)
    /\ Fine /\ UNCHANGED <<controller, queue, conn, device, pending, expired, unflagged, changes>>

-----------------------------------------------------------------------------
(* The telemetry task *)

Message(kind, topic, late) ==
    [kind |-> kind, topic |-> topic, state |-> snap.state, episode |-> snap.episode, faults |-> faults,
     late |-> late, id |-> 0, fault |-> "none", routine |-> FALSE]

Announcement(event) == [Message("event", "event", FALSE) EXCEPT !.id = event.id, !.fault = event.fault]

\* publish_event.  Without the snapshot the state is not told, the event is.
EventMessages(event, locked) ==
    LET told(topic) == IF locked THEN <<>> ELSE <<Message("telemetry", topic, event.passed)>> IN
    CASE event.type = "state" -> told("state_telemetry")
                                 \o IF event.to \in Alerting THEN <<Announcement(event)>> ELSE <<>>
      [] event.type = "fault" -> <<Announcement(event), Message("faults", "faults", event.passed)>>
      [] OTHER -> told("telemetry")

\* publish_periodic.
Routine == <<[Message("telemetry", "telemetry", FALSE) EXCEPT !.routine = TRUE]>>

\* A pass: an event if there is one, and the routine telemetry if it is due and
\* gets the snapshot.
Pass(due, locked, holds) ==
    LET taken == events # <<>>
        messages == (IF taken THEN EventMessages(Head(events), locked) ELSE <<>>)
                    \o (IF due THEN Routine ELSE <<>>)
        left == IF taken THEN Tail(events) ELSE <<>> IN
    /\ (taken \/ due) /\ (locked => taken /\ holds)
    /\ rested' = (rested \/ due)
    /\ UNCHANGED <<controller, dropped, faults, expired, changes>>
    /\ \E line \in PublishAll(messages) :
        LET later == IF line.merged THEN [k \in DOMAIN left |-> [left[k] EXCEPT !.passed = TRUE]]
                     ELSE left IN
        /\ holds <=> line.conn = conn
        /\ outbox' = line.outbox /\ device' = line.device
        /\ events' = later /\ pending' = pending \ line.done
        /\ IF holds
           THEN /\ IF locked THEN Mishap ELSE Fine
                /\ unflagged' = (unflagged /\ ~ line.flagged) /\ UNCHANGED conn
           ELSE Lose

TelemetryPass == \E due, locked, holds \in BOOLEAN : Pass(due, locked, holds)

-----------------------------------------------------------------------------
(* Restart, and the specification *)

ControllerRestarts ==
    /\ Mishap
    /\ state' = "calm" /\ over' = TRUE /\ pc' = "step" /\ snap' = [state |-> "calm", episode |-> episode]
    /\ events' = <<>> /\ dropped' = FALSE /\ faults' = {} /\ conn' = "none" /\ outbox' = <<>>
    /\ device' = [device EXCEPT !.boot = IF @ = "current" THEN "older" ELSE @]
    /\ rested' = TRUE /\ pending' = {} /\ expired' = {} /\ unflagged' = FALSE
    /\ UNCHANGED <<episode, changes>>

Init ==
    /\ state = "calm" /\ episode = 0 /\ over = TRUE /\ pc = "step" /\ snap = [state |-> "calm", episode |-> 0]
    /\ events = <<>> /\ dropped = FALSE /\ faults = {} /\ conn = "none" /\ outbox = <<>>
    /\ device = NewDevice
    /\ rested = TRUE /\ pending = {} /\ expired = {} /\ unflagged = FALSE /\ changes = 0 /\ mishaps = 0

Next ==
    \/ SafetyStep \/ \E busy \in BOOLEAN : Snapshot(busy)
    \/ TelemetryPass
    \/ StartClient \/ Connect \/ Disconnect \/ \E acked \in BOOLEAN : Resend(acked)
    \/ \E k \in DOMAIN outbox : ThirtySeconds(k)
    \/ DeleteExpired
    \/ ControllerRestarts

\* The safety task loops, the telemetry task has its periods, and the MQTT task
\* sends what waits; a connection that holds carries what is sent.
Fairness ==
    /\ WF_vars(Loop(<<>>, <<>>)) /\ WF_vars(Snapshot(FALSE))
    /\ WF_vars(Pass(TRUE, FALSE, TRUE)) /\ WF_vars(Resend(TRUE))

Spec == Init /\ [][Next]_vars /\ Fairness

-----------------------------------------------------------------------------
(* Properties *)

\* Types of the state.
TypeOK ==
    /\ state \in DOMAIN Moves /\ snap.state \in DOMAIN Moves /\ pc \in {"step", "snapshot"}
    /\ Len(events) <= QueueLen /\ Len(outbox) <= OutboxRoom
    /\ faults \subseteq {"overflow"} /\ conn \in {"none", "down", "up"}
    /\ device.boot \in {"none", "older", "current"} /\ device.state \in DOMAIN Moves \cup {"unknown"}
    /\ snap.episode <= episode /\ episode <= MaxChanges /\ pending \subseteq 1 .. MaxChanges

\* incidents.py: "An incident is one unattended-cooking episode".  However
\* messages are lost, repeated, overtaken or told of an older snapshot, an
\* episode whose incident was closed never opens another one.
OncePerEpisode == device.incident.episode \notin device.ended

\* rb_mqtt.h: "QoS 1 is kept in the bounded outbox and sent after reconnect".  The
\* client keeps it for 30 s only and deletes it then, which nothing counts.  But for
\* the alerts that waited so long, one that was posted is in the event queue or in
\* the outbox until it is stored, unless a full queue, a full outbox or a client that
\* is not started refused it, which is counted.
NothingLostSilently ==
    /\ TypeOK
    /\ pending \ expired \subseteq {events[k].id : k \in DOMAIN events} \cup {outbox[k].message.id : k \in DOMAIN outbox}

\* Once the connection holds, the dashboard shows the controller's state and
\* faults, and the incident agrees: open, and at least as grave as the state, while
\* the episode goes on; closed when it does not.
Shown ==
    /\ device.state = state /\ device.faults = faults
    /\ state \in Active => device.incident # NoIncident /\ device.incident.peak >= Rank[state]
    /\ state = "calm" => device.incident = NoIncident
ShownInTheEnd == <>[](conn = "up") => <>[]Shown

\* rb_app_faults.c: "Raise while a counter keeps increasing".  When an event is
\* dropped over a connection that holds (Lose ends the wait), the dashboard hears of
\* it, although the event that says so may be dropped as well.
LossIsFlagged == unflagged ~> ~ unflagged
=============================================================================
