------------------------------- MODULE Tuning -------------------------------
(***************************************************************************)
(* Radar tuning from the dashboard, end to end: rb_c4002_relay.c takes a      *)
(* command from MQTT and sends it to the presence node by ESP-NOW, the node   *)
(* (Radar) obeys and reports, and the relay has the report published.        *)
(*                                                                         *)
(* On the controller three tasks share the relay under its lock: the MQTT     *)
(* task, which sends outside the lock and only then marks the command         *)
(* pending, the receiver of radio packets, and the telemetry task, which      *)
(* polls.  There is room for one pending command and for one reply.          *)
(* The radio keeps the order, may lose any packet and may deliver a command   *)
(* twice, right after one another.  Timeouts (8 s for a reply, 30 s between   *)
(* automatic requests) may end at any time; the node's window for duplicates  *)
(* of 10 s outlasts them.                                                  *)
(***************************************************************************)
EXTENDS Radar, Sequences, Commands

CONSTANTS
    Changes,            \* what an "apply" may set: functions from fields to values
    MaxRequests,        \* bound: commands from the dashboard
    MaxReads,           \* bound: automatic requests
    MaxInFlight         \* bound: packets on the way, each way

\* The parser has checked every value of its own.
ASSUME ChangesAssumption ==
    \A ch \in Changes : \A f \in DOMAIN ch :
        \/ f \in {"min", "max"} /\ ch[f] \in Distances
        \/ f = "custom" /\ ch[f] \in BOOLEAN
        \/ f = "thr" /\ ch[f] \in Thresholds

ASSUME RequestsAssumption == MaxRequests \in Nat

AutoRead == 0           \* the request id of the automatic request

\* What the dashboard may ask for, and the objects it may send for it.
Command ==
    {[action |-> "apply", change |-> ch] : ch \in Changes}
    \cup {[action |-> a, change |-> <<>>] : a \in {"calibrate", "read", "reset"}}

KeyOf ==
    [ min |-> "range_min_cm", max |-> "range_max_cm",
      custom |-> "motion_sensitivity", thr |-> "motion_thresholds" ]

Objects(c) ==
    LET named == IF c.action = "apply" THEN {KeyOf[f] : f \in DOMAIN c.change} ELSE {}
    IN  Around(<<"type", "action", "request_id">>
               \o SelectSeq(<<"range_min_cm", "range_max_cm", "motion_sensitivity", "motion_thresholds">>,
                            LAMBDA k : k \in named))

Ordered(ch) == ({"min", "max"} \subseteq DOMAIN ch) => ch.min <= ch.max

\* rb_c4002_cmd_parse on what came for it: both outcomes are possible.
Parses(c) == {TuningAccepts(c.action, o, Ordered(c.change)) : o \in Objects(c)}

VARIABLES
    mac,        \* node_entry_t.has_mac
    want,       \* want_read
    mqtt,       \* the MQTT task: the command it sent and has not marked yet
    pending,    \* the request that waits for its ACK
    slot,       \* the reply that is not published yet
    down, up,   \* the radio, to the node and back
    last,       \* the node: the last request with its ACK
    count,      \* requests so far
    done,       \* history: requests the node carried out
    twice,      \* history: requests it carried out more than once
    settled,    \* history: requests with a published reply, or whose turn another took
    shown,      \* history: the settings the dashboard shows
    behind,     \* history: the node's newest report will not be shown
    reads       \* bound: automatic requests so far

relayVars == <<mac, want, mqtt, pending, slot>>
vars == <<radarVars, relayVars, down, up, last, count, done, twice, settled, shown, behind, reads>>

Ids(replies) == {r.id : r \in replies}

-----------------------------------------------------------------------------
(* The relay *)

Reply(kind, id, settings) == [kind |-> kind, id |-> id, settings |-> settings]

\* set_reply: the reply that was not published yet is gone.
SetReply(reply) ==
    /\ slot' = {reply}
    /\ settled' = settled \cup (Ids(slot) \ {reply.id, AutoRead})

\* A reply that is not the node's may take the place of its newest report.
Covers == behind' = (behind \/ (up = <<>> /\ \E r \in slot : r.settings # {}))

\* on_command until it sends; the send may fail.
OnCommand ==
    /\ count < MaxRequests /\ mqtt = {} /\ Len(down) < MaxInFlight
    /\ count' = count + 1
    /\ \E c \in Command, ok \in BOOLEAN :
          /\ ok \in Parses(c)
          /\ \/ /\ ~ok
                /\ SetReply(Reply("rejected", count', {})) /\ Covers
                /\ UNCHANGED <<mqtt, down>>
             \/ /\ ok /\ ~mac
                /\ SetReply(Reply("unknown_node", count', {})) /\ Covers
                /\ UNCHANGED <<mqtt, down>>
             \/ /\ ok /\ mac
                /\ \E sent \in BOOLEAN :
                      /\ mqtt' = {[id |-> count', sent |-> sent]}
                      /\ down' = IF sent THEN Append(down, [id |-> count', cmd |-> c]) ELSE down
                /\ UNCHANGED <<slot, settled, behind>>
    /\ UNCHANGED <<radarVars, mac, want, pending, up, last, done, twice, shown, reads>>

\* on_command after it sent: an ACK may already have come.
MarkPending ==
    /\ mqtt # {}
    /\ mqtt' = {}
    /\ \E m \in mqtt :
          IF m.sent
          THEN /\ pending' = {m.id}
               /\ settled' = settled \cup (pending \ {m.id})
               /\ UNCHANGED <<slot, behind>>
          ELSE SetReply(Reply("send_failed", m.id, {})) /\ Covers /\ UNCHANGED pending
    /\ UNCHANGED <<radarVars, mac, want, down, up, last, count, done, twice, shown, reads>>

\* rb_c4002_relay_on_packet: the first packet of a presence node brings its MAC.
Hear ==
    /\ ~mac
    /\ mac' = TRUE /\ want' = TRUE
    /\ UNCHANGED <<radarVars, mqtt, pending, slot, down, up, last, count, done, twice, settled, shown, behind, reads>>

\* Any ACK ends the wait.
AnswersMutant(ack) == {ack.id} \cup pending

\* The requests whose wait an ACK ends.
Answers(ack) == {ack.id}

\* rb_c4002_relay_on_packet: CONFIG_ACK.
OnAck ==
    /\ up # <<>>
    /\ LET ack == Head(up)
       IN  /\ up' = Tail(up)
           /\ pending' = pending \ Answers(ack)
           /\ SetReply(Reply("node", ack.id, {ack.settings}))
    /\ mac' = TRUE /\ want' = FALSE
    /\ UNCHANGED <<radarVars, mqtt, down, last, count, done, twice, shown, behind, reads>>

\* rb_c4002_relay_poll: the settings of a node that was just heard are asked for.
AskSettings ==
    /\ want /\ mac /\ pending = {}
    /\ reads < MaxReads /\ Len(down) < MaxInFlight
    /\ reads' = reads + 1
    /\ down' = Append(down, [id |-> AutoRead, cmd |-> [action |-> "read", change |-> <<>>]])
    /\ UNCHANGED <<radarVars, relayVars, up, last, count, done, twice, settled, shown, behind>>

\* The reply there is to publish once a request timed out.
NoReply(id, s) == {Reply("no_reply", id, {})}

\* rb_c4002_relay_poll under its lock: a timeout becomes a reply, and a reply is
\* published.
Poll(expired) ==
    LET out == IF expired THEN UNION {NoReply(id, slot) : id \in pending} ELSE slot
    IN  /\ IF expired THEN pending # {} ELSE slot # {}
        /\ pending' = IF expired THEN {} ELSE pending
        /\ slot' = {}
        /\ settled' = settled \cup ((Ids(slot) \cup Ids(out)) \ {AutoRead})
        /\ shown' = IF \E r \in out : r.settings # {} THEN UNION {r.settings : r \in out} ELSE shown
        /\ IF expired THEN Covers ELSE UNCHANGED behind
        /\ UNCHANGED <<radarVars, mac, want, mqtt, down, up, last, count, done, twice, reads>>

\* The controller restarts: whatever it was asked is forgotten.
ControllerReboot ==
    /\ Mishaps(1)
    /\ mac' = FALSE /\ want' = FALSE
    /\ mqtt' = {} /\ pending' = {} /\ slot' = {} /\ up' = <<>>
    /\ settled' = settled \cup Ids(mqtt) \cup pending \cup (Ids(slot) \ {AutoRead})
    /\ behind' = (behind \/ up # <<>> \/ \E r \in slot : r.settings # {})
    /\ UNCHANGED <<current, saved, stored, radar, learning, calibrating, doubt, stale,
                   down, last, count, done, twice, shown, reads>>

-----------------------------------------------------------------------------
(* The node's tuning task *)

\* The ACK is made before the command is carried out.
AckMutant(id) == [id |-> id, settings |-> current]

\* make_ack: the settings after the command.
Ack(id) == [id |-> id, settings |-> current']

\* handle_command, of a command that is not a duplicate.
Execute(m) ==
    /\ CASE m.cmd.action = "apply" -> DoApply(m.cmd.change)
         [] m.cmd.action = "calibrate" -> DoCalibrate(m.id)
         [] m.cmd.action = "read" -> DoRead
         [] m.cmd.action = "reset" -> DoReset
    /\ up' = Append(up, Ack(m.id))
    /\ last' = {Ack(m.id)}
    /\ behind' = FALSE
    /\ done' = done \cup ({m.id} \ {AutoRead})
    /\ twice' = twice \cup ({m.id} \cap done)

\* The last request is not remembered.
DuplicateMutant(m) == FALSE

Duplicate(m) == m.id # AutoRead /\ m.id \in Ids(last)

\* handle_command
HandleCommand ==
    /\ down # <<>> /\ Len(up) < MaxInFlight
    /\ LET m == Head(down)
       IN  IF Duplicate(m)
           THEN /\ \E ack \in last :
                      up' = Append(up, ack) /\ behind' = (ack.settings # current)
                /\ UNCHANGED <<radarVars, last, done, twice>>
           ELSE Execute(m)
    /\ down' = Tail(down)
    /\ UNCHANGED <<relayVars, count, settled, shown, reads>>

\* The end of a calibration is reported under its request.
ReportCalibration ==
    /\ FinishCalibration /\ Len(up) < MaxInFlight
    /\ \E id \in calibrating : up' = Append(up, Ack(id))
    /\ behind' = FALSE
    /\ UNCHANGED <<relayVars, down, last, count, done, twice, settled, shown, reads>>

RadarLearned ==
    /\ Learned
    /\ UNCHANGED <<relayVars, down, up, last, count, done, twice, settled, shown, behind, reads>>

\* The node restarts: nothing is reported until it is asked.
NodeReboot ==
    /\ Boot
    /\ down' = <<>> /\ last' = {}
    /\ behind' = (behind \/ current' # current)
    /\ UNCHANGED <<relayVars, up, count, done, twice, settled, shown, reads>>

-----------------------------------------------------------------------------
(* The radio *)

LoseCommand ==
    /\ down # <<>> /\ down' = Tail(down)
    /\ UNCHANGED <<radarVars, relayVars, up, last, count, done, twice, settled, shown, behind, reads>>

\* A command that was delivered, but not acknowledged in time, comes again.
Redeliver ==
    /\ down # <<>> /\ Len(down) = Cardinality({down[i].id : i \in DOMAIN down})
    /\ Mishaps(1)
    /\ down' = <<Head(down)>> \o down
    /\ UNCHANGED <<current, saved, stored, radar, learning, calibrating, doubt, stale,
                   relayVars, up, last, count, done, twice, settled, shown, behind, reads>>

LoseAck ==
    /\ up # <<>> /\ up' = Tail(up)
    /\ behind' = (behind \/ Len(up) = 1)
    /\ UNCHANGED <<radarVars, relayVars, down, last, count, done, twice, settled, shown, reads>>

-----------------------------------------------------------------------------

Init ==
    /\ RadarInit
    /\ mac = FALSE /\ want = FALSE /\ mqtt = {} /\ pending = {} /\ slot = {}
    /\ down = <<>> /\ up = <<>> /\ last = {}
    /\ count = 0 /\ done = {} /\ twice = {} /\ settled = {}
    /\ shown = {} /\ behind = TRUE
    /\ reads = 0

Relay ==
    \/ OnCommand \/ MarkPending \/ Hear \/ OnAck \/ AskSettings
    \/ \E expired \in BOOLEAN : Poll(expired)

Node == HandleCommand \/ ReportCalibration \/ RadarLearned

Next == Relay \/ Node \/ ControllerReboot \/ NodeReboot \/ LoseCommand \/ Redeliver \/ LoseAck

\* The MQTT task ends its handler, and the telemetry task polls until nothing
\* waits, which a timeout ends.  Neither the radio nor the node is fair.
Fairness == WF_vars(MarkPending) /\ WF_vars(\E expired \in BOOLEAN : Poll(expired))

Spec == Init /\ [][Next]_vars /\ Fairness

-----------------------------------------------------------------------------
(* Properties *)

\* Every variable stays within its type.
TypeOK ==
    /\ RadarTypeOK
    /\ mac \in BOOLEAN /\ want \in BOOLEAN /\ behind \in BOOLEAN
    /\ pending \subseteq 1 .. MaxRequests /\ Cardinality(pending) <= 1
    /\ Ids(slot) \subseteq AutoRead .. MaxRequests /\ Cardinality(slot) <= 1
    /\ \A r \in slot : r.settings \subseteq Settings
    /\ shown \subseteq Settings /\ Cardinality(shown) <= 1

\* A command that the radio delivers twice is carried out once.
ExecutedOnce == twice = {}

\* Once every report has arrived, the dashboard shows the settings that the
\* node has, unless the newest report was lost or pushed aside.
ShownIsCurrent ==
    TypeOK /\ ((up = <<>> /\ slot = {} /\ ~behind) => shown = {current})

\* Each command that was parsed gets a reply in the end, even if the radio
\* loses it or the node is off, unless a later one takes its turn.
EveryRequestAnswered ==
    \A r \in 1 .. MaxRequests :
        (count >= r) ~> (r \in settled)
=============================================================================
