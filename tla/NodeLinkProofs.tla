--------------------------- MODULE NodeLinkProofs ---------------------------
(***************************************************************************)
(* Proofs about a sensor node and its radio: only what the node sent reaches  *)
(* the safety task, no late result makes the node settle on a channel where    *)
(* nobody answered, and what a presence node last saw is on its way while     *)
(* nothing goes wrong.  For any number of channels, rooms and mishaps.        *)
(***************************************************************************)
EXTENDS NodeLink, SensorNode, SequenceTheorems, TLAPS

USE LinkAssumption

Packets == [type : {"presence_data", "thermal_data", "sensor_fault", "heartbeat"}, value : Values]
Sent == [packet : Packets, result : {"none", "acked", "failed"}]
Maybe == Values \cup {None}
Searches == [at : {"idle", "move", "settle", "probe", "wait", "pause"}, old : Channels,
             i : 0 .. MaxChannel - 1, faults : Values, ahead : Nat, acked : BOOLEAN]

NodeTypes ==
    /\ role \in Roles
    /\ sensor \in [reading : Values, faults : Values]
    /\ link \in [faults : Values, lastFaults : Maybe, lastSent : Maybe, seen : Maybe]
    /\ queue \in Seq(Sent) /\ Len(queue) <= TxRoom /\ failures \in 0 .. LostFailures
RadioTypes ==
    /\ channel \in Channels /\ saved \in 0 .. MaxChannel /\ home \in 0 .. MaxChannel
    /\ answered \in BOOLEAN
    /\ follow \in Searches /\ follow.ahead <= Len(queue)
ControllerTypes ==
    /\ rx \in Seq(Packets) /\ Len(rx) <= RxRoom
    /\ shown \in [reading : Maybe, faults : Maybe]

Acked == \E k \in DOMAIN queue : queue[k].result = "acked"

\* What makes an answer one of this channel: from the moment the probe counts,
\* every result in the driver is about a packet sent on it.
Probing ==
    /\ follow.at \in {"settle", "probe", "wait"} => channel = Target(follow.i)
    /\ follow.acked => follow.at \in {"probe", "wait"}
    /\ follow.at \in {"probe", "wait"} /\ (Acked \/ follow.acked) => answered

Inv == NodeTypes /\ RadioTypes /\ ControllerTypes /\ Probing

LEMMA Roles2 == ASSUME NodeTypes PROVE role \in {"presence", "thermal"}
BY DEF NodeTypes

LEMMA InvInit == Init => Inv
<1> SUFFICES ASSUME Init PROVE Inv
  OBVIOUS
<1>1. 0 \in Values /\ None \in Maybe
  BY DEF Values, Maybe
<1>2. HomeChannel \in Channels
  BY DEF Channels
<1>3. Idle \in Searches
  BY <1>1, <1>2 DEF Idle, Searches
<1>4. NodeTypes
  BY <1>1 DEF Init, NodeTypes, Booted
<1>5. RadioTypes
  <2>1. Idle.ahead = 0
    BY DEF Idle
  <2>2. /\ channel \in Channels /\ saved \in 0 .. MaxChannel /\ home \in 0 .. MaxChannel
        /\ answered \in BOOLEAN
    <3>1. channel = HomeChannel /\ saved = 0 /\ home = HomeChannel /\ answered = FALSE
      BY DEF Init
    <3>2. HomeChannel \in 1 .. MaxChannel /\ MaxChannel \in Nat
      OBVIOUS
    <3>3. channel \in Channels /\ answered \in BOOLEAN
      BY <1>2, <3>1
    <3> QED
      BY <3>1, <3>2, <3>3
  <2>3. follow = Idle /\ Len(queue) = 0
    BY DEF Init
  <2> QED
    BY <1>3, <2>1, <2>2, <2>3 DEF RadioTypes
<1>6. ControllerTypes
  BY <1>1 DEF Init, ControllerTypes
<1>7. Probing
  BY DEF Init, Probing, Idle
<1> QED
  BY <1>4, <1>5, <1>6, <1>7 DEF Inv

\* No stray frame passes the checks of the receiver.
LEMMA StrayRefused == ASSUME NEW f \in Strays PROVE IsFramePiece(f) \/ Decode(f) # "ok"
<1> DEFINE whole == Encode("presence", "presence_data", Garbage)
<1>1. PacketLen("presence_data") = 26 /\ PacketLen("valve_command") = 0 /\ PacketLen("thermal_frame") = 0
  BY DEF PacketLen, Types, BodyLen, HeaderLen, CrcLen
<1>2. whole = [length |-> 26, magic |-> Magic, version |-> Version, type |-> "presence_data",
               role |-> "presence", crc |-> TRUE, body |-> Garbage]
  BY <1>1 DEF Encode, RoleOk, Types, BodyLen
<1> HIDE DEF whole
<1>3. f \in {[whole EXCEPT !.length = 2], [whole EXCEPT !.length = @ + 1], [whole EXCEPT !.magic = 0],
             [whole EXCEPT !.version = 2], [whole EXCEPT !.type = "valve_command"], [whole EXCEPT !.crc = FALSE],
             [whole EXCEPT !.role = "thermal"], [whole EXCEPT !.type = "thermal_frame"]}
  BY DEF Strays, whole
<1>4. CASE f = [whole EXCEPT !.length = 2]
  BY <1>2, <1>4 DEF Decode, HeaderLen, CrcLen
<1>5. CASE f = [whole EXCEPT !.length = @ + 1]
  BY <1>1, <1>2, <1>5 DEF Decode, HeaderLen, CrcLen
<1>6. CASE f = [whole EXCEPT !.magic = 0]
  BY <1>2, <1>6 DEF Decode, HeaderLen, CrcLen, Magic
<1>7. CASE f = [whole EXCEPT !.version = 2]
  BY <1>2, <1>7 DEF Decode, HeaderLen, CrcLen, Magic, Version
<1>8. CASE f = [whole EXCEPT !.type = "valve_command"]
  BY <1>1, <1>2, <1>8 DEF Decode, HeaderLen, CrcLen
<1>9. CASE f = [whole EXCEPT !.crc = FALSE]
  BY <1>1, <1>2, <1>9 DEF Decode, HeaderLen, CrcLen
<1>10. CASE f = [whole EXCEPT !.role = "thermal"]
  BY <1>1, <1>2, <1>10 DEF Decode, HeaderLen, CrcLen, RoleOk
<1>11. CASE f = [whole EXCEPT !.type = "thermal_frame"]
  BY <1>2, <1>11 DEF IsFramePiece
<1> QED
  BY <1>3, <1>4, <1>5, <1>6, <1>7, <1>8, <1>9, <1>10, <1>11

\* The receiver adds at most the packet itself.
LEMMA Received ==
    ASSUME ControllerTypes, NEW f, OnReceived(f),
           [type |-> f.type, value |-> f.body] \in Packets \/ IsFramePiece(f) \/ Decode(f) # "ok"
    PROVE  rx' \in Seq(Packets) /\ Len(rx') <= RxRoom
<1>1. CASE IsFramePiece(f) \/ Decode(f) # "ok" \/ Len(rx) >= RxRoom
  BY <1>1 DEF ControllerTypes, OnReceived
<1>2. CASE ~ (IsFramePiece(f) \/ Decode(f) # "ok" \/ Len(rx) >= RxRoom)
  BY <1>2 DEF ControllerTypes, OnReceived
<1> QED
  BY <1>1, <1>2

\* Sending leaves the results in the driver as they are.
LEMMA Sending ==
    ASSUME NodeTypes, NEW packets \in Seq(Packets), Queued(packets) \/ NotQueued
    PROVE  /\ queue' \in Seq(Sent) /\ Len(queue') <= TxRoom /\ failures' \in 0 .. LostFailures
           /\ Len(queue) <= Len(queue') /\ (Acked' => Acked)
<1>1. CASE NotQueued
  BY <1>1 DEF NodeTypes, NotQueued, Failed, Acked
<1>2. CASE Queued(packets)
  <2> DEFINE w == Waiting(packets)
  <2>1. w \in Seq(Sent) /\ Len(w) = Len(packets) /\ \A k \in DOMAIN w : w[k].result = "none"
    <3>1. DOMAIN packets = 1 .. Len(packets) /\ Len(packets) \in Nat
      OBVIOUS
    <3>2. \A k \in 1 .. Len(packets) : [packet |-> packets[k], result |-> "none"] \in Sent
      BY DEF Sent
    <3>3. w = [k \in 1 .. Len(packets) |-> [packet |-> packets[k], result |-> "none"]]
      BY <3>1 DEF Waiting
    <3>4. w \in Seq(Sent) /\ Len(w) = Len(packets)
      BY <3>1, <3>2, <3>3
    <3>5. \A k \in DOMAIN w : w[k].result = "none"
      BY <3>3
    <3> QED
      BY <3>4, <3>5
  <2>2. queue' = queue \o w /\ Len(queue) + Len(w) <= TxRoom /\ failures' = failures
    BY <1>2, <2>1 DEF Queued
  <2> HIDE DEF w
  <2>3. queue' \in Seq(Sent) /\ Len(queue') = Len(queue) + Len(w)
    <3>1. queue \in Seq(Sent) /\ w \in Seq(Sent) /\ queue' = queue \o w
      BY <2>1, <2>2 DEF NodeTypes
    <3> QED
      BY <3>1
  <2>4. ASSUME NEW k \in DOMAIN queue', queue'[k].result = "acked" PROVE Acked
    <3>1. CASE k <= Len(queue)
      BY <2>1, <2>2, <2>3, <2>4, <3>1 DEF NodeTypes, Acked
    <3>2. CASE k > Len(queue)
      <4>1. k - Len(queue) \in DOMAIN w /\ queue'[k] = w[k - Len(queue)]
        BY <2>1, <2>2, <2>3, <3>2 DEF NodeTypes
      <4> QED
        BY <2>1, <2>4, <4>1
    <3> QED
      BY <2>3, <3>1, <3>2 DEF NodeTypes
  <2> QED
    BY <2>1, <2>2, <2>3, <2>4 DEF NodeTypes, Acked
<1> QED
  BY <1>1, <1>2

\* Every packet of a tick is one of the node's.
LEMMA Ticked ==
    ASSUME NodeTypes, NEW dataDue \in BOOLEAN, NEW heartbeatDue \in BOOLEAN
    PROVE  TickPackets(dataDue, heartbeatDue) \in Seq(Packets)
<1>1. sensor.reading \in Values /\ sensor.faults \in Values
  BY DEF NodeTypes
<1>2. SensorFault(sensor.faults) \in Packets /\ Data(sensor.reading) \in Packets /\ Heartbeat(sensor.faults) \in Packets
  BY <1>1 DEF SensorFault, Data, Heartbeat, Packets
<1>3. \A p \in Packets : <<p>> \in Seq(Packets)
  OBVIOUS
<1> DEFINE a == IF sensor.faults # link.lastFaults THEN <<SensorFault(sensor.faults)>> ELSE <<>>
           b == IF dataDue THEN <<Data(sensor.reading)>> ELSE <<>>
           c == IF heartbeatDue THEN <<Heartbeat(sensor.faults)>> ELSE <<>>
<1>4. a \in Seq(Packets) /\ b \in Seq(Packets) /\ c \in Seq(Packets)
  BY <1>2, <1>3
<1>5. TickPackets(dataDue, heartbeatDue) = a \o b \o c
  BY DEF TickPackets
<1> HIDE DEF a, b, c
<1> QED
  BY <1>4, <1>5

LEMMA TargetType == ASSUME NEW i \in 0 .. MaxChannel - 1, follow.old \in Channels PROVE Target(i) \in Channels
BY DEF Target, Channels

LEMMA NextProbeType ==
    ASSUME follow \in Searches
    PROVE  NextProbe \in Searches /\ NextProbe.at \in {"move", "pause"} /\ NextProbe.ahead = 0 /\ ~ NextProbe.acked
<1>1. 0 \in Values /\ HomeChannel \in Channels
  BY DEF Values, Channels
<1>2. CASE follow.i + 1 < MaxChannel
  <2>1. NextProbe = [at |-> "move", old |-> follow.old, i |-> follow.i + 1, faults |-> 0, ahead |-> 0, acked |-> FALSE]
    BY <1>2 DEF NextProbe, Idle
  <2>2. follow.i + 1 \in 0 .. MaxChannel - 1 /\ follow.old \in Channels
    BY <1>2 DEF Searches
  <2> QED
    BY <1>1, <2>1, <2>2 DEF Searches
<1>3. CASE ~ (follow.i + 1 < MaxChannel)
  <2>1. NextProbe = [at |-> "pause", old |-> follow.old, i |-> 0, faults |-> 0, ahead |-> 0, acked |-> FALSE]
    BY <1>3 DEF NextProbe, Idle
  <2>2. 0 \in 0 .. MaxChannel - 1 /\ follow.old \in Channels
    BY <1>3 DEF Searches
  <2> QED
    BY <1>1, <2>1, <2>2 DEF Searches
<1> QED
  BY <1>2, <1>3

LEMMA InvLinkTick ==
    ASSUME Inv, NEW dataDue \in BOOLEAN, NEW heartbeatDue \in BOOLEAN, LinkTick(dataDue, heartbeatDue)
    PROVE  Inv'
<1> DEFINE sendsData == dataDue \/ DataPacketChanged(sensor.reading)
           packets == TickPackets(sendsData, heartbeatDue)
<1>1. packets \in Seq(Packets)
  <2>1. sendsData \in BOOLEAN
    BY DEF DataPacketChanged
  <2> HIDE DEF sendsData
  <2> QED
    BY <2>1, Ticked DEF Inv
<1>2. Queued(packets) \/ NotQueued
  BY DEF LinkTick
<1>3. UNCHANGED <<role, sensor, channel, follow, saved, answered, home, rx, shown>>
  BY DEF LinkTick
<1>4. link' \in [faults : Values, lastFaults : Maybe, lastSent : Maybe, seen : Maybe]
  BY DEF LinkTick, Inv, NodeTypes, Maybe
<1> HIDE DEF packets
<1>5. /\ queue' \in Seq(Sent) /\ Len(queue') <= TxRoom /\ failures' \in 0 .. LostFailures
      /\ Len(queue) <= Len(queue') /\ (Acked' => Acked)
  BY <1>1, <1>2, Sending DEF Inv
<1>6. NodeTypes'
  BY <1>3, <1>4, <1>5 DEF Inv, NodeTypes
<1>7. RadioTypes'
  BY <1>3, <1>5 DEF Inv, NodeTypes, RadioTypes, Searches
<1>8. ControllerTypes'
  BY <1>3 DEF Inv, ControllerTypes
<1>9. Probing'
  BY <1>3, <1>5 DEF Inv, Probing, Target
<1> QED
  BY <1>6, <1>7, <1>8, <1>9 DEF Inv

LEMMA InvTransmit == ASSUME Inv, Transmit PROVE Inv'
<1>1. PICK heard \in BOOLEAN, acked \in BOOLEAN :
        /\ queue # <<>>
        /\ IF heard THEN OnReceived(Encode(role, Head(queue).packet.type, Head(queue).packet.value)) ELSE UNCHANGED rx
        /\ queue' = [queue EXCEPT ![1].result = IF acked THEN "acked" ELSE "failed"]
        /\ answered' = (answered \/ acked)
        /\ UNCHANGED <<role, sensor, link, channel, failures, follow, saved, home, shown>>
  BY DEF Transmit
<1>2. queue \in Seq(Sent) /\ 1 \in DOMAIN queue /\ Head(queue) = queue[1] /\ queue[1] \in Sent
  BY <1>1 DEF Inv, NodeTypes
<1>3. queue' \in Seq(Sent) /\ Len(queue') = Len(queue) /\ DOMAIN queue' = DOMAIN queue
      /\ \A k \in DOMAIN queue : k # 1 => queue'[k] = queue[k]
  BY <1>1, <1>2 DEF Sent
<1>4. queue'[1].result = IF acked THEN "acked" ELSE "failed"
  BY <1>1, <1>2 DEF Sent
<1>5. Acked' => Acked \/ acked
  BY <1>2, <1>3, <1>4 DEF Acked
<1>6. ControllerTypes'
  <2>1. CASE heard
    <3> DEFINE f == Encode(role, Head(queue).packet.type, Head(queue).packet.value)
    <3>1. [type |-> f.type, value |-> f.body] = Head(queue).packet
      BY <1>2 DEF Encode, Sent, Packets
    <3>2. [type |-> f.type, value |-> f.body] \in Packets /\ OnReceived(f)
      BY <1>1, <1>2, <2>1, <3>1 DEF Sent
    <3> HIDE DEF f
    <3> QED
      BY <1>1, <3>2, Received DEF Inv, ControllerTypes
  <2>2. CASE ~ heard
    BY <1>1, <2>2 DEF Inv, ControllerTypes
  <2> QED
    BY <2>1, <2>2
<1>7. NodeTypes' /\ RadioTypes'
  BY <1>1, <1>3 DEF Inv, NodeTypes, RadioTypes
<1>8. Probing'
  BY <1>1, <1>5 DEF Inv, Probing, Target
<1> QED
  BY <1>6, <1>7, <1>8 DEF Inv

LEMMA InvOnSent == ASSUME Inv, OnSent PROVE Inv'
<1>1. queue \in Seq(Sent) /\ queue # <<>> /\ Head(queue) = queue[1] /\ 1 \in DOMAIN queue
  BY DEF OnSent, Inv, NodeTypes
<1>2. queue' = Tail(queue) /\ queue' \in Seq(Sent) /\ Len(queue') = Len(queue) - 1 /\ Len(queue) >= 1
  BY <1>1 DEF OnSent
<1>3. Acked' => Acked
  BY <1>1, <1>2 DEF Acked
<1>4. Head(queue).result = "acked" => Acked
  BY <1>1 DEF Acked
<1>5. failures' \in 0 .. LostFailures
  BY DEF OnSent, Failed, Inv, NodeTypes
<1>6. UNCHANGED <<role, sensor, link, channel, saved, answered, home, rx, shown>>
  BY DEF OnSent
<1>7. /\ follow' \in Searches
      /\ follow'.ahead = IF follow.ahead > 0 THEN follow.ahead - 1 ELSE 0
      /\ follow'.at = follow.at /\ follow'.i = follow.i /\ follow'.old = follow.old
      /\ follow'.acked = (follow.acked \/ (follow.at \in {"probe", "wait"} /\ Head(queue).result = "acked"))
  <2> DEFINE ahead == IF follow.ahead > 0 THEN follow.ahead - 1 ELSE 0
             acked == follow.acked \/ (follow.at \in {"probe", "wait"} /\ Head(queue).result = "acked")
  <2>1. follow \in Searches /\ follow' = [follow EXCEPT !.ahead = ahead, !.acked = acked]
    BY DEF OnSent, Inv, RadioTypes
  <2>2. ahead \in Nat
    BY <2>1 DEF Searches
  <2>3. acked \in BOOLEAN
    OBVIOUS
  <2> HIDE DEF ahead, acked
  <2>4. /\ follow' \in Searches /\ follow'.ahead = ahead /\ follow'.acked = acked
        /\ follow'.at = follow.at /\ follow'.i = follow.i /\ follow'.old = follow.old
    BY <2>1, <2>2, <2>3 DEF Searches
  <2> QED
    BY <2>4 DEF ahead, acked
<1>8. NodeTypes'
  BY <1>2, <1>5, <1>6 DEF Inv, NodeTypes
<1>9. RadioTypes'
  BY <1>2, <1>6, <1>7 DEF Inv, RadioTypes, Searches
<1>10. ControllerTypes'
  BY <1>6 DEF Inv, ControllerTypes
<1>11. Probing'
  BY <1>3, <1>4, <1>6, <1>7 DEF Inv, Probing, Target
<1> QED
  BY <1>8, <1>9, <1>10, <1>11 DEF Inv

LEMMA InvMoveTo == ASSUME Inv, MoveTo PROVE Inv'
<1>1. UNCHANGED <<role, sensor, link, queue, failures, saved, home, rx, shown>>
  BY DEF MoveTo
<1>2. NodeTypes' /\ ControllerTypes'
  BY <1>1 DEF Inv, NodeTypes, ControllerTypes
<1>3. CASE channel' = Target(follow.i) /\ follow' = [follow EXCEPT !.at = "settle"] /\ answered' = FALSE
  <2>1. /\ follow' \in Searches /\ follow'.at = "settle" /\ follow'.ahead = follow.ahead
        /\ follow'.acked = follow.acked /\ follow'.i = follow.i /\ follow'.old = follow.old
    BY <1>3 DEF Inv, RadioTypes, Searches
  <2>2. channel' \in Channels
    BY <1>3, TargetType DEF Inv, RadioTypes, Searches
  <2>3. RadioTypes'
    BY <1>1, <1>3, <2>1, <2>2 DEF Inv, RadioTypes
  <2>4. ~ follow.acked
    BY DEF MoveTo, Inv, Probing
  <2>5. Probing'
    BY <1>3, <2>1, <2>4 DEF Probing, Target
  <2> QED
    BY <1>2, <2>3, <2>5 DEF Inv
<1>4. CASE follow' = NextProbe /\ UNCHANGED <<channel, answered>>
  <2>1. follow' \in Searches /\ follow'.at \in {"move", "pause"} /\ follow'.ahead = 0 /\ ~ follow'.acked
    BY <1>4, NextProbeType DEF Inv, RadioTypes
  <2>2. RadioTypes'
    BY <1>1, <1>4, <2>1 DEF Inv, NodeTypes, RadioTypes
  <2>3. Probing'
    BY <2>1 DEF Probing
  <2> QED
    BY <1>2, <2>2, <2>3 DEF Inv
<1> QED
  BY <1>3, <1>4 DEF MoveTo

\* The other steps of the search.
LEMMA InvSearch == ASSUME Inv, FollowCheck \/ ReadCounters \/ Probe \/ Found \/ GiveUp \/ SweepAgain PROVE Inv'
<1>1. 0 \in Values /\ HomeChannel \in Channels /\ Idle \in Searches
  BY DEF Values, Channels, Idle, Searches
<1>2. CASE FollowCheck
  <2>1. follow' \in Searches /\ follow'.at = "move" /\ follow'.ahead = 0 /\ ~ follow'.acked
    BY <1>1, <1>2 DEF FollowCheck, Idle, Searches, Inv, RadioTypes
  <2>2. NodeTypes' /\ RadioTypes' /\ ControllerTypes'
    BY <1>2, <2>1 DEF FollowCheck, Inv, NodeTypes, RadioTypes, ControllerTypes
  <2> QED
    BY <2>1, <2>2 DEF Inv, Probing
<1>3. CASE ReadCounters
  <2>1. UNCHANGED <<role, sensor, link, channel, queue, failures, saved, answered, home, rx, shown>>
    BY <1>3 DEF ReadCounters
  <2>2. /\ follow.at = "settle" /\ follow' \in Searches /\ follow'.at = "probe" /\ follow'.ahead = follow.ahead
        /\ follow'.acked = follow.acked /\ follow'.i = follow.i /\ follow'.old = follow.old
    BY <1>3 DEF ReadCounters, Inv, NodeTypes, RadioTypes, Searches
  <2>3. NodeTypes' /\ RadioTypes' /\ ControllerTypes'
    BY <2>1, <2>2 DEF Inv, NodeTypes, RadioTypes, ControllerTypes
  <2>4. ~ Acked'
    BY <1>3, <2>1 DEF ReadCounters, Settled, Acked
  <2>5. Probing'
    BY <2>1, <2>2, <2>4 DEF Inv, Probing, Target
  <2> QED
    BY <2>3, <2>5 DEF Inv
<1>4. CASE Probe
  <2>1. UNCHANGED <<role, sensor, link, channel, saved, answered, home, rx, shown>>
    BY <1>4 DEF Probe
  <2> DEFINE packets == <<Heartbeat(follow.faults)>>
  <2>2. packets \in Seq(Packets)
    <3>1. Heartbeat(follow.faults) \in Packets
      BY DEF Heartbeat, Packets, Inv, RadioTypes, Searches
    <3> QED
      BY <3>1
  <2>3. Queued(packets) \/ NotQueued
    BY <1>4 DEF Probe
  <2> HIDE DEF packets
  <2>4. /\ queue' \in Seq(Sent) /\ Len(queue') <= TxRoom /\ failures' \in 0 .. LostFailures
        /\ Len(queue) <= Len(queue') /\ (Acked' => Acked)
    BY <2>2, <2>3, Sending DEF Inv
  <2>5. /\ follow.at = "probe" /\ follow' \in Searches /\ follow'.at = "wait" /\ follow'.ahead = Len(queue')
        /\ follow'.acked = follow.acked /\ follow'.i = follow.i /\ follow'.old = follow.old
    <3>1. follow \in Searches /\ follow.at = "probe" /\ follow' = [follow EXCEPT !.at = "wait", !.ahead = Len(queue')]
      BY <1>4 DEF Probe, Inv, RadioTypes
    <3>2. Len(queue') \in Nat
      BY <2>4
    <3> QED
      BY <3>1, <3>2 DEF Searches
  <2>6. NodeTypes' /\ RadioTypes' /\ ControllerTypes'
    BY <2>1, <2>4, <2>5 DEF Inv, NodeTypes, RadioTypes, ControllerTypes
  <2>7. Probing'
    BY <2>1, <2>4, <2>5 DEF Inv, Probing, Target
  <2> QED
    BY <2>6, <2>7 DEF Inv
<1>5. CASE Found
  <2>1. UNCHANGED <<role, sensor, link, channel, queue, failures, answered, home, rx, shown>> /\ follow' = Idle
        /\ saved' \in 0 .. MaxChannel
    BY <1>5 DEF Found, Inv, RadioTypes, Channels
  <2>2. NodeTypes' /\ ControllerTypes'
    BY <2>1 DEF Inv, NodeTypes, ControllerTypes
  <2>3. RadioTypes'
    BY <1>1, <2>1 DEF Inv, NodeTypes, RadioTypes, Idle
  <2>4. Probing'
    BY <2>1 DEF Probing, Idle
  <2> QED
    BY <2>2, <2>3, <2>4 DEF Inv
<1>6. CASE GiveUp
  <2>1. follow' \in Searches /\ follow'.at \in {"move", "pause"} /\ follow'.ahead = 0 /\ ~ follow'.acked
    BY <1>6, NextProbeType DEF GiveUp, Inv, RadioTypes
  <2>2. NodeTypes' /\ RadioTypes' /\ ControllerTypes'
    BY <1>6, <2>1 DEF GiveUp, Inv, NodeTypes, RadioTypes, ControllerTypes
  <2> QED
    BY <2>1, <2>2 DEF Inv, Probing
<1>7. CASE SweepAgain
  <2>1. follow' \in Searches /\ follow'.at = "move" /\ follow'.ahead = follow.ahead /\ ~ follow'.acked
    BY <1>7 DEF SweepAgain, Inv, RadioTypes, Searches, Probing
  <2>2. NodeTypes' /\ RadioTypes' /\ ControllerTypes'
    BY <1>7, <2>1 DEF SweepAgain, Inv, NodeTypes, RadioTypes, ControllerTypes
  <2> QED
    BY <2>1, <2>2 DEF Inv, Probing
<1> QED
  BY <1>2, <1>3, <1>4, <1>5, <1>6, <1>7

\* What only moves the controller's side, or the world.
LEMMA InvOutside ==
    ASSUME Inv, Stray \/ Drain \/ ControllerRestarts \/ SensorChanges \/ ControllerMoves
    PROVE  Inv'
<1>1. UNCHANGED <<role, link, channel, queue, failures, follow, saved, answered>>
  BY DEF Stray, Drain, ControllerRestarts, SensorChanges, ControllerMoves
<1>2. sensor' \in [reading : Values, faults : Values] /\ home' \in 0 .. MaxChannel
  BY DEF Stray, Drain, ControllerRestarts, SensorChanges, ControllerMoves, Inv, NodeTypes, RadioTypes, Channels
<1>3. NodeTypes' /\ RadioTypes' /\ Probing'
  BY <1>1, <1>2 DEF Inv, NodeTypes, RadioTypes, Probing, Acked, Target
<1>4. ControllerTypes'
  <2>1. CASE Stray
    <3>1. PICK f \in Strays : OnReceived(f)
      BY <2>1 DEF Stray
    <3> QED
      BY <2>1, <3>1, StrayRefused, Received DEF Stray, Inv, ControllerTypes
  <2>2. CASE Drain
    <3>1. rx' \in Seq(Packets) /\ Len(rx') <= RxRoom /\ Head(rx) \in Packets
      BY <2>2 DEF Drain, Inv, ControllerTypes
    <3>2. shown' \in [reading : Maybe, faults : Maybe]
      BY <2>2, <3>1 DEF Drain, Take, Inv, ControllerTypes, Packets, Maybe
    <3> QED
      BY <3>1, <3>2 DEF ControllerTypes
  <2>3. CASE ControllerRestarts
    BY <2>3 DEF ControllerRestarts, ControllerTypes, Maybe
  <2>4. CASE SensorChanges \/ ControllerMoves
    BY <2>4 DEF SensorChanges, ControllerMoves, Inv, ControllerTypes
  <2> QED
    BY <2>1, <2>2, <2>3, <2>4
<1> QED
  BY <1>3, <1>4 DEF Inv

LEMMA InvNodeRestarts == ASSUME Inv, NodeRestarts PROVE Inv'
<1>1. 0 \in Values /\ None \in Maybe /\ HomeChannel \in Channels /\ Idle \in Searches
  BY DEF Values, Maybe, Channels, Idle, Searches
<1>2. BootChannel \in Channels
  BY <1>1 DEF BootChannel, Channels, Inv, RadioTypes
<1>3. NodeTypes'
  BY <1>1 DEF NodeRestarts, Inv, NodeTypes, Booted
<1>4. RadioTypes'
  BY <1>1, <1>2 DEF NodeRestarts, Inv, RadioTypes, Idle
<1>5. ControllerTypes' /\ Probing'
  BY DEF NodeRestarts, Inv, ControllerTypes, Probing, Idle
<1> QED
  BY <1>3, <1>4, <1>5 DEF Inv

LEMMA InvStep == Inv /\ [Next]_vars => Inv'
<1> SUFFICES ASSUME Inv, [Next]_vars PROVE Inv'
  OBVIOUS
<1>1. CASE UNCHANGED vars
  BY <1>1 DEF vars, Inv, NodeTypes, RadioTypes, ControllerTypes, Probing, Acked, Target
<1> QED
  BY <1>1, InvLinkTick, InvTransmit, InvOnSent, InvMoveTo, InvSearch, InvOutside, InvNodeRestarts DEF Next, FollowTask

\* probe_channel: a node takes a channel for the controller's only after the
\* controller acknowledged a packet on it, in this very probe.
THEOREM AnsweredHere == Spec => []FoundIsAnswered
<1>1. Inv => FoundIsAnswered
  BY DEF Inv, Probing, FoundIsAnswered
<1> QED
  BY <1>1, InvInit, InvStep, PTL DEF Spec

\* rb_protocol_decode: whatever else is on the air, only readings and faults this
\* node sent reach the safety task.
THEOREM NothingForeign == Spec => []OnlyWholePackets
<1>1. Inv => OnlyWholePackets
  <2> SUFFICES ASSUME Inv PROVE OnlyWholePackets
    OBVIOUS
  <2>1. TypeOK
    BY DEF Inv, NodeTypes, RadioTypes, ControllerTypes, TypeOK, Searches, Maybe
  <2>2. \A k \in DOMAIN rx : rx[k].value \in Values
    <3>1. \A k \in DOMAIN rx : rx[k] \in Packets
      BY DEF Inv, ControllerTypes
    <3> QED
      BY <3>1 DEF Packets
  <2>3. shown.reading # Garbage /\ shown.faults # Garbage
    BY DEF Inv, ControllerTypes, Maybe, Values, None, Garbage
  <2> QED
    BY <2>1, <2>2, <2>3 DEF OnlyWholePackets
<1> QED
  BY <1>1, InvInit, InvStep, PTL DEF Spec

-----------------------------------------------------------------------------
(* The newest reading *)

\* What holds of the readings among packets, whoever carries them.
LEMMA LatestJoins ==
    ASSUME NEW s \in Seq(Packets), NEW t \in Seq(Packets), NEW b, NEW w, NEW v,
           LatestIs(s, b, w), LatestIs(t, w, v)
    PROVE  LatestIs(s \o t, b, v)
<1> DEFINE st == s \o t
<1>1. /\ Len(s) \in Nat /\ Len(t) \in Nat /\ DOMAIN s = 1 .. Len(s) /\ DOMAIN t = 1 .. Len(t)
      /\ DOMAIN st = 1 .. Len(s) + Len(t)
      /\ \A i \in 1 .. Len(s) : st[i] = s[i]
      /\ \A i \in 1 .. Len(t) : st[Len(s) + i] = t[i]
  OBVIOUS
<1>2. \A j \in DOMAIN st : j > Len(s) => j - Len(s) \in DOMAIN t /\ st[j] = t[j - Len(s)]
  <2> SUFFICES ASSUME NEW j \in DOMAIN st, j > Len(s)
               PROVE  j - Len(s) \in DOMAIN t /\ st[j] = t[j - Len(s)]
    OBVIOUS
  <2> DEFINE i == j - Len(s)
  <2>1. i \in 1 .. Len(t) /\ j = Len(s) + i
    BY <1>1
  <2> HIDE DEF i
  <2>2. st[j] = t[i]
    BY <1>1, <2>1
  <2> QED
    BY <1>1, <2>1, <2>2 DEF i
<1> HIDE DEF st
<1>3. CASE \E k \in DOMAIN t : /\ IsReading(t[k]) /\ t[k].value = v
                               /\ \A j \in DOMAIN t : j > k => ~ IsReading(t[j])
  <2>1. PICK k \in DOMAIN t : /\ IsReading(t[k]) /\ t[k].value = v
                              /\ \A j \in DOMAIN t : j > k => ~ IsReading(t[j])
    BY <1>3
  <2> DEFINE n == Len(s) + k
  <2>2. n \in DOMAIN st /\ st[n] = t[k]
    BY <1>1
  <2>3. ASSUME NEW j \in DOMAIN st, j > n PROVE ~ IsReading(st[j])
    <3>1. j > Len(s) /\ j - Len(s) > k
      BY <1>1, <2>3
    <3> QED
      BY <1>2, <2>1, <3>1
  <2> HIDE DEF n
  <2>4. LatestIs(st, b, v)
    BY <2>1, <2>2, <2>3 DEF LatestIs
  <2> QED
    BY <2>4 DEF st
<1>4. CASE v = w /\ \A k \in DOMAIN t : ~ IsReading(t[k])
  <2>1. \A j \in DOMAIN st : j > Len(s) => ~ IsReading(st[j])
    BY <1>2, <1>4
  <2>2. \A j \in DOMAIN st : ~ (j > Len(s)) => j \in DOMAIN s /\ st[j] = s[j]
    BY <1>1
  <2>3. \A j \in DOMAIN s : j \in DOMAIN st /\ st[j] = s[j]
    BY <1>1
  <2>4. CASE v = b /\ \A k \in DOMAIN s : ~ IsReading(s[k])
    <3>1. LatestIs(st, b, v)
      BY <2>1, <2>2, <2>4 DEF LatestIs
    <3> QED
      BY <3>1 DEF st
  <2>5. CASE \E k \in DOMAIN s : /\ IsReading(s[k]) /\ s[k].value = w
                                 /\ \A j \in DOMAIN s : j > k => ~ IsReading(s[j])
    <3>1. PICK k \in DOMAIN s : /\ IsReading(s[k]) /\ s[k].value = w
                                /\ \A j \in DOMAIN s : j > k => ~ IsReading(s[j])
      BY <2>5
    <3>2. \A j \in DOMAIN st : j > k => ~ IsReading(st[j])
      BY <2>1, <2>2, <3>1
    <3>3. LatestIs(st, b, v)
      BY <1>4, <2>3, <3>1, <3>2 DEF LatestIs
    <3> QED
      BY <3>3 DEF st
  <2> QED
    BY <1>4, <2>4, <2>5 DEF LatestIs
<1> QED
  BY <1>3, <1>4 DEF LatestIs

\* What one sequence of packets after another holds.
LEMMA Joined ==
    ASSUME NEW s \in Seq(Packets), NEW t \in Seq(Packets)
    PROVE  /\ s \o t \in Seq(Packets)
           /\ Len(s \o t) = Len(s) + Len(t) /\ Len(s) + Len(t) \in Nat
           /\ DOMAIN (s \o t) = 1 .. Len(s) + Len(t)
           /\ \A k \in 1 .. Len(s) : (s \o t)[k] = s[k]
           /\ \A k \in 1 .. Len(s) + Len(t) : k > Len(s) => (s \o t)[k] = t[k - Len(s)]
<1>1. Len(s) \in Nat /\ Len(t) \in Nat
  OBVIOUS
<1>2. s \o t \in Seq(Packets) /\ Len(s \o t) = Len(s) + Len(t)
  BY ConcatProperties
<1>3. \A k \in 1 .. Len(s) + Len(t) : (s \o t)[k] = IF k <= Len(s) THEN s[k] ELSE t[k - Len(s)]
  BY ConcatProperties
<1> DEFINE st == s \o t
<1> HIDE DEF st
<1>4. DOMAIN st = 1 .. Len(s) + Len(t)
  BY <1>2 DEF st
<1> QED
  BY <1>1, <1>2, <1>3, <1>4 DEF st

LEMMA LatestOfNone == ASSUME NEW v PROVE LatestIs(<<>>, v, v)
BY DEF LatestIs

LEMMA LatestOfOne ==
    ASSUME NEW p \in Packets, NEW b
    PROVE  LatestIs(<<p>>, b, IF IsReading(p) THEN p.value ELSE b)
<1>1. DOMAIN <<p>> = {1} /\ <<p>>[1] = p
  OBVIOUS
<1> QED
  BY <1>1 DEF LatestIs

LEMMA LatestTail ==
    ASSUME NEW s \in Seq(Packets), s # <<>>, NEW b, NEW v, LatestIs(s, b, v)
    PROVE  LatestIs(Tail(s), IF IsReading(Head(s)) THEN Head(s).value ELSE b, v)
<1> DEFINE t == Tail(s)
<1>1. /\ Head(s) = s[1] /\ Len(s) \in Nat \ {0} /\ DOMAIN s = 1 .. Len(s) /\ DOMAIN t = 1 .. Len(s) - 1
      /\ \A i \in 1 .. Len(s) - 1 : t[i] = s[i + 1]
  OBVIOUS
<1> HIDE DEF t
<1>2. CASE v = b /\ \A k \in DOMAIN s : ~ IsReading(s[k])
  <2>1. \A k \in DOMAIN t : ~ IsReading(t[k])
    BY <1>1, <1>2
  <2>2. ~ IsReading(Head(s))
    BY <1>1, <1>2
  <2> QED
    BY <1>2, <2>1, <2>2 DEF LatestIs, t
<1>3. CASE \E k \in DOMAIN s : /\ IsReading(s[k]) /\ s[k].value = v
                               /\ \A j \in DOMAIN s : j > k => ~ IsReading(s[j])
  <2>1. PICK k \in DOMAIN s : /\ IsReading(s[k]) /\ s[k].value = v
                              /\ \A j \in DOMAIN s : j > k => ~ IsReading(s[j])
    BY <1>3
  <2>2. CASE k = 1
    <3>1. \A j \in DOMAIN t : ~ IsReading(t[j])
      BY <1>1, <2>1, <2>2
    <3>2. IsReading(Head(s)) /\ Head(s).value = v
      BY <1>1, <2>1, <2>2
    <3> QED
      BY <3>1, <3>2 DEF LatestIs, t
  <2>3. CASE k # 1
    <3> DEFINE n == k - 1
    <3>1. n \in DOMAIN t /\ t[n] = s[k]
      BY <1>1, <2>1, <2>3
    <3>2. \A j \in DOMAIN t : j > n => ~ IsReading(t[j])
      BY <1>1, <2>1, <2>3
    <3> HIDE DEF n
    <3> QED
      BY <2>1, <3>1, <3>2 DEF LatestIs, t
  <2> QED
    BY <2>2, <2>3
<1> QED
  BY <1>2, <1>3 DEF LatestIs

\* A reading at the head hides what was before.
LEMMA LatestHides ==
    ASSUME NEW s \in Seq(Packets), s # <<>>, NEW b, NEW c, NEW v, LatestIs(s, b, v), IsReading(Head(s)) \/ b = c
    PROVE  LatestIs(s, c, v)
<1>1. Head(s) = s[1] /\ 1 \in DOMAIN s
  OBVIOUS
<1> QED
  BY <1>1 DEF LatestIs

-----------------------------------------------------------------------------
(* Where nothing goes wrong *)

\* Until a first mishap the follow task has nothing to do, and every packet that
\* was sent was acknowledged, and taken in, before its result is reported.
Smooth ==
    /\ home = HomeChannel /\ channel = HomeChannel /\ failures = 0 /\ follow.at = "idle"
    /\ \A k \in DOMAIN queue : queue[k].result = "none" \/ (k = 1 /\ queue[k].result = "acked")
    /\ \A k \in DOMAIN queue : queue[k].packet.type # "thermal_data"
    /\ link.lastSent = link.seen

\* The readings that were received, then those in the driver: what the first of
\* them is that was heard already, the others follow.
Flow ==
    \E w \in Maybe :
        /\ LatestIs(rx, shown.reading, w) /\ LatestIs(InDriver, w, link.seen)
        /\ queue # <<>> /\ Head(queue).result = "acked" /\ IsReading(Head(queue).packet)
           => w = Head(queue).packet.value

Undisturbed == mishaps = 0 /\ ~ moved /\ role = "presence"

FlowInv == mishaps \in Nat /\ (Undisturbed => Smooth /\ Flow)

LEMMA InDriverType ==
    ASSUME NodeTypes
    PROVE  /\ InDriver \in Seq(Packets) /\ Len(InDriver) = Len(queue) /\ DOMAIN InDriver = DOMAIN queue
           /\ queue # <<>> => /\ InDriver # <<>> /\ Head(InDriver) = Head(queue).packet
                              /\ Head(queue) = queue[1] /\ 1 \in DOMAIN queue /\ queue[1] \in Sent
<1>1. queue \in Seq(Sent) /\ DOMAIN queue = 1 .. Len(queue) /\ Len(queue) \in Nat
  BY DEF NodeTypes
<1>2. \A k \in 1 .. Len(queue) : queue[k].packet \in Packets
  <2>1. \A q \in Sent : q.packet \in Packets
    BY DEF Sent
  <2>2. \A k \in 1 .. Len(queue) : queue[k] \in Sent
    BY <1>1
  <2> QED
    BY <2>1, <2>2
<1>3. InDriver = [k \in 1 .. Len(queue) |-> queue[k].packet]
  BY <1>1 DEF InDriver
<1>4. InDriver \in Seq(Packets) /\ Len(InDriver) = Len(queue) /\ DOMAIN InDriver = DOMAIN queue
  BY <1>1, <1>2, <1>3
<1>5. ASSUME queue # <<>> PROVE Head(queue) = queue[1] /\ 1 \in DOMAIN queue /\ queue[1] \in Sent
  BY <1>1, <1>5
<1>6. ASSUME queue # <<>> PROVE InDriver # <<>> /\ Head(InDriver) = Head(queue).packet
  <2>1. InDriver[1] = queue[1].packet /\ Len(InDriver) # 0
    BY <1>1, <1>3, <1>4, <1>5, <1>6
  <2> QED
    BY <1>4, <1>5, <1>6, <2>1
<1> QED
  BY <1>4, <1>5, <1>6

LEMMA FlowInit == Init => FlowInv
<1> SUFFICES ASSUME Init PROVE FlowInv
  OBVIOUS
<1>1. queue = <<>> /\ rx = <<>> /\ DOMAIN queue = {} /\ link.seen = None /\ link.lastSent = None
      /\ shown.reading = None /\ None \in Maybe
  BY DEF Init, Booted, Maybe
<1>2. InDriver = <<>>
  BY <1>1 DEF InDriver
<1>3. Smooth
  BY <1>1 DEF Init, Smooth, Idle
<1>4. LatestIs(rx, shown.reading, None) /\ LatestIs(InDriver, None, link.seen)
  BY <1>1, <1>2, LatestOfNone
<1>5. Flow
  BY <1>1, <1>4 DEF Flow
<1>6. mishaps \in Nat
  BY DEF Init
<1> QED
  BY <1>3, <1>5, <1>6 DEF FlowInv

LEMMA SmoothHas ==
    ASSUME Inv, FlowInv, Undisturbed
    PROVE  /\ Smooth /\ Flow /\ NodeTypes /\ rx \in Seq(Packets) /\ queue \in Seq(Sent) /\ role = "presence"
           /\ link.seen \in Maybe /\ mishaps = 0
BY DEF Inv, FlowInv, Undisturbed, ControllerTypes, NodeTypes

\* A tick announces what it saw.
LEMMA TickLatest ==
    ASSUME NodeTypes, role = "presence", link.lastSent = link.seen, NEW dataDue \in BOOLEAN, NEW heartbeatDue \in BOOLEAN,
           ~ dataDue => link.lastSent = sensor.reading
    PROVE  /\ LatestIs(TickPackets(dataDue, heartbeatDue), link.seen, sensor.reading)
           /\ \A k \in DOMAIN TickPackets(dataDue, heartbeatDue) :
                 TickPackets(dataDue, heartbeatDue)[k].type # "thermal_data"
<1> DEFINE fault == SensorFault(sensor.faults)
           data == Data(sensor.reading)
           beat == Heartbeat(sensor.faults)
           a == IF sensor.faults # link.lastFaults THEN <<fault>> ELSE <<>>
           b == IF dataDue THEN <<data>> ELSE <<>>
           c == IF heartbeatDue THEN <<beat>> ELSE <<>>
<1>1. /\ fault \in Packets /\ data \in Packets /\ beat \in Packets
      /\ ~ IsReading(fault) /\ ~ IsReading(beat) /\ IsReading(data) /\ data.value = sensor.reading
      /\ fault.type # "thermal_data" /\ data.type # "thermal_data" /\ beat.type # "thermal_data"
  BY DEF SensorFault, Data, Heartbeat, Packets, NodeTypes, IsReading
<1>2. TickPackets(dataDue, heartbeatDue) = (a \o b) \o c
  BY DEF TickPackets
<1> HIDE DEF fault, data, beat
<1>3. a \in Seq(Packets) /\ \A k \in DOMAIN a : a[k].type # "thermal_data"
  BY <1>1
<1>4. b \in Seq(Packets) /\ \A k \in DOMAIN b : b[k].type # "thermal_data"
  BY <1>1
<1>5. c \in Seq(Packets) /\ \A k \in DOMAIN c : c[k].type # "thermal_data"
  BY <1>1
<1>6. LatestIs(a, link.seen, link.seen)
  <2>1. LatestIs(<<fault>>, link.seen, link.seen)
    BY <1>1, LatestOfOne
  <2> QED
    BY <2>1, LatestOfNone
<1>7. LatestIs(b, link.seen, sensor.reading)
  <2>1. CASE dataDue
    <3>1. LatestIs(<<data>>, link.seen, sensor.reading)
      BY <1>1, LatestOfOne
    <3> QED
      BY <2>1, <3>1
  <2>2. CASE ~ dataDue
    BY <2>2, LatestOfNone
  <2> QED
    BY <2>1, <2>2
<1>8. LatestIs(c, sensor.reading, sensor.reading)
  <2>1. LatestIs(<<beat>>, sensor.reading, sensor.reading)
    BY <1>1, LatestOfOne
  <2> QED
    BY <2>1, LatestOfNone
<1> HIDE DEF a, b, c
<1>9. LatestIs(a \o b, link.seen, sensor.reading) /\ a \o b \in Seq(Packets)
  BY <1>3, <1>4, <1>6, <1>7, LatestJoins
<1>10. LatestIs((a \o b) \o c, link.seen, sensor.reading)
  BY <1>5, <1>8, <1>9, LatestJoins
<1>11. \A k \in DOMAIN (a \o b) : (a \o b)[k].type # "thermal_data"
  BY <1>3, <1>4
<1> DEFINE ab == a \o b
<1>12. ab \in Seq(Packets) /\ \A k \in DOMAIN ab : ab[k].type # "thermal_data"
  BY <1>9, <1>11
<1> HIDE DEF ab
<1>13. \A k \in DOMAIN (ab \o c) : (ab \o c)[k].type # "thermal_data"
  BY <1>5, <1>12
<1> QED
  BY <1>2, <1>10, <1>13 DEF ab

LEMMA FlowLinkTick ==
    ASSUME Inv, FlowInv, NEW dataDue \in BOOLEAN, NEW heartbeatDue \in BOOLEAN, LinkTick(dataDue, heartbeatDue),
           Undisturbed, mishaps' = 0
    PROVE  Smooth' /\ Flow'
<1> DEFINE sendsData == dataDue \/ DataPacketChanged(sensor.reading)
           packets == TickPackets(sendsData, heartbeatDue)
           w == Waiting(packets)
<1>1. /\ Queued(packets)
      /\ link'.lastSent = (IF sendsData THEN sensor.reading ELSE link.lastSent) /\ link'.seen = sensor.reading
      /\ UNCHANGED <<role, channel, follow, home, rx, shown>>
  BY SmoothHas DEF LinkTick, Mishap
<1>2. sendsData \in BOOLEAN /\ (~ sendsData => link.lastSent = sensor.reading)
  BY SmoothHas DEF DataPacketChanged
<1> HIDE DEF sendsData
<1>3. link.lastSent = link.seen
  BY SmoothHas DEF Smooth
<1>4. /\ packets \in Seq(Packets) /\ LatestIs(packets, link.seen, sensor.reading)
      /\ \A k \in DOMAIN packets : packets[k].type # "thermal_data"
  BY <1>2, <1>3, SmoothHas, Ticked, TickLatest
<1> HIDE DEF packets
<1>5. /\ w \in Seq(Sent) /\ DOMAIN w = DOMAIN packets /\ Len(w) = Len(packets)
      /\ \A k \in DOMAIN packets : w[k].result = "none" /\ w[k].packet = packets[k]
  <2>1. DOMAIN packets = 1 .. Len(packets) /\ Len(packets) \in Nat /\ \A k \in 1 .. Len(packets) : packets[k] \in Packets
    BY <1>4
  <2>2. w = [k \in 1 .. Len(packets) |-> [packet |-> packets[k], result |-> "none"]]
    BY <2>1 DEF Waiting
  <2>3. \A k \in 1 .. Len(packets) : [packet |-> packets[k], result |-> "none"] \in Sent
    BY <2>1 DEF Sent
  <2> QED
    BY <2>1, <2>2, <2>3
<1>6. queue' = queue \o w /\ failures' = failures
  BY <1>1 DEF Queued
<1> HIDE DEF w
<1>7. /\ queue' \in Seq(Sent) /\ DOMAIN queue' = 1 .. Len(queue) + Len(w) /\ Len(queue) \in Nat /\ Len(w) \in Nat
      /\ \A k \in 1 .. Len(queue) : queue'[k] = queue[k]
      /\ \A k \in DOMAIN queue' : k > Len(queue) => k - Len(queue) \in DOMAIN w /\ queue'[k] = w[k - Len(queue)]
  <2>1. queue \in Seq(Sent) /\ w \in Seq(Sent)
    BY <1>5, SmoothHas
  <2>2. /\ queue' \in Seq(Sent) /\ DOMAIN queue' = 1 .. Len(queue) + Len(w) /\ Len(queue) \in Nat /\ Len(w) \in Nat
        /\ \A k \in 1 .. Len(queue) : queue'[k] = queue[k]
        /\ \A i \in 1 .. Len(w) : queue'[Len(queue) + i] = w[i]
    BY <1>6, <2>1
  <2>3. ASSUME NEW k \in DOMAIN queue', k > Len(queue)
        PROVE  k - Len(queue) \in DOMAIN w /\ queue'[k] = w[k - Len(queue)]
    <3> DEFINE i == k - Len(queue)
    <3>1. i \in 1 .. Len(w) /\ k = Len(queue) + i
      BY <2>2, <2>3
    <3> HIDE DEF i
    <3>2. queue'[k] = w[i] /\ i \in DOMAIN w
      BY <2>1, <2>2, <3>1
    <3> QED
      BY <3>2 DEF i
  <2> QED
    BY <2>2, <2>3
<1>8. DOMAIN queue = 1 .. Len(queue)
  BY SmoothHas
<1>9. Smooth'
  <2>1. ASSUME NEW k \in DOMAIN queue'
        PROVE  /\ queue'[k].result = "none" \/ (k = 1 /\ queue'[k].result = "acked")
               /\ queue'[k].packet.type # "thermal_data"
    <3>1. CASE k > Len(queue)
      BY <1>4, <1>5, <1>7, <3>1
    <3>2. CASE ~ (k > Len(queue))
      <4>1. k \in DOMAIN queue /\ queue'[k] = queue[k]
        BY <1>7, <1>8, <3>2
      <4> QED
        BY <4>1, SmoothHas DEF Smooth
    <3> QED
      BY <3>1, <3>2
  <2>2. link'.lastSent = link'.seen
    BY <1>1, <1>2
  <2> QED
    BY <1>1, <1>6, <2>1, <2>2, SmoothHas DEF Smooth
<1>10. PICK v \in Maybe :
          /\ LatestIs(rx, shown.reading, v) /\ LatestIs(InDriver, v, link.seen)
          /\ queue # <<>> /\ Head(queue).result = "acked" /\ IsReading(Head(queue).packet)
             => v = Head(queue).packet.value
  BY SmoothHas DEF Flow
<1>11. InDriver' = InDriver \o packets
  <2>1. InDriver \in Seq(Packets) /\ Len(InDriver) = Len(queue) /\ DOMAIN InDriver = DOMAIN queue
    BY SmoothHas, InDriverType
  <2>2. /\ InDriver \o packets \in Seq(Packets)
        /\ Len(InDriver \o packets) = Len(queue) + Len(packets) /\ Len(queue) + Len(packets) \in Nat
        /\ \A k \in 1 .. Len(queue) : (InDriver \o packets)[k] = InDriver[k]
        /\ \A k \in 1 .. Len(queue) + Len(packets) :
               k > Len(queue) => (InDriver \o packets)[k] = packets[k - Len(queue)]
    <3> DEFINE d == InDriver
    <3>1. d \in Seq(Packets) /\ Len(d) = Len(queue) /\ packets \in Seq(Packets)
      BY <1>4, <2>1
    <3> HIDE DEF d, packets
    <3>2. /\ d \o packets \in Seq(Packets)
          /\ Len(d \o packets) = Len(d) + Len(packets) /\ Len(d) + Len(packets) \in Nat
          /\ \A k \in 1 .. Len(d) : (d \o packets)[k] = d[k]
          /\ \A k \in 1 .. Len(d) + Len(packets) : k > Len(d) => (d \o packets)[k] = packets[k - Len(d)]
      BY <3>1, Joined
    <3> QED
      BY <3>1, <3>2 DEF d
  <2>3. InDriver' = [k \in 1 .. Len(queue) + Len(packets) |-> queue'[k].packet]
    BY <1>5, <1>7 DEF InDriver
  <2>4. ASSUME NEW k \in 1 .. Len(queue) + Len(packets)
        PROVE  (InDriver \o packets)[k] = queue'[k].packet
    <3>1. CASE k > Len(queue)
      <4>1. k - Len(queue) \in DOMAIN packets /\ queue'[k] = w[k - Len(queue)]
        BY <1>5, <1>7, <3>1
      <4> QED
        BY <1>5, <2>2, <3>1, <4>1
    <3>2. CASE ~ (k > Len(queue))
      <4>1. k \in 1 .. Len(queue) /\ k \in DOMAIN queue
        BY <1>7, <1>8, <3>2
      <4>2. InDriver[k] = queue'[k].packet
        BY <1>7, <4>1 DEF InDriver
      <4> QED
        BY <2>2, <4>1, <4>2
    <3> QED
      BY <3>1, <3>2
  <2>6. \A k \in 1 .. Len(queue) + Len(packets) : queue'[k].packet \in Packets
    <3>1. \A q \in Sent : q.packet \in Packets
      BY DEF Sent
    <3> QED
      BY <1>5, <1>7, <3>1
  <2>7. /\ InDriver' \in Seq(Packets) /\ Len(InDriver') = Len(queue) + Len(packets)
        /\ \A k \in 1 .. Len(queue) + Len(packets) : InDriver'[k] = queue'[k].packet
    BY <2>2, <2>3, <2>6
  <2> DEFINE d == InDriver'
             e == InDriver \o packets
  <2>8. d \in Seq(Packets) /\ e \in Seq(Packets) /\ Len(d) = Len(e) /\ \A k \in 1 .. Len(d) : d[k] = e[k]
    BY <2>2, <2>4, <2>7
  <2> HIDE DEF d, e
  <2>9. d = e
    BY <2>8, SeqEqual
  <2> QED
    BY <2>9 DEF d, e
<1>12. LatestIs(InDriver', v, link'.seen)
  BY <1>1, <1>4, <1>10, <1>11, LatestJoins, SmoothHas, InDriverType
<1>13. queue' # <<>> /\ Head(queue').result = "acked" => queue # <<>> /\ Head(queue') = Head(queue)
  <2> SUFFICES ASSUME queue' # <<>>, Head(queue').result = "acked" PROVE queue # <<>> /\ Head(queue') = Head(queue)
    OBVIOUS
  <2>1. Head(queue') = queue'[1] /\ 1 \in DOMAIN queue'
    BY <1>7
  <2>2. ~ (1 > Len(queue))
    BY <1>5, <1>7, <2>1
  <2>3. 1 \in 1 .. Len(queue) /\ queue # <<>> /\ Head(queue) = queue[1]
    BY <1>7, <2>2, SmoothHas
  <2> QED
    BY <1>7, <2>1, <2>3
<1>14. Flow'
  BY <1>1, <1>10, <1>12, <1>13 DEF Flow
<1> QED
  BY <1>9, <1>14

\* The controller takes in every packet of a presence node.
LEMMA Decoded ==
    ASSUME NEW p \in Packets, p.type # "thermal_data", NEW f, f = Encode("presence", p.type, p.value)
    PROVE  ~ IsFramePiece(f) /\ Decode(f) = "ok" /\ f.type = p.type /\ f.body = p.value
<1>1. p.type \in {"presence_data", "sensor_fault", "heartbeat"}
  BY DEF Packets
<1>2. p.type \in Types /\ RoleOk("presence", p.type) /\ BodyLen[p.type] \in 1 .. 100
  BY <1>1 DEF Types, BodyLen, RoleOk
<1>3. f = [length |-> PacketLen(p.type), magic |-> Magic, version |-> Version, type |-> p.type, role |-> "presence",
           crc |-> TRUE, body |-> p.value]
  BY <1>2 DEF Encode
<1>4. PacketLen(p.type) = 17 + BodyLen[p.type] + 2
  BY <1>2 DEF PacketLen, HeaderLen, CrcLen
<1>5. /\ f.length = PacketLen(p.type) /\ f.magic = Magic /\ f.version = Version /\ f.type = p.type
      /\ f.role = "presence" /\ f.crc = TRUE /\ f.body = p.value
  BY <1>3
<1>6. Decode(f) = "ok"
  BY <1>2, <1>4, <1>5 DEF Decode, HeaderLen, CrcLen
<1>7. ~ IsFramePiece(f)
  BY <1>1, <1>5 DEF IsFramePiece
<1> QED
  BY <1>5, <1>6, <1>7

LEMMA FlowTransmit ==
    ASSUME Inv, FlowInv, Transmit, Undisturbed, mishaps' = 0
    PROVE  Smooth' /\ Flow'
<1>1. PICK heard \in BOOLEAN, acked \in BOOLEAN :
        /\ queue # <<>> /\ (acked => heard)
        /\ IF channel = home => acked /\ Len(rx) < RxRoom THEN Fine ELSE Mishap
        /\ IF heard THEN OnReceived(Encode(role, Head(queue).packet.type, Head(queue).packet.value)) ELSE UNCHANGED rx
        /\ queue' = [queue EXCEPT ![1].result = IF acked THEN "acked" ELSE "failed"]
        /\ UNCHANGED <<role, link, channel, failures, follow, home, shown>>
  BY DEF Transmit
<1>2. channel = home /\ acked /\ heard /\ Len(rx) < RxRoom
  BY <1>1, SmoothHas DEF Smooth, Mishap
<1>3. queue # <<>> /\ Head(queue) = queue[1] /\ 1 \in DOMAIN queue /\ queue[1] \in Sent /\ InDriver # <<>>
      /\ Head(InDriver) = Head(queue).packet /\ InDriver \in Seq(Packets)
  BY <1>1, SmoothHas, InDriverType
<1>4. /\ queue' \in Seq(Sent) /\ DOMAIN queue' = DOMAIN queue /\ queue' # <<>> /\ Head(queue') = queue'[1]
      /\ \A k \in DOMAIN queue : k # 1 => queue'[k] = queue[k]
      /\ queue'[1].result = "acked" /\ queue'[1].packet = queue[1].packet
  <2>1. queue \in Seq(Sent) /\ queue' = [queue EXCEPT ![1] = [packet |-> queue[1].packet, result |-> "acked"]]
    <3>1. queue' = [queue EXCEPT ![1] = [queue[1] EXCEPT !.result = "acked"]]
      BY <1>1, <1>2
    <3>2. [queue[1] EXCEPT !.result = "acked"] = [packet |-> queue[1].packet, result |-> "acked"]
      BY <1>3 DEF Sent
    <3>3. queue \in Seq(Sent)
      BY SmoothHas
    <3> QED
      BY <3>1, <3>2, <3>3
  <2>2. [packet |-> queue[1].packet, result |-> "acked"] \in Sent
    BY <1>3 DEF Sent
  <2> QED
    BY <1>3, <2>1, <2>2
<1>5. \A k \in DOMAIN queue : queue'[k].packet = queue[k].packet
  BY <1>4
<1>6. InDriver' = InDriver
  BY <1>4, <1>5 DEF InDriver
<1>7. Smooth'
  <2>1. \A k \in DOMAIN queue' : queue'[k].result = "none" \/ (k = 1 /\ queue'[k].result = "acked")
    BY <1>4, SmoothHas DEF Smooth
  <2>2. \A k \in DOMAIN queue' : queue'[k].packet.type # "thermal_data"
    BY <1>4, <1>5, SmoothHas DEF Smooth
  <2> QED
    BY <1>1, <2>1, <2>2, SmoothHas DEF Smooth
<1> DEFINE p == queue[1].packet
<1>8. p \in Packets /\ p.type # "thermal_data"
  BY <1>3, SmoothHas DEF Smooth, Sent
<1>9. rx' = Append(rx, p)
  <2> DEFINE f == Encode("presence", p.type, p.value)
  <2>1. ~ IsFramePiece(f) /\ Decode(f) = "ok" /\ f.type = p.type /\ f.body = p.value
    BY <1>8, Decoded
  <2>2. OnReceived(f)
    BY <1>1, <1>2, <1>3, SmoothHas
  <2> HIDE DEF f
  <2>3. rx' = Append(rx, [type |-> p.type, value |-> p.value])
    <3>1. Len(rx) \in Nat /\ RxRoom \in Nat
      <4>1. rx \in Seq(Packets)
        BY SmoothHas
      <4> QED
        BY <4>1, LinkAssumption
    <3>2. ~ (Len(rx) >= RxRoom)
      BY <1>2, <3>1
    <3> QED
      BY <2>1, <2>2, <3>2 DEF OnReceived
  <2>4. [type |-> p.type, value |-> p.value] = p
    BY <1>8 DEF Packets
  <2> QED
    BY <2>3, <2>4
<1> HIDE DEF p
<1>10. PICK v \in Maybe : LatestIs(rx, shown.reading, v) /\ LatestIs(InDriver, v, link.seen)
  BY SmoothHas DEF Flow
<1> DEFINE u == IF IsReading(p) THEN p.value ELSE v
<1>11. u \in Maybe
  BY <1>8, <1>10 DEF Packets, Maybe
<1>12. LatestIs(<<p>>, v, u)
  BY <1>8, LatestOfOne
<1>13. LatestIs(rx \o <<p>>, shown.reading, u)
  <2>1. <<p>> \in Seq(Packets) /\ rx \in Seq(Packets)
    BY <1>8, SmoothHas
  <2> HIDE DEF u
  <2> QED
    BY <1>10, <1>12, <2>1, LatestJoins
<1>14. rx' = rx \o <<p>>
  BY <1>8, <1>9, SmoothHas
<1>15. Head(InDriver) = p
  BY <1>3 DEF p
<1>16. LatestIs(InDriver, u, link.seen)
  <2>1. IsReading(Head(InDriver)) \/ v = u
    BY <1>15
  <2> HIDE DEF u
  <2> QED
    BY <1>3, <1>10, <2>1, LatestHides
<1>17. Head(queue').packet = p
  BY <1>4 DEF p
<1>18. IsReading(Head(queue').packet) => u = Head(queue').packet.value
  BY <1>17
<1> HIDE DEF u
<1>19. Flow'
  BY <1>1, <1>6, <1>11, <1>13, <1>14, <1>16, <1>18 DEF Flow
<1> QED
  BY <1>7, <1>19

LEMMA FlowOnSent ==
    ASSUME Inv, FlowInv, OnSent, Undisturbed
    PROVE  Smooth' /\ Flow'
<1>1. /\ queue # <<>> /\ Head(queue) = queue[1] /\ 1 \in DOMAIN queue /\ InDriver # <<>>
      /\ Head(InDriver) = Head(queue).packet /\ InDriver \in Seq(Packets) /\ DOMAIN InDriver = DOMAIN queue
      /\ Len(InDriver) = Len(queue)
  BY SmoothHas, InDriverType DEF OnSent
<1>2. Head(queue).result = "acked"
  BY <1>1, SmoothHas DEF Smooth, OnSent
<1>3. /\ queue' = Tail(queue) /\ failures' = 0 /\ follow'.at = follow.at
      /\ UNCHANGED <<role, link, channel, home, rx, shown>>
  BY <1>2 DEF OnSent, Inv, RadioTypes, Searches
<1>4. /\ DOMAIN queue' = 1 .. Len(queue) - 1 /\ DOMAIN queue = 1 .. Len(queue) /\ Len(queue) \in Nat
      /\ \A k \in DOMAIN queue' : queue'[k] = queue[k + 1] /\ k + 1 \in DOMAIN queue /\ k + 1 # 1
      /\ queue' # <<>> => Head(queue') = queue'[1] /\ 1 \in DOMAIN queue'
  BY <1>1, <1>3, SmoothHas
<1>5. \A k \in DOMAIN queue' : queue'[k].result = "none" /\ queue'[k].packet.type # "thermal_data"
  BY <1>4, SmoothHas DEF Smooth
<1>6. Smooth'
  BY <1>3, <1>5, SmoothHas DEF Smooth
<1>7. InDriver' = Tail(InDriver)
  <2>1. InDriver' = [k \in 1 .. Len(queue) - 1 |-> queue'[k].packet]
    BY <1>4 DEF InDriver
  <2>2. \A k \in 1 .. Len(queue) - 1 : InDriver[k + 1] = queue'[k].packet /\ queue'[k].packet \in Packets
    <3>1. \A k \in DOMAIN queue : queue[k].packet \in Packets
      <4>1. \A k \in DOMAIN queue : queue[k] \in Sent
        BY SmoothHas
      <4> QED
        BY <4>1 DEF Sent
    <3> SUFFICES ASSUME NEW k \in 1 .. Len(queue) - 1
                 PROVE  InDriver[k + 1] = queue'[k].packet /\ queue'[k].packet \in Packets
      OBVIOUS
    <3>2. k + 1 \in DOMAIN queue /\ queue'[k] = queue[k + 1]
      BY <1>4
    <3>3. InDriver[k + 1] = queue[k + 1].packet
      BY <3>2 DEF InDriver
    <3> QED
      BY <3>1, <3>2, <3>3
  <2> DEFINE d == InDriver'
             s == InDriver
             e == Tail(s)
  <2>3. d \in Seq(Packets) /\ Len(d) = Len(queue) - 1 /\ \A k \in 1 .. Len(queue) - 1 : d[k] = queue'[k].packet
    BY <1>1, <1>4, <2>1, <2>2
  <2>4. s \in Seq(Packets) /\ s # <<>> /\ Len(s) = Len(queue) /\ \A k \in 1 .. Len(queue) - 1 : s[k + 1] = queue'[k].packet
    BY <1>1, <2>2
  <2> HIDE DEF d, s
  <2>5. e \in Seq(Packets) /\ Len(e) = Len(queue) - 1 /\ \A k \in 1 .. Len(queue) - 1 : e[k] = queue'[k].packet
    BY <1>4, <2>4
  <2> HIDE DEF e
  <2>6. d = e
    BY <2>3, <2>5, SeqEqual
  <2> QED
    BY <2>6 DEF d, s, e
<1>8. PICK v \in Maybe :
        /\ LatestIs(rx, shown.reading, v) /\ LatestIs(InDriver, v, link.seen)
        /\ IsReading(Head(queue).packet) => v = Head(queue).packet.value
  BY <1>1, <1>2, SmoothHas DEF Flow
<1>9. LatestIs(Tail(InDriver), v, link.seen)
  BY <1>1, <1>8, LatestTail
<1>10. queue' # <<>> => Head(queue').result # "acked"
  BY <1>4, <1>5
<1>11. Flow'
  BY <1>3, <1>7, <1>8, <1>9, <1>10 DEF Flow
<1> QED
  BY <1>6, <1>11

LEMMA FlowDrain ==
    ASSUME Inv, FlowInv, Drain, Undisturbed
    PROVE  Smooth' /\ Flow'
<1>1. rx # <<>> /\ rx' = Tail(rx) /\ shown' = Take(Head(rx))
      /\ UNCHANGED <<role, link, channel, queue, failures, follow, home>>
  BY DEF Drain
<1>2. Smooth'
  BY <1>1, SmoothHas DEF Smooth
<1>3. shown'.reading = IF IsReading(Head(rx)) THEN Head(rx).value ELSE shown.reading
  BY <1>1 DEF Take, IsReading, Inv, ControllerTypes
<1>4. PICK v \in Maybe :
        /\ LatestIs(rx, shown.reading, v) /\ LatestIs(InDriver, v, link.seen)
        /\ queue # <<>> /\ Head(queue).result = "acked" /\ IsReading(Head(queue).packet)
           => v = Head(queue).packet.value
  BY SmoothHas DEF Flow
<1>5. LatestIs(rx', shown'.reading, v)
  BY <1>1, <1>3, <1>4, SmoothHas, LatestTail
<1>6. InDriver' = InDriver
  BY <1>1 DEF InDriver
<1>7. Flow'
  BY <1>1, <1>4, <1>5, <1>6 DEF Flow
<1> QED
  BY <1>2, <1>7

LEMMA FlowStep == Inv /\ FlowInv /\ [Next]_vars => FlowInv'
<1> SUFFICES ASSUME Inv, FlowInv, [Next]_vars PROVE FlowInv'
  OBVIOUS
<1>1. mishaps \in Nat /\ (mishaps' = mishaps \/ mishaps' = mishaps + 1) /\ role' = role /\ (moved' = moved \/ moved' = TRUE)
  BY DEF FlowInv, Next, FollowTask, LinkTick, Transmit, Stray, OnSent, FollowCheck, MoveTo, ReadCounters, Probe, Found,
         GiveUp, SweepAgain, Drain, NodeRestarts, ControllerRestarts, SensorChanges, ControllerMoves, vars, Mishap, Fine
<1>2. mishaps' \in Nat
  BY <1>1
<1>3. ASSUME Undisturbed'
      PROVE  Smooth' /\ Flow'
  <2>1. Undisturbed /\ mishaps' = 0 /\ mishaps = 0 /\ mishaps' # mishaps + 1
    BY <1>1, <1>3 DEF Undisturbed
  <2>2. \/ \E dataDue, heartbeatDue \in BOOLEAN : LinkTick(dataDue, heartbeatDue)
        \/ Transmit \/ OnSent \/ Drain \/ SensorChanges \/ UNCHANGED vars
    <3>1. ~ (Stray \/ NodeRestarts \/ ControllerRestarts)
      BY <2>1 DEF Stray, NodeRestarts, ControllerRestarts, Mishap
    <3>2. ~ ControllerMoves
      BY <1>3 DEF ControllerMoves, Undisturbed
    <3>3. ~ (failures >= LostFailures) /\ follow.at = "idle"
      <4>1. failures = 0 /\ follow.at = "idle"
        BY <2>1, SmoothHas DEF Smooth
      <4> QED
        BY <4>1, LinkAssumption
    <3>4. ~ FollowTask
      BY <3>3 DEF FollowTask, FollowCheck, MoveTo, ReadCounters, Probe, Found, GiveUp, SweepAgain
    <3> QED
      BY <3>1, <3>2, <3>4 DEF Next
  <2>3. CASE SensorChanges \/ UNCHANGED vars
    <3>1. UNCHANGED <<home, channel, failures, follow, queue, link, rx, shown>>
      BY <2>3 DEF SensorChanges, vars
    <3>2. InDriver' = InDriver
      BY <3>1 DEF InDriver
    <3> QED
      BY <2>1, <3>1, <3>2, SmoothHas DEF Smooth, Flow
  <2> QED
    BY <2>1, <2>2, <2>3, FlowLinkTick, FlowTransmit, FlowOnSent, FlowDrain
<1> QED
  BY <1>2, <1>3 DEF FlowInv

\* rb_data_packet_changed (rb_node_link.c): while nothing goes wrong, what a presence
\* node saw at its last tick is the newest the controller has or will get, in
\* the order of the two queues.
THEOREM NewestOnItsWay == Spec => []SeenIsOnItsWay
<1>1. Inv /\ FlowInv => SeenIsOnItsWay
  <2> SUFFICES ASSUME Inv, FlowInv, Undisturbed PROVE NewestIs(link.seen)
    BY DEF SeenIsOnItsWay, Undisturbed
  <2>1. PICK v \in Maybe : LatestIs(rx, shown.reading, v) /\ LatestIs(InDriver, v, link.seen)
    BY SmoothHas DEF Flow
  <2> QED
    BY <2>1, SmoothHas, InDriverType, LatestJoins DEF NewestIs
<1> QED
  BY <1>1, InvInit, InvStep, FlowInit, FlowStep, PTL DEF Spec

-----------------------------------------------------------------------------
(***************************************************************************)
(* One node's slot on the controller (SensorNode.tla).                      *)
(***************************************************************************)
HIDE LinkAssumption
USE HealthAssumption, RadioAssumption

LEMMA OlderBounds ==
    ASSUME NEW cap \in Nat, NEW age \in 0..cap
    PROVE  Older(age, cap) \in 0..cap /\ Older(age, cap) <= age + 1
BY DEF Older

\* What taking a packet leaves of the slot, field by field.
LEMMA AcceptType ==
    ASSUME NodeTypeOK, NEW p \in air
    PROVE  /\ Accept(p) \in Slot
           /\ p.kind = "other" => /\ Accept(p).has_data = slot.has_data
                                  /\ Accept(p).data_age = slot.data_age
<1>1. p \in Packet /\ slot \in Slot
  BY DEF NodeTypeOK
<1>2. 0 \in 0..SilentMax /\ 0 \in 0..Stale
  BY DEF SilentMax
<1> DEFINE s == [slot EXCEPT !.seen = TRUE, !.last_sequence = p.sequence,
                             !.last_uptime = p.uptime, !.silent = 0]
<1>3. s \in Slot /\ s.has_data = slot.has_data /\ s.data_age = slot.data_age
  BY <1>1, <1>2 DEF Slot, Packet
<1> HIDE DEF s
<1>4. (p.kind = "data") \in BOOLEAN
  OBVIOUS
<1>5. Store(s, p) \in Slot
  BY <1>2, <1>3, <1>4 DEF Store, Slot
<1>6. Accept(p) = Store(s, p)
  BY DEF Accept, s
<1> QED
  BY <1>3, <1>5, <1>6 DEF Store

LEMMA TypeInit == NodeInit => NodeTypeOK
<1> SUFFICES ASSUME NodeInit PROVE NodeTypeOK
  OBVIOUS
<1>1. 0 \in 0..SilentMax /\ 0 \in 0..Stale /\ 0 \in 0..HeardMax /\ 0 \in 0..ReadingMax /\ 0 \in 0..BootTime
  BY DEF SilentMax, HeardMax, ReadingMax
<1>2. FreshSlot \in Slot
  BY <1>1 DEF FreshSlot, Slot
<1> QED
  BY <1>1, <1>2 DEF NodeInit, NodeTypeOK, Truth

LEMMA TypeStep == NodeTypeOK /\ [NodeNext]_nvars => NodeTypeOK'
<1> SUFFICES ASSUME NodeTypeOK, [NodeNext]_nvars PROVE NodeTypeOK'
  OBVIOUS
<1>1. ASSUME NEW kind \in Kinds, Send(kind) PROVE NodeTypeOK'
  <2> DEFINE p == [kind |-> kind, uptime |-> node.uptime, sequence |-> node.sequence + 1, age |-> 0]
  <2>1. p \in Packet
    BY DEF NodeTypeOK, Packet
  <2>2. air' = air \/ air' = air \cup {p}
    BY <1>1 DEF Send
  <2> HIDE DEF p
  <2>3. air' \subseteq Packet
    BY <2>1, <2>2 DEF NodeTypeOK
  <2>4. node' \in [booting : 0..BootTime, uptime : Nat, sequence : Nat]
    BY <1>1 DEF Send, NodeTypeOK
  <2> QED
    BY <1>1, <2>3, <2>4 DEF Send, NodeTypeOK
<1>2. ASSUME NEW p \in air, Deliver(p) PROVE NodeTypeOK'
  <2>1. node' = node /\ air' \subseteq Packet
    BY <1>2 DEF Deliver, NodeTypeOK
  <2>2. CASE Classify(p) \in Accepted
    <3>1. slot' \in Slot
      BY <1>2, <2>2, AcceptType DEF Deliver, OnPacket
    <3>2. p.age \in 0..HeardMax /\ p.age \in 0..ReadingMax
      BY DEF NodeTypeOK, Packet, HeardMax, ReadingMax
    <3>3. truth.reading \in 0..ReadingMax
      BY DEF NodeTypeOK, Truth
    <3>4. truth' = [heard |-> p.age,
                    reading |-> IF p.kind = "other" THEN truth.reading ELSE p.age]
      BY <1>2, <2>2 DEF Deliver, OnPacket
    <3>5. truth' \in Truth
      BY <3>2, <3>3, <3>4 DEF Truth
    <3> QED
      BY <2>1, <3>1, <3>5 DEF NodeTypeOK
  <2>3. CASE Classify(p) \notin Accepted
    BY <1>2, <2>1, <2>3 DEF Deliver, OnPacket, NodeTypeOK
  <2> QED
    BY <2>2, <2>3
<1>3. CASE NodeReboot
  BY <1>3 DEF NodeReboot, NodeTypeOK
<1>4. CASE ControllerReboot
  <2>1. 0 \in 0..SilentMax /\ 0 \in 0..Stale /\ 0 \in 0..HeardMax /\ 0 \in 0..ReadingMax
    BY DEF SilentMax, HeardMax, ReadingMax
  <2>2. slot' \in Slot
    BY <1>4, <2>1 DEF ControllerReboot, FreshSlot, Slot
  <2>3. truth' \in Truth
    BY <1>4, <2>1 DEF ControllerReboot, Truth
  <2> QED
    BY <1>4, <2>2, <2>3 DEF ControllerReboot, NodeTypeOK
<1>5. CASE Tick
  <2>1. air' \subseteq Packet
    <3> SUFFICES ASSUME NEW q \in air' PROVE q \in Packet
      OBVIOUS
    <3>1. PICK p \in air : q = [p EXCEPT !.age = @ + 1]
      BY <1>5 DEF Tick
    <3>2. p \in Packet /\ p.age < MaxDelay
      BY <1>5 DEF Tick, NodeTypeOK
    <3> QED
      BY <3>1, <3>2 DEF Packet
  <2>2. node' \in [booting : 0..BootTime, uptime : Nat, sequence : Nat]
    <3>1. (node.uptime + 1) % UptimeWrap \in Nat
      BY DEF NodeTypeOK
    <3>2. node.booting > 0 => node.booting - 1 \in 0..BootTime
      BY DEF NodeTypeOK
    <3> QED
      BY <1>5, <3>1, <3>2 DEF Tick, NodeTypeOK
  <2>3. /\ Older(slot.silent, SilentMax) \in 0..SilentMax
        /\ Older(slot.data_age, Stale) \in 0..Stale
    BY OlderBounds DEF NodeTypeOK, Slot, SilentMax
  <2>4. slot' \in Slot
    BY <1>5, <2>3 DEF Tick, NodeTypeOK, Slot
  <2>5. /\ Older(truth.heard, HeardMax) \in 0..HeardMax
        /\ Older(truth.reading, ReadingMax) \in 0..ReadingMax
    <3>1. HeardMax \in Nat /\ ReadingMax \in Nat
      BY DEF HeardMax, ReadingMax
    <3>2. truth.heard \in 0..HeardMax /\ truth.reading \in 0..ReadingMax
      BY DEF NodeTypeOK, Truth
    <3> QED
      BY <3>1, <3>2, OlderBounds
  <2>6. truth' \in Truth
    BY <1>5, <2>5 DEF Tick, Truth
  <2> QED
    BY <2>1, <2>2, <2>4, <2>6 DEF NodeTypeOK
<1>6. CASE UNCHANGED nvars
  BY <1>6 DEF nvars, NodeTypeOK
<1> QED
  BY <1>1, <1>2, <1>3, <1>4, <1>5, <1>6 DEF NodeNext

\* The slot of a node, its packets in the air and the history keep their types
\* for every setting of the link's health (sensor_node_state_t).
THEOREM SlotTypes == NodeSpec => []NodeTypeOK
<1> QED
  BY TypeInit, TypeStep, PTL DEF NodeSpec

-----------------------------------------------------------------------------
(* The reading in the slot is at most a delay older than the slot knows. *)

ReadingInv ==
    slot.has_data /\ slot.data_age < Stale => truth.reading <= slot.data_age + MaxDelay

LEMMA ReadingStep == NodeTypeOK /\ ReadingInv /\ [NodeNext]_nvars => ReadingInv'
<1> SUFFICES ASSUME NodeTypeOK, ReadingInv, [NodeNext]_nvars PROVE ReadingInv'
  OBVIOUS
<1>1. CASE UNCHANGED <<slot, truth>>
  BY <1>1 DEF ReadingInv
<1>2. ASSUME NEW p \in air, Deliver(p), Classify(p) \in Accepted PROVE ReadingInv'
  <2>1. slot' = Accept(p) /\ truth'.reading = IF p.kind = "other" THEN truth.reading ELSE p.age
    BY <1>2 DEF Deliver, OnPacket
  <2>2. CASE p.kind = "other"
    BY <2>1, <2>2, AcceptType DEF ReadingInv
  <2>3. CASE p.kind # "other"
    <3>1. p.age \in 0..MaxDelay
      BY DEF NodeTypeOK, Packet
    <3>2. slot \in Slot
      BY DEF NodeTypeOK
    <3>3. Accept(p).data_age = 0
      BY <2>3, <3>2 DEF Accept, Store, Slot
    <3> QED
      BY <2>1, <2>3, <3>1, <3>3 DEF ReadingInv
  <2> QED
    BY <2>2, <2>3
<1>3. CASE ControllerReboot
  BY <1>3 DEF ControllerReboot, FreshSlot, ReadingInv
<1>4. CASE Tick
  <2>1. /\ slot'.has_data = slot.has_data
        /\ slot'.data_age = Older(slot.data_age, Stale)
        /\ truth'.reading = Older(truth.reading, ReadingMax)
    BY <1>4 DEF Tick, NodeTypeOK, Slot
  <2>2. slot.data_age \in 0..Stale /\ truth.reading \in 0..ReadingMax /\ ReadingMax \in Nat
    BY DEF NodeTypeOK, Slot, Truth, ReadingMax
  <2>3. slot'.data_age < Stale => slot.data_age < Stale /\ slot'.data_age = slot.data_age + 1
    BY <2>1, <2>2 DEF Older
  <2>4. truth'.reading <= truth.reading + 1
    BY <2>1, <2>2, OlderBounds
  <2>5. truth'.reading \in Nat
    BY <2>1, <2>2 DEF Older
  <2> QED
    BY <2>1, <2>2, <2>3, <2>4, <2>5 DEF ReadingInv
<1>5. ASSUME NEW kind \in Kinds, Send(kind) PROVE UNCHANGED <<slot, truth>>
  BY <1>5 DEF Send
<1>6. NodeReboot => UNCHANGED <<slot, truth>>
  BY DEF NodeReboot
<1>7. ASSUME NEW p \in air, Deliver(p), Classify(p) \notin Accepted PROVE UNCHANGED <<slot, truth>>
  BY <1>7 DEF Deliver, OnPacket
<1> QED
  BY <1>1, <1>2, <1>3, <1>4, <1>5, <1>6, <1>7 DEF NodeNext, nvars

\* Whatever the radio repeats, reorders or loses, and however many heartbeats
\* keep the node ONLINE, a reading the safety task uses is younger than the
\* stale time and the longest delay together (sensor_node_evaluate).
THEOREM ReadingsAreFresh == NodeSpec => []UsedIsFresh
<1>1. NodeInit => ReadingInv
  BY DEF NodeInit, FreshSlot, ReadingInv
<1>2. NodeTypeOK /\ ReadingInv => UsedIsFresh
  <2> SUFFICES ASSUME NodeTypeOK, ReadingInv, SensorOk PROVE truth.reading < Stale + MaxDelay
    BY DEF UsedIsFresh
  <2>1. slot.has_data /\ slot.data_age < Stale
    BY DEF SensorOk
  <2>2. slot.data_age \in Nat /\ truth.reading \in Nat
    BY DEF NodeTypeOK, Slot, Truth
  <2> QED
    BY <2>1, <2>2 DEF ReadingInv
<1> QED
  BY <1>1, <1>2, SlotTypes, ReadingStep, PTL DEF NodeSpec

-----------------------------------------------------------------------------
(***************************************************************************)
(* Order.  All packets in the air are of one life of the node, because a      *)
(* reboot takes longer than a delay; the packet the slot holds is of that     *)
(* life, and then uptime and age say how the two lie, or of an earlier one.   *)
(***************************************************************************)
OnItsWay(p) == p.uptime + p.age

AirInv ==
    /\ node.uptime <= MaxUptime
    /\ \A p \in air : p.uptime <= MaxUptime
    /\ node.booting = 0 => \A p \in air : OnItsWay(p) = node.uptime /\ p.sequence <= node.sequence
    /\ node.booting > 0 => node.uptime = 0 /\ \A p \in air : p.age + node.booting >= BootTime
    /\ \A p, q \in air : OnItsWay(p) = OnItsWay(q) /\ (p.sequence < q.sequence => q.age <= p.age)

\* The packet in the slot is of the life the air holds packets of.
SameLife ==
    /\ \A p \in air : /\ OnItsWay(p) = slot.last_uptime + truth.heard
                      /\ p.sequence > slot.last_sequence => p.age <= truth.heard
    /\ node.booting = 0 => /\ slot.last_uptime + truth.heard = node.uptime
                           /\ slot.last_sequence <= node.sequence

EarlierLife ==
    /\ \A p \in air : truth.heard > OnItsWay(p)
    /\ node.booting = 0 => truth.heard > node.uptime

OrderInv == AirInv /\ (slot.seen => SameLife \/ EarlierLife)

\* What taking a packet changes of the slot's bookkeeping.
LEMMA AcceptFields ==
    ASSUME NodeTypeOK, NEW p \in air
    PROVE  /\ Accept(p).seen = TRUE
           /\ Accept(p).last_sequence = p.sequence
           /\ Accept(p).last_uptime = p.uptime
BY DEF Accept, Store, NodeTypeOK, Slot

\* A packet that is accepted after one of its own life was sent after it.
LEMMA AcceptedInOrder ==
    ASSUME NodeTypeOK, OrderInv, MaxUptime + Margin < UptimeWrap,
           NEW p \in air, slot.seen, Classify(p) \in Accepted
    PROVE  /\ p.age <= truth.heard
           /\ p.uptime < slot.last_uptime => truth.heard > OnItsWay(p)
<1>1. /\ p.uptime \in Nat /\ p.sequence \in Nat /\ p.age \in 0..MaxDelay
      /\ slot.last_uptime \in Nat /\ slot.last_sequence \in Nat /\ truth.heard \in Nat
  BY DEF NodeTypeOK, Packet, Slot, Truth
<1>2. p.uptime <= MaxUptime
  BY DEF OrderInv, AirInv
<1>3. (p.uptime + Margin) % UptimeWrap = p.uptime + Margin
  BY <1>1, <1>2
<1>4. CASE EarlierLife
  BY <1>1, <1>4 DEF EarlierLife, OnItsWay
<1>5. CASE SameLife
  <2>1. p.uptime + p.age = slot.last_uptime + truth.heard
    BY <1>5 DEF SameLife, OnItsWay
  <2>2. ~Rebooted(p)
    BY <1>1, <1>3, <2>1 DEF Rebooted
  <2>3. p.sequence > slot.last_sequence
    BY <1>1, <2>2 DEF Classify, Accepted, Late
  <2>4. p.age <= truth.heard
    BY <1>5, <2>3 DEF SameLife
  <2> QED
    BY <1>1, <2>1, <2>4
<1> QED
  BY <1>4, <1>5 DEF OrderInv

LEMMA OrderInit == NodeInit => OrderInv
BY DEF NodeInit, FreshSlot, OrderInv, AirInv

LEMMA OrderStep ==
    ASSUME NodeTypeOK, OrderInv, [NodeNext]_nvars, MaxUptime + Margin < UptimeWrap
    PROVE  OrderInv'
<1> USE DEF OnItsWay
<1>1. /\ node.booting \in 0..BootTime /\ node.uptime \in Nat /\ node.sequence \in Nat
      /\ slot.last_uptime \in Nat /\ slot.last_sequence \in Nat /\ slot.seen \in BOOLEAN
      /\ truth.heard \in 0..HeardMax /\ HeardMax \in Nat
  BY DEF NodeTypeOK, Slot, Truth, HeardMax
<1>2. \A p \in air : p.uptime \in Nat /\ p.sequence \in Nat /\ p.age \in 0..MaxDelay
  BY DEF NodeTypeOK, Packet
<1>3. ASSUME NEW kind \in Kinds, Send(kind) PROVE OrderInv'
  <2> DEFINE new == [kind |-> kind, uptime |-> node.uptime, sequence |-> node.sequence + 1, age |-> 0]
  <2>1. /\ node.booting = 0 /\ node' = [node EXCEPT !.sequence = @ + 1]
        /\ air' = air \/ air' = air \cup {new}
        /\ slot' = slot /\ truth' = truth
    BY <1>3 DEF Send
  <2>2. node'.booting = 0 /\ node'.uptime = node.uptime /\ node'.sequence = node.sequence + 1
    BY <2>1 DEF NodeTypeOK
  <2>3. new.uptime = node.uptime /\ new.sequence = node.sequence + 1 /\ new.age = 0
    OBVIOUS
  <2> HIDE DEF new
  <2>4. \A p \in air' : p \in air \/ p = new
    BY <2>1
  <2>5. AirInv'
    BY <1>1, <1>2, <2>1, <2>2, <2>3, <2>4 DEF OrderInv, AirInv
  <2>6. SameLife => SameLife'
    BY <1>1, <1>2, <2>1, <2>2, <2>3, <2>4 DEF SameLife
  <2>7. EarlierLife => EarlierLife'
    BY <1>1, <1>2, <2>1, <2>2, <2>3, <2>4 DEF EarlierLife
  <2> QED
    BY <2>1, <2>5, <2>6, <2>7 DEF OrderInv
<1>4. ASSUME NEW p \in air, Deliver(p) PROVE OrderInv'
  <2>1. node' = node /\ air' \subseteq air
    BY <1>4 DEF Deliver
  <2>2. AirInv'
    BY <2>1 DEF OrderInv, AirInv
  <2>3. CASE Classify(p) \in Accepted
    <3>1. slot' = Accept(p) /\ truth'.heard = p.age
      BY <1>4, <2>3 DEF Deliver, OnPacket
    <3>2. slot'.last_sequence = p.sequence /\ slot'.last_uptime = p.uptime
      BY <3>1, AcceptFields
    <3>3. SameLife'
      BY <1>1, <1>2, <2>1, <3>1, <3>2 DEF SameLife, OrderInv, AirInv
    <3> QED
      BY <2>2, <3>3 DEF OrderInv
  <2>4. CASE Classify(p) \notin Accepted
    <3>1. slot' = slot /\ truth' = truth
      BY <1>4, <2>4 DEF Deliver, OnPacket
    <3>2. (SameLife => SameLife') /\ (EarlierLife => EarlierLife')
      BY <2>1, <3>1 DEF SameLife, EarlierLife
    <3> QED
      BY <2>2, <3>1, <3>2 DEF OrderInv
  <2> QED
    BY <2>3, <2>4
<1>5. CASE NodeReboot
  <2>1. /\ node'.booting = BootTime /\ node'.uptime = 0 /\ node'.sequence = 0
        /\ air' = air /\ slot' = slot /\ truth' = truth
    BY <1>5 DEF NodeReboot
  <2>2. AirInv'
    BY <1>2, <2>1 DEF OrderInv, AirInv
  <2>3. (SameLife => SameLife') /\ (EarlierLife => EarlierLife')
    BY <2>1 DEF SameLife, EarlierLife
  <2> QED
    BY <2>1, <2>2, <2>3 DEF OrderInv
<1>6. CASE ControllerReboot
  BY <1>6 DEF ControllerReboot, FreshSlot, OrderInv, AirInv
<1>7. CASE Tick
  <2>1. /\ \A p \in air : p.age < MaxDelay
        /\ node.uptime < MaxUptime
        /\ slot'.seen = slot.seen
        /\ slot'.last_uptime = slot.last_uptime
        /\ slot'.last_sequence = slot.last_sequence
        /\ truth'.heard = Older(truth.heard, HeardMax)
    BY <1>7 DEF Tick, NodeTypeOK, Slot
  <2>2. \A q \in air' : \E p \in air :
           q.uptime = p.uptime /\ q.sequence = p.sequence /\ q.age = p.age + 1
    BY <1>7 DEF Tick, NodeTypeOK, Packet
  <2>3. CASE node.booting = 0
    <3>1. (node.uptime + 1) % UptimeWrap = node.uptime + 1
      BY <1>1, <2>1
    <3>2. node'.booting = 0 /\ node'.uptime = node.uptime + 1 /\ node'.sequence = node.sequence
      BY <1>7, <2>3, <3>1 DEF Tick, NodeTypeOK
    <3>3. AirInv'
      BY <1>1, <1>2, <2>1, <2>2, <2>3, <3>2 DEF OrderInv, AirInv
    <3>4. SameLife => SameLife'
      <4> SUFFICES ASSUME SameLife PROVE SameLife'
        OBVIOUS
      <4>1. truth.heard <= node.uptime
        BY <1>1, <2>3 DEF SameLife
      <4>2. truth'.heard = truth.heard + 1
        BY <1>1, <2>1, <4>1 DEF Older, HeardMax
      <4> QED
        BY <1>1, <1>2, <2>1, <2>2, <2>3, <3>2, <4>2 DEF SameLife
    <3>5. EarlierLife => EarlierLife'
      <4> SUFFICES ASSUME EarlierLife PROVE EarlierLife'
        OBVIOUS
      <4>1. truth'.heard > node.uptime + 1
        BY <1>1, <2>1, <2>3 DEF EarlierLife, Older, HeardMax
      <4>2. \A q \in air' : q.uptime + q.age = node.uptime + 1
        BY <3>2, <3>3 DEF AirInv
      <4> QED
        BY <3>2, <4>1, <4>2 DEF EarlierLife
    <3> QED
      BY <2>1, <3>3, <3>4, <3>5 DEF OrderInv
  <2>4. CASE node.booting > 0
    <3>1. /\ node'.booting = node.booting - 1 /\ node'.uptime = node.uptime
          /\ node'.sequence = node.sequence
      BY <1>7, <2>4 DEF Tick, NodeTypeOK
    <3>2. node.booting = 1 => air' = {}
      <4>1. node.booting = 1 => air = {}
        BY <1>1, <1>2, <2>1, <2>4 DEF OrderInv, AirInv
      <4> QED
        BY <2>2, <4>1
    <3>3. AirInv'
      <4>1. AirInv
        BY DEF OrderInv
      <4>2. node'.uptime = 0 /\ node'.uptime <= MaxUptime
        BY <2>4, <3>1, <4>1 DEF AirInv
      <4>3. \A q \in air' : q.uptime <= MaxUptime
        BY <2>2, <4>1 DEF AirInv
      <4>4. node'.booting = 0 => air' = {}
        BY <1>1, <3>1, <3>2
      <4>5. \A q \in air' : q.age + node'.booting >= BootTime
        BY <1>1, <1>2, <2>2, <2>4, <3>1, <4>1 DEF AirInv
      <4>6. \A q, r \in air' : OnItsWay(q) = OnItsWay(r) /\ (q.sequence < r.sequence => r.age <= q.age)
        BY <1>2, <2>2, <4>1 DEF AirInv
      <4> QED
        BY <4>2, <4>3, <4>4, <4>5, <4>6 DEF AirInv
    <3>4. node.booting = 1 => EarlierLife'
      <4>1. truth'.heard > 0
        BY <1>1, <2>1 DEF Older, HeardMax
      <4>2. node'.uptime = 0
        BY <2>4, <3>1 DEF OrderInv, AirInv
      <4> QED
        BY <3>2, <4>1, <4>2 DEF EarlierLife
    <3>5. SameLife /\ node.booting > 1 => SameLife'
      <4> SUFFICES ASSUME SameLife, node.booting > 1 PROVE SameLife'
        OBVIOUS
      <4>1. ASSUME NEW p \in air PROVE truth.heard < HeardMax
        BY <1>1, <1>2, <2>1, <4>1 DEF SameLife, OrderInv, AirInv, HeardMax
      <4>2. ASSUME NEW p \in air PROVE truth'.heard = truth.heard + 1
        BY <2>1, <4>1, <4>2 DEF Older
      <4> QED
        BY <1>1, <1>2, <2>1, <2>2, <3>1, <4>2 DEF SameLife
    <3>6. EarlierLife /\ node.booting > 1 => EarlierLife'
      <4> SUFFICES ASSUME EarlierLife, node.booting > 1 PROVE EarlierLife'
        OBVIOUS
      <4>1. ASSUME NEW p \in air PROVE truth'.heard > p.uptime + p.age + 1
        BY <1>1, <1>2, <2>1, <4>1 DEF EarlierLife, OrderInv, AirInv, Older, HeardMax
      <4> QED
        BY <1>1, <1>2, <2>2, <3>1, <4>1 DEF EarlierLife
    <3> QED
      BY <1>1, <2>1, <2>4, <3>3, <3>4, <3>5, <3>6 DEF OrderInv
  <2> QED
    BY <1>1, <2>3, <2>4
<1>8. CASE UNCHANGED nvars
  BY <1>8 DEF nvars, OrderInv, AirInv, SameLife, EarlierLife
<1> QED
  BY <1>3, <1>4, <1>5, <1>6, <1>7, <1>8 DEF NodeNext

LEMMA OrderKept ==
    ASSUME MaxUptime + Margin < UptimeWrap
    PROVE  NodeSpec => [](NodeTypeOK /\ OrderInv)
<1>1. NodeTypeOK /\ OrderInv /\ [NodeNext]_nvars => (NodeTypeOK /\ OrderInv)'
  BY TypeStep, OrderStep
<1> QED
  BY TypeInit, OrderInit, <1>1, PTL DEF NodeSpec

\* While no life of the node comes within the margin of the wrap of its uptime,
\* no packet replaces one the node sent after it (sensor_node_on_packet): the
\* restart rule and the sequence together sort every delay, repeat and reboot.
THEOREM NoOlderReplaces ==
    ASSUME MaxUptime + Margin < UptimeWrap
    PROVE  NodeSpec => NeverBackwards
<1>1. ASSUME NodeTypeOK, OrderInv, [NodeNext]_nvars,
             NEW p \in air, Deliver(p), slot.seen, slot' # slot
      PROVE  p.age <= truth.heard
  <2>1. Classify(p) \in Accepted
    BY <1>1 DEF Deliver, OnPacket
  <2> QED
    BY <1>1, <2>1, AcceptedInOrder
<1>2. NodeTypeOK /\ OrderInv /\ [NodeNext]_nvars =>
        [\A p \in air : Deliver(p) /\ slot.seen /\ slot' # slot => p.age <= truth.heard]_nvars
  BY <1>1
<1> QED
  BY OrderKept, <1>2, PTL DEF NodeSpec, NeverBackwards

\* Under the same bound, the uptime the controller holds falls only at a packet
\* of a later life: a restart it reports is one the node made.
THEOREM RestartsAreReal ==
    ASSUME MaxUptime + Margin < UptimeWrap
    PROVE  NodeSpec => RestartIsReal
<1>1. ASSUME NodeTypeOK, OrderInv,
             NEW p \in air, Deliver(p), slot.seen, slot'.last_uptime < slot.last_uptime
      PROVE  truth.heard > p.age + p.uptime
  <2>1. slot.last_uptime \in Nat /\ p.uptime \in Nat /\ p.age \in 0..MaxDelay /\ truth.heard \in Nat
    BY <1>1 DEF NodeTypeOK, Slot, Truth, Packet
  <2>2. Classify(p) \in Accepted /\ slot' = Accept(p)
    BY <1>1, <2>1 DEF Deliver, OnPacket
  <2>3. p.uptime < slot.last_uptime
    BY <1>1, <2>2, AcceptFields
  <2> QED
    BY <1>1, <2>1, <2>2, <2>3, AcceptedInOrder DEF OnItsWay
<1>2. NodeTypeOK /\ OrderInv /\ [NodeNext]_nvars =>
        [\A p \in air : Deliver(p) /\ slot.seen /\ slot'.last_uptime < slot.last_uptime =>
            truth.heard > p.age + p.uptime]_nvars
  BY <1>1
<1> QED
  BY OrderKept, <1>2, PTL DEF NodeSpec, RestartIsReal
=============================================================================
