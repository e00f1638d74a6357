--------------------------- MODULE TelemetryProofs ---------------------------
(***************************************************************************)
(* Proofs about the road from the safety task to the dashboard, for queues   *)
(* and outboxes of any size and any number of changes and mishaps: an alert  *)
(* is lost only where the loss is counted or where it waited for 30 s in the *)
(* outbox, and an episode has one incident.                                  *)
(***************************************************************************)
EXTENDS Telemetry, TLAPS

USE RoomAssumption

States == {"calm", "unattended", "warning", "shutdown", "fault"}
Faults == {"overflow"}
Conns == {"none", "down", "up"}
Topics == {"telemetry", "state_telemetry", "event", "faults"}

Devices ==
    [ boot : {"none", "older", "current"}, state : States \cup {"unknown"}, faults : SUBSET Faults,
      incident : [episode : Nat, peak : Nat], ended : SUBSET Nat ]
Messages ==
    [ kind : {"telemetry", "event", "faults"}, topic : Topics, state : States, episode : Nat,
      faults : SUBSET Faults, late : BOOLEAN, id : Nat, fault : Faults \cup {"none"},
      routine : BOOLEAN ]
Waiting == [message : Messages, old : BOOLEAN, expired : BOOLEAN]
Lines ==
    [ outbox : Seq(Waiting), device : Devices, conn : Conns, done : SUBSET Nat,
      flagged : BOOLEAN, merged : BOOLEAN ]

\* The states of Telemetry.tla.
LEMMA StatesAre ==
    /\ DOMAIN Moves = States
    /\ Active = {"unattended", "warning", "shutdown"}
    /\ \A s \in Active : Rank[s] \in 1..3
    /\ \A s \in States : Moves[s] \subseteq States
    /\ NoIncident \in [episode : Nat, peak : Nat]
    /\ NoIncident.episode = 0 /\ NoIncident.peak = 0
  <1>1. DOMAIN Moves = States
    BY DEF Moves, States
  <1>2. Active = {"unattended", "warning", "shutdown"}
    BY DEF Active, Rank
  <1>3. \A s \in Active : Rank[s] \in 1..3
    BY <1>2 DEF Rank
  <1>4. \A s \in States : Moves[s] \subseteq States
    BY DEF Moves, States
  <1> QED
    BY <1>1, <1>2, <1>3, <1>4 DEF NoIncident

-----------------------------------------------------------------------------
(* What a message makes of the dashboard's device. *)

\* The open incident, if there is one.
Open(d) == IF d.incident = NoIncident THEN {} ELSE {d.incident.episode}

LEMMA Closes ==
    ASSUME NEW d \in Devices
    PROVE  LET c == Close(d)
           IN  /\ c \in Devices /\ c.boot = d.boot /\ c.incident = NoIncident
               /\ c.ended = d.ended \cup Open(d)
  <1>1. CASE d.incident = NoIncident
    BY <1>1 DEF Close, Open
  <1>2. CASE d.incident # NoIncident
    BY <1>2, StatesAre DEF Close, Open, Devices
  <1> QED
    BY <1>1, <1>2

LEMMA Tracks ==
    ASSUME NEW d \in Devices
    PROVE  LET t == TrackBoot(d)
           IN  /\ t \in Devices /\ t.boot = "current"
               /\ d.boot = "older" => t.incident = NoIncident /\ t.ended = d.ended \cup Open(d)
               /\ d.boot # "older" => t.incident = d.incident /\ t.ended = d.ended
  <1>1. CASE d.boot = "current"
    BY <1>1 DEF TrackBoot
  <1>2. CASE d.boot = "older"
    <2>1. TrackBoot(d) = [Close(d) EXCEPT !.boot = "current"]
      BY <1>2 DEF TrackBoot
    <2> QED
      BY <1>2, <2>1, Closes DEF Devices
  <1>3. CASE d.boot \notin {"current", "older"}
    <2>1. TrackBoot(d) = [d EXCEPT !.boot = "current"]
      BY <1>3 DEF TrackBoot
    <2> QED
      BY <1>3, <2>1 DEF Devices
  <1> QED
    BY <1>1, <1>2, <1>3

LEMMA Records ==
    ASSUME NEW d \in Devices, NEW s \in States, NEW e \in Nat
    PROVE  LET n == RecordState(d, s, e)
           IN  /\ n \in Devices /\ n.boot = d.boot
               /\ s \in Active => /\ n.incident.peak >= 1 /\ n.ended = d.ended
                                    /\ n.incident.episode = IF d.incident = NoIncident THEN e
                                                            ELSE d.incident.episode
               /\ s = "fault" => n = d
               /\ s = "calm" => n.incident = NoIncident /\ n.ended = d.ended \cup Open(d)
  <1>1. CASE s \in Active
    <2> DEFINE i == [episode |-> IF d.incident = NoIncident THEN e ELSE d.incident.episode,
                     peak |-> Higher(Rank[s], d.incident.peak)]
    <2>1. RecordState(d, s, e) = [d EXCEPT !.incident = i]
      BY <1>1 DEF RecordState
    <2>2. d.incident \in [episode : Nat, peak : Nat]
      BY DEF Devices
    <2>3. Rank[s] \in 1..3
      BY <1>1, StatesAre
    <2>4. i \in [episode : Nat, peak : Nat] /\ i.peak >= 1
      BY <2>2, <2>3 DEF Higher
    <2>5. s \notin {"fault", "calm"}
      BY <1>1, StatesAre
    <2> QED
      BY <2>1, <2>4, <2>5 DEF Devices
  <1>2. CASE s = "fault"
    <2>1. RecordState(d, s, e) = d
      BY <1>2, StatesAre DEF RecordState
    <2> QED
      BY <1>2, <2>1, StatesAre
  <1>3. CASE s = "calm"
    <2>1. RecordState(d, s, e) = Close(d)
      BY <1>3, StatesAre DEF RecordState
    <2> QED
      BY <1>3, <2>1, StatesAre, Closes
  <1> QED
    BY <1>1, <1>2, <1>3, StatesAre DEF States

\* A message that an earlier boot or a newer message of this one makes history
\* changes nothing but the boot; telemetry that counts is recorded.
LEMMA Persists ==
    ASSUME NEW d \in Devices, NEW m \in Messages, NEW old \in BOOLEAN
    PROVE  LET t == TrackBoot(d)
               n == Persist(d, m, old)
           IN  /\ n \in Devices /\ n.boot = "current"
               /\ \/ n.incident = t.incident /\ n.ended = t.ended
                  \/ /\ ~(d.boot = "current" /\ old) /\ m.state \in Active
                     /\ n.incident.peak >= 1 /\ n.ended = t.ended
                     /\ n.incident.episode = IF t.incident = NoIncident THEN m.episode
                                             ELSE t.incident.episode
                  \/ /\ ~(d.boot = "current" /\ old) /\ m.state = "calm"
                     /\ n.incident = NoIncident /\ n.ended = t.ended \cup Open(t)
  <1> DEFINE t == TrackBoot(d)
             live == Order(d, old) = "live"
             told == [t EXCEPT !.state = m.state, !.faults = m.faults]
  <1>1. t \in Devices /\ t.boot = "current"
    BY Tracks
  <1>2. live <=> ~(d.boot = "current" /\ old)
    BY DEF Order
  <1>3. m.state \in States /\ m.episode \in Nat /\ m.faults \subseteq Faults
    BY DEF Messages
  <1> HIDE DEF t, live
  <1>4. /\ told \in Devices /\ told.boot = t.boot /\ told.incident = t.incident
        /\ told.ended = t.ended /\ Open(told) = Open(t)
    BY <1>1, <1>3 DEF Devices, Open
  <1>5. [t EXCEPT !.faults = m.faults] \in Devices
    BY <1>1, <1>3 DEF Devices
  <1> HIDE DEF told
  <1>6. CASE m.kind = "telemetry" /\ live /\ ~ m.late
    <2>1. Persist(d, m, old) = RecordState(told, m.state, m.episode)
      BY <1>6 DEF Persist, t, live, told
    <2>2. CASE m.state \in Active
      BY <1>1, <1>2, <1>3, <1>4, <1>6, <2>1, <2>2, Records DEF t
    <2>3. CASE m.state = "calm"
      BY <1>1, <1>2, <1>3, <1>4, <1>6, <2>1, <2>3, Records DEF t
    <2>4. CASE m.state = "fault"
      BY <1>1, <1>2, <1>3, <1>4, <1>6, <2>1, <2>4, Records DEF t
    <2> QED
      BY <1>3, <2>2, <2>3, <2>4, StatesAre DEF States
  <1>7. CASE m.kind = "faults" /\ live /\ ~ m.late
    <2>1. Persist(d, m, old) = [t EXCEPT !.faults = m.faults]
      BY <1>7 DEF Persist, t, live
    <2>2. [t EXCEPT !.faults = m.faults].boot = t.boot
          /\ [t EXCEPT !.faults = m.faults].incident = t.incident
          /\ [t EXCEPT !.faults = m.faults].ended = t.ended
      BY <1>1 DEF Devices
    <2> QED
      BY <1>1, <1>5, <2>1, <2>2 DEF t
  <1>8. CASE ~ (m.kind \in {"telemetry", "faults"} /\ live /\ ~ m.late)
    <2>1. Persist(d, m, old) = t
      BY <1>8 DEF Persist, t, live
    <2> QED
      BY <1>1, <2>1 DEF t
  <1> QED
    BY <1>6, <1>7, <1>8

-----------------------------------------------------------------------------
(* What came before what. *)

\* The snapshot or the message m knows that episode x is over.
Past(x, m) == x < m.episode \/ (x = m.episode /\ m.state \notin Active)

\* Episode x is over, and so it is in every snapshot to come.
Spent(c, x) == x < c.episode \/ (x = c.episode /\ c.over)
Gone(c, x) == Past(x, c.snap) /\ Spent(c, x)

\* A message made from the snapshot, or from one before it.
Told(c, m) ==
    /\ m.episode <= c.snap.episode
    /\ m.state = "calm" => Gone(c, m.episode)
    /\ m.state \in Active => m.episode >= 1

\* No message the device has taken for live is newer.
Apt(m, d) ==
    /\ \A x \in d.ended : Past(x, m)
    /\ d.incident # NoIncident => d.incident.episode <= m.episode
    /\ d.boot = "older" /\ d.incident # NoIncident => Past(d.incident.episode, m)

Before(m, n) == m.episode <= n.episode /\ (m.state = "calm" => Past(m.episode, n))

\* What the device closed is over for good; what it has open has begun.
DeviceInv(c, d) ==
    /\ d \in Devices
    /\ \/ d.incident = NoIncident
       \/ /\ d.incident.peak >= 1 /\ d.incident.episode \in 1 .. c.snap.episode
          /\ d.boot = "older" => Gone(c, d.incident.episode)
    /\ d.boot = "none" => d.incident = NoIncident
    /\ \A x \in d.ended : x >= 1 /\ Gone(c, x) /\ x # d.incident.episode

\* Of what waits, the messages that may still be taken for live are in order.
BoxInv(c, box, d) ==
    \A k \in DOMAIN box :
        /\ box[k].old => d.boot = "current"
        /\ ~ box[k].old => Told(c, box[k].message) /\ Apt(box[k].message, d)
        /\ \A j \in 1 .. k - 1 :
              ~ box[j].old /\ ~ box[k].old => Before(box[j].message, box[k].message)

ClockInv(c) ==
    /\ c \in [snap : [state : States, episode : Nat], episode : Nat, over : BOOLEAN]
    /\ c.snap.episode <= c.episode
    /\ c.snap.state \in Active => c.snap.episode >= 1
    /\ c.snap.state = "calm" => Spent(c, c.snap.episode)

LEMMA PastDown ==
    ASSUME NEW c, NEW x \in Nat, NEW y \in Nat, x <= y, NEW m \in Messages
    PROVE  (Past(y, m) => Past(x, m)) /\ (ClockInv(c) /\ Gone(c, y) => Gone(c, x))
  <1>1. m.episode \in Nat
    BY DEF Messages
  <1>2. Past(y, m) => Past(x, m)
    BY <1>1 DEF Past
  <1>3. ASSUME ClockInv(c), Gone(c, y) PROVE Gone(c, x)
    <2>1. c.snap.episode \in Nat /\ c.episode \in Nat
      BY <1>3 DEF ClockInv
    <2> QED
      BY <1>3, <2>1 DEF Gone, Past, Spent
  <1> QED
    BY <1>2, <1>3

\* Whatever the device stores, it closes only what is over.
LEMMA Stored ==
    ASSUME NEW c, ClockInv(c), NEW d, DeviceInv(c, d), NEW m \in Messages, NEW old \in BOOLEAN,
           ~ old => Told(c, m) /\ Apt(m, d), old => d.boot = "current"
    PROVE  LET n == Persist(d, m, old)
           IN  /\ DeviceInv(c, n) /\ n.boot = "current"
               /\ \A p \in Messages : Apt(p, d) /\ (~ old => Before(m, p)) => Apt(p, n)
  <1> DEFINE t == TrackBoot(d)
             n == Persist(d, m, old)
  <1>1. d \in Devices /\ m.episode \in Nat /\ m.state \in States
    BY DEF DeviceInv, Messages
  <1>2. /\ d.incident \in [episode : Nat, peak : Nat] /\ d.ended \subseteq Nat
        /\ t.incident \in [episode : Nat, peak : Nat] /\ t.ended \subseteq Nat
        /\ n.incident \in [episode : Nat, peak : Nat] /\ n.ended \subseteq Nat
    BY <1>1, Tracks, Persists DEF Devices
  <1>3. n \in Devices /\ n.boot = "current"
    BY <1>1, Persists
  <1>4. /\ t \in Devices
        /\ d.boot = "older" => t.incident = NoIncident /\ t.ended = d.ended \cup Open(d)
        /\ d.boot # "older" => t.incident = d.incident /\ t.ended = d.ended
    BY <1>1, Tracks
  <1>5. \/ n.incident = t.incident /\ n.ended = t.ended
        \/ /\ ~(d.boot = "current" /\ old) /\ m.state \in Active
           /\ n.incident.peak >= 1 /\ n.ended = t.ended
           /\ n.incident.episode = IF t.incident = NoIncident THEN m.episode
                                   ELSE t.incident.episode
        \/ /\ ~(d.boot = "current" /\ old) /\ m.state = "calm"
           /\ n.incident = NoIncident /\ n.ended = t.ended \cup Open(t)
    BY <1>1, Persists
  <1> HIDE DEF t, n
  <1>6. /\ \A x \in d.ended : x >= 1 /\ Gone(c, x) /\ x # d.incident.episode
        /\ d.incident # NoIncident =>
              /\ d.incident.peak >= 1 /\ d.incident.episode \in 1 .. c.snap.episode
              /\ d.boot = "older" => Gone(c, d.incident.episode)
    BY DEF DeviceInv
  <1>7. /\ t.incident # NoIncident =>
              /\ d.boot # "older" /\ t.incident = d.incident
              /\ t.incident.peak >= 1 /\ t.incident.episode \in 1 .. c.snap.episode
        /\ \A x \in t.ended : x >= 1 /\ Gone(c, x) /\ x # t.incident.episode
    <2>1. CASE d.boot = "older"
      BY <1>2, <1>4, <1>6, <2>1, StatesAre DEF Open
    <2>2. CASE d.boot # "older"
      BY <1>4, <1>6, <2>2
    <2> QED
      BY <2>1, <2>2
  <1>8. \A p \in Messages : Apt(p, d) =>
            /\ \A x \in t.ended : Past(x, p)
            /\ t.incident # NoIncident => t.incident.episode <= p.episode
    <2>1. CASE d.boot = "older"
      BY <1>4, <2>1 DEF Open, Apt
    <2>2. CASE d.boot # "older"
      BY <1>4, <2>2 DEF Apt
    <2> QED
      BY <2>1, <2>2
  <1>9. ~(d.boot = "current" /\ old) => ~ old /\ Told(c, m) /\ Apt(m, d)
    OBVIOUS
  <1>10. CASE n.incident = t.incident /\ n.ended = t.ended
    <2>1. DeviceInv(c, n)
      BY <1>3, <1>7, <1>10 DEF DeviceInv
    <2>2. \A p \in Messages : Apt(p, d) => Apt(p, n)
      BY <1>3, <1>8, <1>10 DEF Apt
    <2> QED
      BY <1>3, <2>1, <2>2 DEF n
  <1>11. CASE /\ ~(d.boot = "current" /\ old) /\ m.state \in Active
              /\ n.incident.peak >= 1 /\ n.ended = t.ended
              /\ n.incident.episode = IF t.incident = NoIncident THEN m.episode
                                      ELSE t.incident.episode
    <2>1. m.episode >= 1 /\ m.episode <= c.snap.episode /\ c.snap.episode \in Nat
      BY <1>9, <1>11 DEF Told, ClockInv
    <2>2. \A x \in t.ended : x < m.episode
      BY <1>8, <1>9, <1>11 DEF Past
    <2>3. /\ n.incident.episode \in 1 .. c.snap.episode
          /\ \A x \in t.ended : x # n.incident.episode
      <3>1. CASE t.incident = NoIncident
        BY <1>1, <1>2, <1>11, <2>1, <2>2, <3>1
      <3>2. CASE t.incident # NoIncident
        BY <1>7, <1>11, <3>2
      <3> QED
        BY <3>1, <3>2
    <2>4. DeviceInv(c, n)
      BY <1>3, <1>7, <1>11, <2>3 DEF DeviceInv
    <2>5. ASSUME NEW p \in Messages, Apt(p, d), Before(m, p)
          PROVE  Apt(p, n)
      <3>1. n.incident.episode <= p.episode
        <4>1. CASE t.incident = NoIncident
          BY <1>11, <2>5, <4>1 DEF Before
        <4>2. CASE t.incident # NoIncident
          BY <1>8, <1>11, <2>5, <4>2
        <4> QED
          BY <4>1, <4>2
      <3> QED
        BY <1>3, <1>8, <1>11, <2>5, <3>1 DEF Apt
    <2> QED
      BY <1>3, <1>9, <1>11, <2>4, <2>5 DEF n
  <1>12. CASE /\ ~(d.boot = "current" /\ old) /\ m.state = "calm"
              /\ n.incident = NoIncident /\ n.ended = t.ended \cup Open(t)
    <2>1. Gone(c, m.episode)
      BY <1>9, <1>12 DEF Told
    <2>2. ASSUME NEW x \in Open(t)
          PROVE  x \in Nat /\ x >= 1 /\ x <= m.episode
      BY <1>2, <1>7, <1>8, <1>9, <1>12, <2>2 DEF Open
    <2>3. \A x \in Open(t) : x >= 1 /\ Gone(c, x) /\ x # n.incident.episode
      BY <1>1, <1>12, <2>1, <2>2, PastDown, StatesAre
    <2>4. \A x \in t.ended : x >= 1 /\ Gone(c, x) /\ x # n.incident.episode
      BY <1>2, <1>7, <1>12, StatesAre
    <2>5. DeviceInv(c, n)
      BY <1>3, <1>12, <2>3, <2>4 DEF DeviceInv
    <2>6. ASSUME NEW p \in Messages, Apt(p, d), Before(m, p)
          PROVE  Apt(p, n)
      <3>1. Past(m.episode, p)
        BY <1>12, <2>6 DEF Before
      <3>2. \A x \in Open(t) : Past(x, p)
        BY <1>1, <2>2, <3>1, PastDown
      <3> QED
        BY <1>3, <1>8, <1>12, <2>6, <3>2 DEF Apt
    <2> QED
      BY <1>3, <1>9, <1>12, <2>5, <2>6 DEF n
  <1> QED
    BY <1>5, <1>10, <1>11, <1>12

-----------------------------------------------------------------------------
(* What the client makes of the messages of a pass. *)

Ids(box) == {box[k].message.id : k \in DOMAIN box}
Stale(box) == {box[k].message.id : k \in {i \in DOMAIN box : box[i].expired}}

LineInv(c, line) ==
    line \in Lines /\ Len(line.outbox) <= OutboxRoom
    /\ DeviceInv(c, line.device) /\ BoxInv(c, line.outbox, line.device)

\* A message of the snapshot in force.
Made(c, m) == m \in Messages /\ m.state = c.snap.state /\ m.episode = c.snap.episode

LEMMA MadeIsNew ==
    ASSUME NEW c, ClockInv(c), NEW m, Made(c, m)
    PROVE  /\ Told(c, m) /\ \A d : DeviceInv(c, d) => Apt(m, d)
           /\ \A p \in Messages : Told(c, p) => Before(p, m)
  <1>1. /\ m \in Messages /\ m.state = c.snap.state /\ m.episode = c.snap.episode
        /\ c.snap.episode \in Nat /\ c.snap.state \in States
    BY DEF Made, ClockInv
  <1>2. \A x : Past(x, m) <=> Past(x, c.snap)
    BY <1>1 DEF Past
  <1>3. Told(c, m)
    <2>1. "calm" \notin Active
      BY StatesAre
    <2> QED
      BY <1>1, <2>1 DEF Told, Gone, Past, ClockInv
  <1>4. ASSUME NEW d, DeviceInv(c, d) PROVE Apt(m, d)
    BY <1>1, <1>2, <1>4 DEF DeviceInv, Apt, Gone
  <1>5. ASSUME NEW p \in Messages, Told(c, p) PROVE Before(p, m)
    BY <1>1, <1>2, <1>5 DEF Told, Before, Gone
  <1> QED
    BY <1>3, <1>4, <1>5

LEMMA Arrives ==
    ASSUME NEW c, ClockInv(c), NEW line, LineInv(c, line), NEW m, Made(c, m)
    PROVE  LET n == Arrive(line, m)
           IN  /\ LineInv(c, n) /\ n.device.boot = "current"
               /\ n.conn = line.conn /\ n.done = line.done \cup {m.id}
               /\ Len(n.outbox) = Len(line.outbox) /\ Ids(n.outbox) = Ids(line.outbox)
               /\ Stale(n.outbox) = Stale(line.outbox)
  <1> DEFINE s == Store(line, m, FALSE)
             n == Arrive(line, m)
             box == [k \in DOMAIN line.outbox |-> [line.outbox[k] EXCEPT !.old = TRUE]]
             stored == Persist(line.device, m, FALSE)
  <1>1. /\ line \in Lines /\ Len(line.outbox) <= OutboxRoom
        /\ DeviceInv(c, line.device) /\ BoxInv(c, line.outbox, line.device) /\ m \in Messages
    BY DEF LineInv, Made
  <1>2. line.outbox \in Seq(Waiting) /\ line.done \subseteq Nat /\ m.id \in Nat
    BY <1>1 DEF Lines, Messages
  <1>3. DeviceInv(c, stored) /\ stored.boot = "current" /\ stored \in Devices
    <2>1. Told(c, m) /\ Apt(m, line.device)
      BY <1>1, MadeIsNew
    <2>2. PICK old \in BOOLEAN : old = FALSE
      OBVIOUS
    <2>3. stored = Persist(line.device, m, old)
      BY <2>2
    <2> HIDE DEF stored
    <2>4. DeviceInv(c, stored) /\ stored.boot = "current"
      BY <1>1, <2>1, <2>2, <2>3, Stored
    <2> QED
      BY <2>4 DEF DeviceInv
  <1> HIDE DEF stored
  <1>4. /\ s \in Lines /\ s.device = stored /\ s.outbox = line.outbox /\ s.conn = line.conn
        /\ s.done = line.done \cup {m.id}
    <2>1. (line.flagged \/ m.fault = "overflow" \/ "overflow" \in stored.faults) \in BOOLEAN
          /\ (line.merged \/ m.routine) \in BOOLEAN
      BY <1>1 DEF Lines, Messages
    <2> QED
      BY <1>1, <1>2, <1>3, <2>1 DEF Store, Lines, stored
  <1> HIDE DEF s
  <1>5. /\ box \in Seq(Waiting) /\ Len(box) = Len(line.outbox) /\ DOMAIN box = DOMAIN line.outbox
        /\ \A k \in DOMAIN box : /\ box[k].old /\ box[k].message = line.outbox[k].message
                               /\ box[k].expired = line.outbox[k].expired
    <2>1. DOMAIN line.outbox = 1 .. Len(line.outbox) /\ Len(line.outbox) \in Nat
      BY <1>2
    <2>2. \A k \in DOMAIN line.outbox :
             /\ [line.outbox[k] EXCEPT !.old = TRUE] \in Waiting
             /\ [line.outbox[k] EXCEPT !.old = TRUE].old
             /\ [line.outbox[k] EXCEPT !.old = TRUE].message = line.outbox[k].message
             /\ [line.outbox[k] EXCEPT !.old = TRUE].expired = line.outbox[k].expired
      <3> SUFFICES ASSUME NEW w \in Waiting
                   PROVE  /\ [w EXCEPT !.old = TRUE] \in Waiting
                          /\ [w EXCEPT !.old = TRUE].old
                          /\ [w EXCEPT !.old = TRUE].message = w.message
                          /\ [w EXCEPT !.old = TRUE].expired = w.expired
        BY <1>2
      <3> QED
        BY DEF Waiting
    <2>3. box \in [1 .. Len(line.outbox) -> Waiting]
      BY <2>1, <2>2
    <2> QED
      BY <2>1, <2>2, <2>3
  <1> HIDE DEF box
  <1>6. n = [s EXCEPT !.outbox = box]
    BY <1>4 DEF Arrive, s, box
  <1>7. /\ n \in Lines /\ n.outbox = box /\ n.device = stored /\ n.conn = line.conn
        /\ n.done = line.done \cup {m.id}
    BY <1>4, <1>5, <1>6 DEF Lines
  <1>8. BoxInv(c, box, stored)
    BY <1>3, <1>5 DEF BoxInv
  <1>9. Ids(box) = Ids(line.outbox) /\ Stale(box) = Stale(line.outbox)
    BY <1>5 DEF Ids, Stale
  <1> QED
    BY <1>1, <1>3, <1>5, <1>7, <1>8, <1>9 DEF LineInv

LEMMA Keeps ==
    ASSUME NEW c, ClockInv(c), NEW line, LineInv(c, line), NEW m, Made(c, m), NEW old \in BOOLEAN,
           old => line.device.boot = "current", Len(line.outbox) < OutboxRoom
    PROVE  LET n == Keep(line, m, old)
           IN  /\ LineInv(c, n) /\ n.done = line.done
               /\ Ids(n.outbox) = Ids(line.outbox) \cup {m.id}
               /\ Stale(n.outbox) \subseteq Stale(line.outbox)
  <1> DEFINE n == Keep(line, m, old)
             entry == [message |-> m, old |-> old, expired |-> FALSE]
             box == Append(line.outbox, entry)
  <1>1. /\ line \in Lines /\ Len(line.outbox) <= OutboxRoom
        /\ DeviceInv(c, line.device) /\ BoxInv(c, line.outbox, line.device) /\ m \in Messages
    BY DEF LineInv, Made
  <1>2. line.outbox \in Seq(Waiting) /\ entry \in Waiting
        /\ entry.message = m /\ entry.old = old /\ ~ entry.expired
    BY <1>1 DEF Lines, Waiting
  <1> HIDE DEF entry
  <1>3. /\ box \in Seq(Waiting) /\ Len(box) = Len(line.outbox) + 1
        /\ DOMAIN box = 1 .. Len(line.outbox) + 1 /\ Len(line.outbox) \in Nat
        /\ DOMAIN line.outbox = 1 .. Len(line.outbox)
        /\ \A k \in DOMAIN line.outbox : box[k] = line.outbox[k]
        /\ box[Len(line.outbox) + 1] = entry
    BY <1>2
  <1> HIDE DEF box
  <1>4. /\ n \in Lines /\ n.outbox = box /\ n.device = line.device /\ n.done = line.done
    <2>1. n = [line EXCEPT !.outbox = box, !.conn = "down"]
      BY DEF Keep, box, entry
    <2> QED
      BY <1>1, <1>3, <2>1 DEF Lines, Conns
  <1>5. Ids(box) = Ids(line.outbox) \cup {m.id}
    <2>1. ASSUME NEW k \in DOMAIN box PROVE box[k].message.id \in Ids(line.outbox) \cup {m.id}
      BY <1>2, <1>3, <2>1 DEF Ids
    <2>2. ASSUME NEW k \in DOMAIN line.outbox PROVE line.outbox[k].message.id \in Ids(box)
      <3>1. k \in DOMAIN box /\ box[k] = line.outbox[k]
        BY <1>3, <2>2
      <3> QED
        BY <3>1 DEF Ids
    <2>3. m.id \in Ids(box)
      <3>1. Len(line.outbox) + 1 \in DOMAIN box
        BY <1>3
      <3> QED
        BY <1>2, <1>3, <3>1 DEF Ids
    <2> QED
      BY <2>1, <2>2, <2>3 DEF Ids
  <1>6. BoxInv(c, box, line.device)
    <2> SUFFICES ASSUME NEW k \in DOMAIN box
                 PROVE  /\ box[k].old => line.device.boot = "current"
                        /\ ~ box[k].old => Told(c, box[k].message) /\ Apt(box[k].message, line.device)
                        /\ \A j \in 1 .. k - 1 :
                              ~ box[j].old /\ ~ box[k].old => Before(box[j].message, box[k].message)
      BY DEF BoxInv
    <2>1. CASE k \in DOMAIN line.outbox
      <3>1. box[k] = line.outbox[k] /\ \A j \in 1 .. k - 1 : box[j] = line.outbox[j]
        BY <1>3, <2>1
      <3> QED
        BY <1>1, <2>1, <3>1 DEF BoxInv
    <2>2. CASE k = Len(line.outbox) + 1
      <3>1. box[k].message = m /\ box[k].old = old
        BY <1>2, <1>3, <2>2
      <3>2. Told(c, m) /\ Apt(m, line.device)
        BY <1>1, MadeIsNew
      <3>3. ASSUME NEW j \in 1 .. k - 1, ~ box[j].old
            PROVE  Before(box[j].message, m)
        <4>1. j \in DOMAIN line.outbox /\ box[j] = line.outbox[j]
          BY <1>3, <2>2, <3>3
        <4>2. Told(c, line.outbox[j].message)
          BY <1>1, <3>3, <4>1 DEF BoxInv
        <4>3. line.outbox[j] \in Waiting
          BY <1>2, <4>1
        <4>4. line.outbox[j].message \in Messages
          BY <4>3 DEF Waiting
        <4> QED
          BY <4>1, <4>2, <4>4, MadeIsNew
      <3> QED
        BY <3>1, <3>2, <3>3
    <2> QED
      BY <1>3, <2>1, <2>2
  <1>7. Stale(box) \subseteq Stale(line.outbox)
    <2> SUFFICES ASSUME NEW k \in DOMAIN box, box[k].expired
                 PROVE  box[k].message.id \in Stale(line.outbox)
      BY DEF Stale
    <2>1. k \in DOMAIN line.outbox /\ box[k] = line.outbox[k]
      BY <1>2, <1>3
    <2> QED
      BY <2>1 DEF Stale
  <1> QED
    BY <1>1, <1>3, <1>4, <1>5, <1>6, <1>7 DEF LineInv

\* Nothing leaves the outbox in a pass, and a message of QoS 1 is stored, kept
\* there, or refused and counted.  What it puts there has not waited yet.
Through(c, a, b) ==
    /\ LineInv(c, b) /\ Ids(a.outbox) \subseteq Ids(b.outbox) /\ a.done \subseteq b.done
    /\ Stale(b.outbox) \subseteq Stale(a.outbox)
Sent(m, line) == Qos[m.topic] = 1 => m.id \in line.done \cup Ids(line.outbox)

LEMMA Publishes ==
    ASSUME NEW c, ClockInv(c), NEW line, LineInv(c, line), NEW m, Made(c, m),
           NEW n \in Publish(line, m)
    PROVE  Through(c, line, n) /\ Sent(m, n)
  <1> DEFINE refused == [line EXCEPT !.done = @ \cup {m.id}]
             broken == [line EXCEPT !.conn = "down"]
  <1>1. /\ line \in Lines /\ Len(line.outbox) <= OutboxRoom
        /\ DeviceInv(c, line.device) /\ BoxInv(c, line.outbox, line.device) /\ m.id \in Nat
        /\ line.done \subseteq Nat
    BY DEF LineInv, Made, Messages, Lines
  <1>2. /\ refused \in Lines /\ refused.outbox = line.outbox /\ refused.device = line.device
        /\ refused.done = line.done \cup {m.id}
    BY <1>1 DEF Lines
  <1>3. /\ broken \in Lines /\ broken.outbox = line.outbox /\ broken.device = line.device
        /\ broken.done = line.done
    BY <1>1 DEF Lines, Conns
  <1>4. Through(c, line, refused) /\ Sent(m, refused)
    BY <1>1, <1>2 DEF Through, Sent, LineInv
  <1>5. Through(c, line, broken)
    BY <1>1, <1>3 DEF Through, LineInv
  <1>6. Through(c, line, Arrive(line, m)) /\ Sent(m, Arrive(line, m))
    BY Arrives DEF Through, Sent
  <1> HIDE DEF refused, broken
  <1>7. CASE n = refused
    BY <1>4, <1>7
  <1>8. CASE n = Arrive(line, m)
    BY <1>6, <1>8
  <1>9. CASE Qos[m.topic] = 0 /\ n = broken
    BY <1>5, <1>9 DEF Through, Sent
  <1>10. CASE Len(line.outbox) < OutboxRoom /\ n = Keep(line, m, FALSE)
    <2>1. PICK new \in BOOLEAN : new = FALSE
      OBVIOUS
    <2>2. n = Keep(line, m, new) /\ (new => line.device.boot = "current")
      BY <1>10, <2>1
    <2> DEFINE kept == Keep(line, m, new)
    <2>3. LineInv(c, kept) /\ kept.done = line.done /\ Ids(kept.outbox) = Ids(line.outbox) \cup {m.id}
          /\ Stale(kept.outbox) \subseteq Stale(line.outbox)
      <3>1. Len(line.outbox) < OutboxRoom
        BY <1>10
      <3> QED
        BY <2>2, <3>1, Keeps
    <2> QED
      BY <2>2, <2>3 DEF Through, Sent
  <1>11. CASE Len(line.outbox) < OutboxRoom /\ n = Keep(Arrive(line, m), m, TRUE)
    <2> DEFINE a == Arrive(line, m)
    <2>1. /\ LineInv(c, a) /\ a.device.boot = "current" /\ Len(a.outbox) < OutboxRoom
          /\ Ids(a.outbox) = Ids(line.outbox) /\ line.done \subseteq a.done
          /\ Stale(a.outbox) = Stale(line.outbox)
      BY <1>11, Arrives
    <2> HIDE DEF a
    <2>2. PICK old \in BOOLEAN : old = TRUE
      OBVIOUS
    <2>3. n = Keep(a, m, old) /\ (old => a.device.boot = "current")
      BY <1>11, <2>1, <2>2 DEF a
    <2>4. /\ LineInv(c, n) /\ n.done = a.done /\ Ids(n.outbox) = Ids(a.outbox) \cup {m.id}
          /\ Stale(n.outbox) \subseteq Stale(a.outbox)
      BY <2>1, <2>3, Keeps
    <2> QED
      BY <2>1, <2>4 DEF Through, Sent
  <1>12. \/ n = refused \/ n = Arrive(line, m)
         \/ Qos[m.topic] = 0 /\ n = broken
         \/ Len(line.outbox) < OutboxRoom /\ n = Keep(line, m, FALSE)
         \/ Len(line.outbox) < OutboxRoom /\ n = Keep(Arrive(line, m), m, TRUE)
    <2>1. Len(line.outbox) \in Nat
      BY <1>1 DEF Lines
    <2> DEFINE kept == Keep(line, m, FALSE)
               arrived == Arrive(line, m)
               both == Keep(Arrive(line, m), m, TRUE)
    <2>2. n \in IF line.conn = "none" \/ (Qos[m.topic] = 0 /\ line.conn # "up") THEN {refused}
                ELSE IF Qos[m.topic] = 0 THEN {arrived, broken}
                ELSE IF Len(line.outbox) >= OutboxRoom THEN {refused}
                ELSE IF line.conn = "up" THEN {arrived, kept, both}
                ELSE {kept}
      BY DEF Publish, refused, broken
    <2> HIDE DEF kept, arrived, both
    <2>3. \/ n = refused \/ n = arrived
          \/ Qos[m.topic] = 0 /\ n = broken
          \/ Len(line.outbox) < OutboxRoom /\ n = kept
          \/ Len(line.outbox) < OutboxRoom /\ n = both
      BY <2>1, <2>2
    <2> QED
      BY <2>3 DEF kept, arrived, both
  <1> QED
    BY <1>7, <1>8, <1>9, <1>10, <1>11, <1>12

\* The messages of a pass, one after the other.
LEMMA PublishesAll ==
    ASSUME NEW c, ClockInv(c), LineInv(c, Line), NEW ms,
           \A k \in DOMAIN ms : Made(c, ms[k]),
           NEW n \in PublishAll(ms)
    PROVE  Through(c, Line, n) /\ \A k \in 1..3 : k \in DOMAIN ms => Sent(ms[k], n)
  <1> DEFINE After(x, k) == IF k \in DOMAIN ms THEN PublishOn(x, ms[k]) ELSE x
             one == After({Line}, 1)
             two == After(one, 2)
  <1>1. n \in After(two, 3)
    BY DEF PublishAll, InTurn
  <1>2. ASSUME NEW lines, NEW k, NEW b \in After(lines, k),
               \A a \in lines : LineInv(c, a)
        PROVE  \E a \in lines : Through(c, a, b) /\ (k \in DOMAIN ms => Sent(ms[k], b))
    <2>1. CASE k \in DOMAIN ms
      <3>1. PICK a \in lines : b \in Publish(a, ms[k])
        BY <1>2, <2>1 DEF PublishOn
      <3> QED
        BY <1>2, <2>1, <3>1, Publishes
    <2>2. CASE k \notin DOMAIN ms
      BY <1>2, <2>2 DEF Through
    <2> QED
      BY <2>1, <2>2
  <1> HIDE DEF After
  <1>3. \A a, b, m : Through(c, a, b) /\ Sent(m, a) => Sent(m, b)
    BY DEF Through, Sent
  <1>4. \A a, b, d : Through(c, a, b) /\ Through(c, b, d) => Through(c, a, d)
    BY DEF Through
  <1>5. \A a \in one : Through(c, Line, a) /\ (1 \in DOMAIN ms => Sent(ms[1], a))
    <2>1. \A a \in {Line} : LineInv(c, a)
      OBVIOUS
    <2> QED
      BY <1>2, <2>1
  <1> HIDE DEF one
  <1>6. \A a \in two : /\ Through(c, Line, a) /\ (1 \in DOMAIN ms => Sent(ms[1], a))
                       /\ (2 \in DOMAIN ms => Sent(ms[2], a))
    <2>1. \A a \in one : LineInv(c, a)
      BY <1>5 DEF Through
    <2> QED
      BY <1>2, <1>3, <1>4, <1>5, <2>1
  <1> HIDE DEF two
  <1>7. /\ Through(c, Line, n) /\ (1 \in DOMAIN ms => Sent(ms[1], n))
        /\ (2 \in DOMAIN ms => Sent(ms[2], n)) /\ (3 \in DOMAIN ms => Sent(ms[3], n))
    <2>1. \A a \in two : LineInv(c, a)
      BY <1>6 DEF Through
    <2> QED
      BY <1>1, <1>2, <1>3, <1>4, <1>6, <2>1
  <1> QED
    BY <1>7

-----------------------------------------------------------------------------
(* What the safety task posts. *)

Events ==
    [ type : {"state", "fault", "sensor"}, to : States \cup {"none"}, id : Nat,
      fault : Faults \cup {"none"}, passed : BOOLEAN ]
Boxes == [events : Seq(Events), dropped : BOOLEAN, lost : SUBSET Nat, full : BOOLEAN]

Nums(q) == {q[k].id : k \in DOMAIN q}

\* An event with a number is announced by a message with the same number.
Announced(e) == e.id # 0 => e.type = "state" /\ e.to \in Alerting

QueueInv(q) ==
    /\ q \in Seq(Events) /\ Len(q) <= QueueLen
    /\ \A k \in DOMAIN q : Announced(q[k])
BoxOK(b) == b \in Boxes /\ QueueInv(b.events)

\* An event that was posted is in the queue or lost, and nothing leaves either.
In(e, b) == e.id = 0 \/ e.id \in Nums(b.events) \cup b.lost
Grown(a, b) == BoxOK(b) /\ Nums(a.events) \subseteq Nums(b.events) /\ a.lost \subseteq b.lost

LEMMA AppendNums ==
    ASSUME NEW q \in Seq(Events), NEW e \in Events
    PROVE  /\ Append(q, e) \in Seq(Events) /\ Len(Append(q, e)) = Len(q) + 1
           /\ Nums(Append(q, e)) = Nums(q) \cup {e.id}
           /\ \A k \in DOMAIN Append(q, e) : Append(q, e)[k] = e \/ (k \in DOMAIN q /\ Append(q, e)[k] = q[k])
  <1> DEFINE r == Append(q, e)
  <1>1. /\ r \in Seq(Events) /\ Len(r) = Len(q) + 1 /\ DOMAIN r = 1 .. Len(q) + 1
        /\ DOMAIN q = 1 .. Len(q) /\ Len(q) \in Nat
        /\ \A k \in DOMAIN q : r[k] = q[k]
        /\ r[Len(q) + 1] = e
    OBVIOUS
  <1> HIDE DEF r
  <1>2. \A k \in DOMAIN r : r[k] = e \/ (k \in DOMAIN q /\ r[k] = q[k])
    BY <1>1
  <1>3. ASSUME NEW k \in DOMAIN q PROVE q[k].id \in Nums(r)
    <2>1. k \in DOMAIN r /\ r[k] = q[k]
      BY <1>1, <1>3
    <2> QED
      BY <2>1 DEF Nums
  <1>4. e.id \in Nums(r)
    <2>1. Len(q) + 1 \in DOMAIN r
      BY <1>1
    <2> QED
      BY <1>1, <2>1 DEF Nums
  <1>5. \A k \in DOMAIN r : r[k].id \in Nums(q) \cup {e.id}
    BY <1>2 DEF Nums
  <1>6. Nums(r) = Nums(q) \cup {e.id}
    BY <1>3, <1>4, <1>5 DEF Nums
  <1> QED
    BY <1>1, <1>2, <1>6 DEF r

LEMMA Posting ==
    ASSUME NEW b, BoxOK(b), NEW e \in Events, Announced(e)
    PROVE  LET n == Post(b, e)
           IN  Grown(b, n) /\ In(e, n) /\ n.lost \subseteq b.lost \cup ({e.id} \ {0})
  <1>1. /\ b \in Boxes /\ b.events \in Seq(Events) /\ Len(b.events) <= QueueLen /\ Len(b.events) \in Nat
        /\ \A k \in DOMAIN b.events : Announced(b.events[k])
    BY DEF BoxOK, QueueInv
  <1>2. CASE Len(b.events) < QueueLen
    <2> DEFINE q == Append(b.events, e)
    <2>1. /\ q \in Seq(Events) /\ Len(q) <= QueueLen /\ Nums(q) = Nums(b.events) \cup {e.id}
          /\ \A k \in DOMAIN q : Announced(q[k])
      BY <1>1, <1>2, AppendNums
    <2> HIDE DEF q
    <2>2. Post(b, e) = [b EXCEPT !.events = q]
      BY <1>2 DEF Post, q
    <2>3. /\ Post(b, e) \in Boxes /\ Post(b, e).events = q /\ Post(b, e).lost = b.lost
      BY <1>1, <2>1, <2>2 DEF Boxes
    <2> QED
      BY <1>1, <2>1, <2>3 DEF BoxOK, QueueInv, Grown, In
  <1>3. CASE ~(Len(b.events) < QueueLen)
    <2> DEFINE lost == b.lost \cup ({e.id} \ {0})
    <2>1. Post(b, e) = [b EXCEPT !.dropped = TRUE, !.full = TRUE, !.lost = lost]
      BY <1>3 DEF Post
    <2>2. lost \subseteq Nat
      BY <1>1 DEF Boxes, Events
    <2>3. /\ Post(b, e) \in Boxes /\ Post(b, e).events = b.events /\ Post(b, e).lost = lost
      BY <1>1, <2>1, <2>2 DEF Boxes
    <2> QED
      BY <1>1, <2>3 DEF BoxOK, QueueInv, Grown, In
  <1> QED
    BY <1>2, <1>3

LEMMA PostingAll ==
    ASSUME NEW b, BoxOK(b), NEW es,
           \A k \in DOMAIN es : es[k] \in Events /\ Announced(es[k])
    PROVE  LET n == InTurn(Post, b, es)
           IN  Grown(b, n) /\ \A k \in 1..3 : k \in DOMAIN es => In(es[k], n)
  <1> DEFINE After(x, k) == IF k \in DOMAIN es THEN Post(x, es[k]) ELSE x
             one == After(b, 1)
             two == After(one, 2)
             three == After(two, 3)
  <1>1. three = InTurn(Post, b, es)
    BY DEF InTurn
  <1>2. \A x, k : BoxOK(x) => Grown(x, After(x, k)) /\ (k \in DOMAIN es => In(es[k], After(x, k)))
    <2> SUFFICES ASSUME NEW x, NEW k, BoxOK(x)
                 PROVE  Grown(x, After(x, k)) /\ (k \in DOMAIN es => In(es[k], After(x, k)))
      OBVIOUS
    <2>1. CASE k \in DOMAIN es
      BY <2>1, Posting
    <2>2. CASE k \notin DOMAIN es
      BY <2>2 DEF Grown
    <2> QED
      BY <2>1, <2>2
  <1>3. \A x, y, z : Grown(x, y) /\ Grown(y, z) => Grown(x, z)
    BY DEF Grown
  <1>4. \A e, x, y : Grown(x, y) /\ In(e, x) => In(e, y)
    BY DEF Grown, In
  <1> HIDE DEF After
  <1>5. Grown(b, one) /\ (1 \in DOMAIN es => In(es[1], one)) /\ BoxOK(one)
    BY <1>2 DEF Grown
  <1> HIDE DEF one
  <1>6. Grown(one, two) /\ (2 \in DOMAIN es => In(es[2], two)) /\ BoxOK(two)
    BY <1>2, <1>5 DEF Grown
  <1> HIDE DEF two
  <1>7. Grown(two, three) /\ (3 \in DOMAIN es => In(es[3], three))
    BY <1>2, <1>6
  <1> HIDE DEF three
  <1>8. Grown(b, three) /\ \A k \in 1..3 : k \in DOMAIN es => In(es[k], three)
    <2>1. /\ 1 \in DOMAIN es => In(es[1], three)
          /\ 2 \in DOMAIN es => In(es[2], three)
          /\ 3 \in DOMAIN es => In(es[3], three)
      BY <1>3, <1>4, <1>5, <1>6, <1>7
    <2>2. Grown(b, three)
      BY <1>3, <1>5, <1>6, <1>7
    <2> QED
      BY <2>1, <2>2
  <1> QED
    BY <1>1, <1>8

-----------------------------------------------------------------------------
(* The invariant. *)

Clock == [snap |-> snap, episode |-> episode, over |-> over]

\* The state says whether the episode is over.
RunInv(s, run) ==
    /\ s \in States /\ run \in [episode : Nat, over : BOOLEAN]
    /\ run.over => s \notin Active
    /\ s = "calm" => run.over
    /\ ~ run.over => run.episode >= 1

TelemetryInv ==
    /\ RunInv(state, [episode |-> episode, over |-> over])
    /\ ClockInv(Clock)
    /\ pc \in {"step", "snapshot"} /\ dropped \in BOOLEAN /\ faults \subseteq Faults
    /\ QueueInv(events)
    /\ LineInv(Clock, Line)
    /\ changes \in Nat /\ episode <= changes /\ changes <= MaxChanges
    /\ pending \subseteq 1 .. changes
    /\ pending \subseteq Nums(events) \cup Ids(outbox) \cup expired
    /\ Stale(outbox) \subseteq expired

LEMMA LineIs ==
    /\ Line.outbox = outbox /\ Line.device = device /\ Line.conn = conn /\ Line.done = {}
    /\ Clock.snap = snap /\ Clock.episode = episode /\ Clock.over = over
  BY DEF Line, Clock

LEMMA NothingAmiss ==
    ASSUME TelemetryInv
    PROVE  NothingLostSilently /\ OncePerEpisode
  <1>1. LineInv(Clock, Line) /\ ClockInv(Clock) /\ QueueInv(events)
    BY DEF TelemetryInv
  <1>2. /\ outbox \in Seq(Waiting) /\ Len(outbox) <= OutboxRoom /\ device \in Devices /\ conn \in Conns
        /\ DeviceInv(Clock, device)
    BY <1>1, LineIs DEF LineInv, Lines
  <1>3. TypeOK
    <2>1. snap \in [state : States, episode : Nat] /\ snap.episode <= episode /\ episode \in Nat
      BY <1>1, LineIs DEF ClockInv
    <2>2. episode <= MaxChanges /\ pending \subseteq 1 .. MaxChanges
      BY <2>1 DEF TelemetryInv
    <2>3. state \in States
      BY DEF TelemetryInv, RunInv
    <2> QED
      BY <1>1, <1>2, <2>1, <2>2, <2>3, StatesAre
      DEF TypeOK, TelemetryInv, QueueInv, Devices, Conns, Faults
  <1>4. pending \ expired
           \subseteq {events[k].id : k \in DOMAIN events} \cup {outbox[k].message.id : k \in DOMAIN outbox}
    BY DEF TelemetryInv, Nums, Ids
  <1>5. device.incident.episode \notin device.ended
    <2>1. CASE device.incident = NoIncident
      BY <1>2, <2>1, StatesAre DEF DeviceInv
    <2>2. CASE device.incident # NoIncident
      BY <1>2, <2>2 DEF DeviceInv
    <2> QED
      BY <2>1, <2>2
  <1> QED
    BY <1>3, <1>4, <1>5 DEF NothingLostSilently, OncePerEpisode

LEMMA TelemetryStarts ==
    ASSUME Init
    PROVE  TelemetryInv
  <1>1. /\ state = "calm" /\ episode = 0 /\ over = TRUE /\ pc = "step"
        /\ snap = [state |-> "calm", episode |-> 0]
        /\ events = <<>> /\ dropped = FALSE /\ faults = {} /\ conn = "none" /\ outbox = <<>>
        /\ device = NewDevice /\ pending = {} /\ changes = 0
    BY DEF Init
  <1>2. ClockInv(Clock)
    BY <1>1, LineIs, StatesAre DEF ClockInv, Clock, States, Spent
  <1>3. RunInv(state, [episode |-> episode, over |-> over])
    BY <1>1, StatesAre DEF RunInv, States
  <1>4. QueueInv(events)
    BY <1>1 DEF QueueInv
  <1>5. DeviceInv(Clock, device)
    BY <1>1, StatesAre DEF DeviceInv, Devices, NewDevice, States
  <1>6. Line \in Lines
    BY <1>1, <1>5 DEF Line, Lines, DeviceInv, Conns
  <1>7. LineInv(Clock, Line)
    BY <1>1, <1>5, <1>6, LineIs DEF LineInv, BoxInv
  <1>8. /\ pc \in {"step", "snapshot"} /\ dropped \in BOOLEAN /\ faults \subseteq Faults
        /\ changes \in Nat /\ episode <= changes /\ changes <= MaxChanges
    <2>1. dropped \in BOOLEAN
      BY <1>1
    <2>2. MaxChanges \in Nat
      OBVIOUS
    <2>3. changes \in Nat /\ episode <= changes /\ changes <= MaxChanges
      BY <1>1, <2>2
    <2> QED
      BY <1>1, <2>1, <2>3
  <1>9. pending \subseteq 1 .. changes /\ Stale(outbox) \subseteq expired
        /\ pending \subseteq Nums(events) \cup Ids(outbox) \cup expired
    BY <1>1 DEF Stale
  <1> QED
    BY <1>2, <1>3, <1>4, <1>7, <1>8, <1>9 DEF TelemetryInv

-----------------------------------------------------------------------------
(* The steps of the safety task. *)

LEMMA Follows ==
    ASSUME NEW s, NEW run, RunInv(s, run), NEW to \in States
    PROVE  LET r == Follow(run, to)
           IN  /\ RunInv(to, r) /\ run.episode <= r.episode /\ r.episode <= run.episode + 1
               /\ \A x \in Nat : Spent(run, x) => Spent(r, x)
  <1>1. /\ run \in [episode : Nat, over : BOOLEAN] /\ run.episode \in Nat /\ run.over \in BOOLEAN
        /\ run.over => s \notin Active
        /\ ~ run.over => run.episode >= 1
    BY DEF RunInv
  <1>2. "calm" \notin Active /\ "fault" \notin Active
        /\ \A a \in States : a \in Active \/ a = "calm" \/ a = "fault"
    BY StatesAre DEF States
  <1>3. CASE to \in Active /\ run.over
    <2>1. Follow(run, to) = [episode |-> run.episode + 1, over |-> FALSE]
      BY <1>3 DEF Follow
    <2> QED
      BY <1>1, <1>2, <1>3, <2>1 DEF RunInv, Spent
  <1>4. CASE ~(to \in Active /\ run.over) /\ to \in Active \cup {"fault"}
    <2>1. Follow(run, to) = run
      BY <1>4 DEF Follow
    <2> QED
      BY <1>1, <1>2, <1>4, <2>1 DEF RunInv, Spent
  <1>5. CASE to = "calm"
    <2>1. Follow(run, to) = [run EXCEPT !.over = TRUE]
      BY <1>2, <1>5 DEF Follow
    <2>2. /\ Follow(run, to) \in [episode : Nat, over : BOOLEAN]
          /\ Follow(run, to).episode = run.episode /\ Follow(run, to).over = TRUE
      BY <1>1, <2>1
    <2> QED
      BY <1>1, <1>2, <1>5, <2>2 DEF RunInv, Spent
  <1> QED
    BY <1>2, <1>3, <1>4, <1>5

LEMMA FollowsAll ==
    ASSUME NEW s, NEW run, RunInv(s, run), NEW path \in Seq(States), Len(path) <= 2
    PROVE  LET r == InTurn(Follow, run, path)
           IN  /\ RunInv(IF path = <<>> THEN s ELSE path[Len(path)], r)
               /\ run.episode <= r.episode /\ r.episode <= run.episode + Len(path)
               /\ \A x \in Nat : Spent(run, x) => Spent(r, x)
  <1> DEFINE After(x, k) == IF k \in DOMAIN path THEN Follow(x, path[k]) ELSE x
             one == Follow(run, path[1])
             two == Follow(one, path[2])
  <1>1. InTurn(Follow, run, path) = After(After(After(run, 1), 2), 3)
    BY DEF InTurn
  <1>2. DOMAIN path = 1 .. Len(path) /\ Len(path) \in Nat
    OBVIOUS
  <1>3. run.episode \in Nat
    BY DEF RunInv
  <1>4. CASE Len(path) = 0
    <2>1. path = <<>> /\ 1 \notin DOMAIN path /\ 2 \notin DOMAIN path /\ 3 \notin DOMAIN path
      BY <1>2, <1>4
    <2>2. InTurn(Follow, run, path) = run
      BY <1>1, <2>1
    <2> QED
      BY <1>3, <1>4, <2>1, <2>2
  <1>5. CASE Len(path) = 1
    <2>1. path # <<>> /\ 1 \in DOMAIN path /\ 2 \notin DOMAIN path /\ 3 \notin DOMAIN path
          /\ path[1] \in States
      BY <1>2, <1>5
    <2>2. InTurn(Follow, run, path) = one
      BY <1>1, <2>1
    <2> HIDE DEF one
    <2>3. /\ RunInv(path[1], one) /\ run.episode <= one.episode /\ one.episode <= run.episode + 1
          /\ \A x \in Nat : Spent(run, x) => Spent(one, x)
      BY <2>1, Follows DEF one
    <2> QED
      BY <1>5, <2>1, <2>2, <2>3
  <1>6. CASE Len(path) = 2
    <2>1. path # <<>> /\ 1 \in DOMAIN path /\ 2 \in DOMAIN path /\ 3 \notin DOMAIN path
          /\ path[1] \in States /\ path[2] \in States
      <3>1. DOMAIN path = {1, 2}
        BY <1>2, <1>6
      <3> QED
        BY <3>1
    <2>2. InTurn(Follow, run, path) = two
      BY <1>1, <2>1
    <2> HIDE DEF one
    <2>3. /\ RunInv(path[1], one) /\ run.episode <= one.episode /\ one.episode <= run.episode + 1
          /\ \A x \in Nat : Spent(run, x) => Spent(one, x)
      BY <2>1, Follows DEF one
    <2>4. /\ RunInv(path[2], two) /\ one.episode <= two.episode /\ two.episode <= one.episode + 1
          /\ \A x \in Nat : Spent(one, x) => Spent(two, x)
      BY <2>1, <2>3, Follows
    <2> HIDE DEF two
    <2>5. one.episode \in Nat /\ two.episode \in Nat
      BY <2>3, <2>4 DEF RunInv
    <2> QED
      BY <1>3, <1>6, <2>1, <2>2, <2>3, <2>4, <2>5
  <1> QED
    BY <1>2, <1>4, <1>5, <1>6

LEMMA PathsAre ==
    ASSUME state \in States, NEW path \in Paths
    PROVE  path \in Seq(States) /\ Len(path) <= 2
  <1>1. Moves[state] \subseteq States
    BY StatesAre
  <1>2. CASE path = <<>>
    BY <1>2
  <1>3. CASE \E a \in Moves[state] : path = <<a>>
    BY <1>1, <1>3
  <1>4. CASE \E a \in Moves[state] : \E b \in Moves[a] : path = <<a, b>>
    <2>1. PICK a \in Moves[state] : \E b \in Moves[a] : path = <<a, b>>
      BY <1>4
    <2>2. PICK b \in Moves[a] : path = <<a, b>>
      BY <2>1
    <2>3. a \in States /\ b \in States
      BY <1>1, <2>1, <2>2, StatesAre
    <2> QED
      BY <2>2, <2>3
  <1> QED
    BY <1>2, <1>3, <1>4 DEF Paths

\* What was so by one clock stays so by a later one.
LEMMA ClockMoves ==
    ASSUME NEW c, NEW d, ClockInv(c), ClockInv(d), c.snap.episode <= d.snap.episode,
           \A x \in Nat : Spent(c, x) => Spent(d, x),
           \A x \in Nat : Gone(c, x) => Past(x, d.snap),
           NEW line, LineInv(c, line)
    PROVE  LineInv(d, line)
  <1>1. c.snap.episode \in Nat /\ d.snap.episode \in Nat
    BY DEF ClockInv
  <1>2. \A x \in Nat : Gone(c, x) => Gone(d, x)
    BY DEF Gone
  <1>3. /\ line \in Lines /\ Len(line.outbox) <= OutboxRoom
        /\ DeviceInv(c, line.device) /\ BoxInv(c, line.outbox, line.device)
    BY DEF LineInv
  <1>4. DeviceInv(d, line.device)
    <2>1. line.device.ended \subseteq Nat /\ line.device.incident.episode \in Nat
      BY <1>3 DEF Lines, Devices
    <2> QED
      BY <1>1, <1>2, <1>3, <2>1 DEF DeviceInv
  <1>5. \A m \in Messages : Told(c, m) => Told(d, m)
    <2> SUFFICES ASSUME NEW m \in Messages, Told(c, m) PROVE Told(d, m)
      OBVIOUS
    <2>1. m.episode \in Nat
      BY DEF Messages
    <2> QED
      BY <1>1, <1>2, <2>1 DEF Told
  <1>6. \A k \in DOMAIN line.outbox : line.outbox[k].message \in Messages
    <2>1. line.outbox \in Seq(Waiting)
      BY <1>3 DEF Lines
    <2>2. \A k \in DOMAIN line.outbox : line.outbox[k] \in Waiting
      BY <2>1
    <2> QED
      BY <2>2 DEF Waiting
  <1>7. BoxInv(d, line.outbox, line.device)
    BY <1>3, <1>5, <1>6 DEF BoxInv
  <1> QED
    BY <1>3, <1>4, <1>7 DEF LineInv

LEMMA Watched ==
    ASSUME QueueInv(events), dropped \in BOOLEAN, faults \subseteq Faults
    PROVE  LET w == WatchDropped
           IN  /\ BoxOK(w.box) /\ Nums(events) \subseteq Nums(w.box.events) /\ w.faults \subseteq Faults
  <1> DEFINE seen == [Box EXCEPT !.dropped = FALSE]
             told == Post(seen, FaultEvent("overflow"))
  <1>1. BoxOK(Box) /\ Box.events = events
    BY DEF Box, BoxOK, Boxes, QueueInv
  <1>2. BoxOK(seen) /\ seen.events = events
    BY <1>1 DEF BoxOK, Boxes
  <1> HIDE DEF seen
  <1>3. FaultEvent("overflow") \in Events /\ Announced(FaultEvent("overflow"))
    BY DEF FaultEvent, Event, Events, Faults, Announced
  <1>4. BoxOK(told) /\ Nums(events) \subseteq Nums(told.events)
    BY <1>2, <1>3, Posting DEF Grown
  <1> HIDE DEF told
  <1>5. WatchDropped =
          CASE dropped ->
                 [box |-> IF "overflow" \in faults THEN seen ELSE told,
                  faults |-> faults \cup {"overflow"}, rested |-> FALSE]
            [] ~ dropped /\ "overflow" \in faults /\ Quiet ->
                 [box |-> told, faults |-> faults \ {"overflow"}, rested |-> rested]
            [] OTHER -> [box |-> Box, faults |-> faults, rested |-> rested]
    BY DEF WatchDropped, seen, told
  <1>6. CASE dropped
    BY <1>2, <1>4, <1>5, <1>6 DEF Faults
  <1>7. CASE ~ dropped /\ "overflow" \in faults /\ Quiet
    BY <1>4, <1>5, <1>7
  <1>8. CASE ~ dropped /\ ~("overflow" \in faults /\ Quiet)
    BY <1>1, <1>5, <1>8
  <1> QED
    BY <1>6, <1>7, <1>8

LEMMA LineIsNext ==
    /\ Line'.outbox = outbox' /\ Line'.device = device' /\ Line'.conn = conn' /\ Line'.done = {}
    /\ Clock'.snap = snap' /\ Clock'.episode = episode' /\ Clock'.over = over'
    /\ Line' = [outbox |-> outbox', device |-> device', conn |-> conn', done |-> {},
                  flagged |-> FALSE, merged |-> FALSE]
    /\ Clock' = [snap |-> snap', episode |-> episode', over |-> over']
  BY DEF Line, Clock

LEMMA LoopKeeps ==
    ASSUME TelemetryInv, NEW path \in Paths,
           NEW sensor \in {<<>>, <<Event("sensor")>>}, Loop(path, sensor)
    PROVE  TelemetryInv'
  <1> DEFINE w == WatchDropped
             moves == [k \in DOMAIN path |-> Transition(path, k)]
             posts == moves \o sensor
             was == [episode |-> episode, over |-> over]
             run == InTurn(Follow, was, path)
             box == InTurn(Post, w.box, posts)
             new == {moves[k].id : k \in DOMAIN moves} \ {0}
  <1>1. /\ pc' = "snapshot" /\ changes + Len(posts) <= MaxChanges /\ changes' = changes + Len(posts)
        /\ snap' = snap /\ conn' = conn /\ outbox' = outbox /\ device' = device /\ expired' = expired
        /\ state' = IF path = <<>> THEN state ELSE path[Len(path)]
        /\ episode' = run.episode /\ over' = run.over
        /\ faults' = w.faults
        /\ Posted(box, new)
    BY DEF Loop
  <1>2. events' = box.events /\ dropped' = box.dropped /\ pending' = (pending \cup new) \ box.lost
    BY <1>1 DEF Posted
  <1>3. /\ RunInv(state, was) /\ ClockInv(Clock) /\ QueueInv(events) /\ LineInv(Clock, Line)
        /\ changes \in Nat /\ episode <= changes /\ dropped \in BOOLEAN /\ faults \subseteq Faults
        /\ pending \subseteq 1 .. changes /\ Stale(outbox) \subseteq expired
        /\ pending \subseteq Nums(events) \cup Ids(outbox) \cup expired
        /\ QueueLen \in Nat /\ MaxChanges \in Nat
    BY DEF TelemetryInv
  <1>4. path \in Seq(States) /\ Len(path) <= 2 /\ Len(path) \in Nat /\ DOMAIN path = 1 .. Len(path)
    BY <1>3, PathsAre DEF RunInv
  <1>5. BoxOK(w.box) /\ Nums(events) \subseteq Nums(w.box.events) /\ w.faults \subseteq Faults
    BY <1>3, Watched
  <1>6. /\ moves \in Seq(Events) /\ Len(moves) = Len(path) /\ DOMAIN moves = 1 .. Len(path)
        /\ \A k \in DOMAIN moves : Announced(moves[k]) /\ moves[k].id \in {0, changes + k}
    <2>1. \A k \in DOMAIN path :
             /\ Transition(path, k) \in Events /\ Announced(Transition(path, k))
             /\ Transition(path, k).id \in {0, changes + k}
      <3> SUFFICES ASSUME NEW k \in DOMAIN path
                   PROVE  /\ Transition(path, k) \in Events /\ Announced(Transition(path, k))
                          /\ Transition(path, k).id \in {0, changes + k}
        OBVIOUS
      <3>1. path[k] \in States /\ k \in Nat
        BY <1>4
      <3> DEFINE id == IF path[k] \in Alerting THEN changes + k ELSE 0
      <3>2. id \in Nat /\ id \in {0, changes + k} /\ (id # 0 => path[k] \in Alerting)
        BY <1>3, <3>1
      <3>3. Transition(path, k) = [Event("state") EXCEPT !.to = path[k], !.id = id]
        BY DEF Transition
      <3> HIDE DEF id
      <3>4. Event("state") \in Events /\ Event("state").type = "state"
        BY DEF Event, Events
      <3>5. /\ Transition(path, k) \in Events /\ Transition(path, k).id = id
            /\ Transition(path, k).type = "state" /\ Transition(path, k).to = path[k]
        BY <3>1, <3>2, <3>3, <3>4 DEF Events
      <3> QED
        BY <3>2, <3>5 DEF Announced
    <2>2. moves \in [1 .. Len(path) -> Events]
      BY <1>4, <2>1
    <2>3. moves \in Seq(Events) /\ Len(moves) = Len(path) /\ DOMAIN moves = 1 .. Len(path)
      BY <1>4, <2>2
    <2> QED
      BY <1>4, <2>1, <2>3
  <1> HIDE DEF moves, w
  <1>7. /\ posts \in Seq(Events) /\ Len(path) <= Len(posts) /\ Len(posts) \in Nat
        /\ \A k \in DOMAIN posts : posts[k] \in Events /\ Announced(posts[k])
        /\ \A k \in DOMAIN moves : k \in 1..3 /\ k \in DOMAIN posts /\ posts[k] = moves[k]
    <2>1. Event("sensor") \in Events /\ Announced(Event("sensor"))
      BY DEF Event, Events, Announced
    <2>2. CASE sensor = <<>>
      <3>1. posts = moves
        BY <1>6, <2>2
      <3> QED
        BY <1>4, <1>6, <3>1
    <2>3. CASE sensor = <<Event("sensor")>>
      <3> DEFINE ev == Event("sensor")
      <3> HIDE DEF ev
      <3>1. posts = moves \o <<ev>>
        BY <2>3 DEF ev
      <3>2. /\ posts \in Seq(Events) /\ Len(posts) = Len(moves) + 1
            /\ \A k \in DOMAIN moves : posts[k] = moves[k]
            /\ posts[Len(moves) + 1] = ev
        BY <1>6, <2>1, <3>1 DEF ev
      <3>3. \A k \in DOMAIN posts : k \in DOMAIN moves \/ k = Len(moves) + 1
        BY <1>4, <1>6, <3>2
      <3> QED
        BY <1>4, <1>6, <2>1, <3>2, <3>3 DEF ev
    <2> QED
      BY <2>2, <2>3
  <1> HIDE DEF posts
  <1>8. Grown(w.box, box) /\ \A k \in 1..3 : k \in DOMAIN posts => In(posts[k], box)
    BY <1>3, <1>5, <1>7, PostingAll
  <1> HIDE DEF box
  <1>9. /\ RunInv(state', run) /\ run.episode <= episode + Len(path) /\ episode <= run.episode
        /\ \A x \in Nat : Spent(was, x) => Spent(run, x)
    BY <1>1, <1>3, <1>4, FollowsAll
  <1>10. \A x : (Spent(was, x) <=> Spent(Clock, x)) /\ (Spent(run, x) <=> Spent(Clock', x))
    BY <1>1, LineIs, LineIsNext DEF Spent
  <1> HIDE DEF run
  <1>11. /\ run \in [episode : Nat, over : BOOLEAN]
         /\ RunInv(state', [episode |-> episode', over |-> over'])
    <2>1. run \in [episode : Nat, over : BOOLEAN]
      BY <1>9 DEF RunInv
    <2>2. run = [episode |-> run.episode, over |-> run.over]
      BY <2>1
    <2> QED
      BY <1>1, <1>9, <2>1, <2>2
  <1>12. ClockInv(Clock') /\ LineInv(Clock', Line)
    <2>1. /\ Clock'.snap = Clock.snap /\ Clock.snap \in [state : States, episode : Nat]
          /\ Clock.snap.episode <= episode /\ episode \in Nat
          /\ Clock.snap.state \in Active => Clock.snap.episode >= 1
          /\ Clock.snap.state = "calm" => Spent(Clock, Clock.snap.episode)
      BY <1>1, <1>3, LineIs, LineIsNext DEF ClockInv
    <2>2. Clock' \in [snap : [state : States, episode : Nat], episode : Nat, over : BOOLEAN]
      BY <1>1, <1>11, <2>1, LineIs, LineIsNext
    <2>3. ClockInv(Clock')
      BY <1>1, <1>9, <1>10, <1>11, <2>1, <2>2, LineIsNext DEF ClockInv
    <2>4. \A x \in Nat : Spent(Clock, x) => Spent(Clock', x)
      BY <1>9, <1>10
    <2>5. \A x \in Nat : Gone(Clock, x) => Past(x, Clock'.snap)
      BY <2>1 DEF Gone
    <2>6. Clock.snap.episode <= Clock'.snap.episode
      BY <2>1
    <2> QED
      BY <1>3, <2>3, <2>4, <2>5, <2>6, ClockMoves
  <1>13. Line' = Line
    BY <1>1 DEF Line
  <1>14. /\ pending' \subseteq 1 .. changes' /\ pending' \subseteq Nums(events') \cup Ids(outbox') \cup expired'
         /\ Stale(outbox') \subseteq expired'
    <2>1. ASSUME NEW x \in new PROVE x \in 1 .. changes' /\ x \in Nums(box.events) \cup box.lost
      <3>1. PICK k \in DOMAIN moves : x = moves[k].id /\ x # 0
        BY <2>1
      <3>2. x \in Nums(box.events) \cup box.lost
        BY <1>7, <1>8, <3>1 DEF In
      <3>3. x = changes + k /\ k \in 1 .. Len(posts)
        BY <1>4, <1>6, <1>7, <3>1
      <3> QED
        BY <1>1, <1>3, <1>7, <3>2, <3>3
    <2>2. pending \subseteq 1 .. changes' /\ pending \subseteq Nums(box.events) \cup Ids(outbox) \cup expired
      BY <1>1, <1>3, <1>5, <1>7, <1>8 DEF Grown
    <2> HIDE DEF new
    <2> QED
      BY <1>1, <1>2, <1>3, <2>1, <2>2
  <1>15. /\ QueueInv(events') /\ dropped' \in BOOLEAN
    BY <1>2, <1>8 DEF Grown, BoxOK, Boxes
  <1>16. /\ changes' \in Nat /\ episode' <= changes' /\ changes' <= MaxChanges
    <2>1. episode \in Nat /\ run.episode \in Nat
      BY <1>3, <1>11 DEF RunInv
    <2> QED
      BY <1>1, <1>3, <1>4, <1>7, <1>9, <2>1
  <1>17. pc' \in {"step", "snapshot"} /\ faults' \subseteq Faults
    BY <1>1, <1>5
  <1>18. LineInv(Clock', Line')
    BY <1>12, <1>13
  <1> QED
    BY <1>11, <1>12, <1>14, <1>15, <1>16, <1>17, <1>18 DEF TelemetryInv

LEMMA SnapshotKeeps ==
    ASSUME TelemetryInv, NEW busy \in BOOLEAN, Snapshot(busy)
    PROVE  TelemetryInv'
  <1>1. /\ pc' = "step" /\ snap' \in {snap, [state |-> state, episode |-> episode]}
        /\ UNCHANGED <<state, episode, over, events, dropped, faults, conn, outbox, device>>
        /\ UNCHANGED <<pending, expired, changes>>
    BY DEF Snapshot
  <1> DEFINE run == [episode |-> episode, over |-> over]
  <1>2. /\ RunInv(state, run) /\ ClockInv(Clock) /\ LineInv(Clock, Line)
    BY DEF TelemetryInv
  <1>3. /\ state \in States /\ episode \in Nat /\ over \in BOOLEAN
        /\ over => state \notin Active
        /\ state = "calm" => over
        /\ ~ over => episode >= 1
    BY <1>2 DEF RunInv
  <1>4. /\ snap \in [state : States, episode : Nat] /\ snap.episode <= episode
        /\ snap.state \in Active => snap.episode >= 1
        /\ snap.state = "calm" => Spent(Clock, snap.episode)
    BY <1>2, LineIs DEF ClockInv
  <1>5. \A x : Spent(Clock, x) <=> Spent(Clock', x)
    BY <1>1, LineIs, LineIsNext DEF Spent
  <1>6. /\ snap' \in [state : States, episode : Nat] /\ snap'.episode <= episode /\ snap.episode <= snap'.episode
        /\ snap'.state \in Active => snap'.episode >= 1
        /\ snap'.state = "calm" => Spent(Clock, snap'.episode)
        /\ \A x \in Nat : Gone(Clock, x) => Past(x, snap')
    <2>1. CASE snap' = snap
      BY <1>4, <2>1, LineIs DEF Gone
    <2>2. CASE snap' = [state |-> state, episode |-> episode]
      <3>1. snap'.state = state /\ snap'.episode = episode
        BY <2>2
      <3>2. Spent(Clock, episode) <=> over
        BY <1>3, LineIs DEF Spent
      <3>3. \A x \in Nat : Spent(Clock, x) => Past(x, snap')
        BY <1>3, <3>1, LineIs DEF Spent, Past
      <3> QED
        BY <1>3, <1>4, <2>2, <3>1, <3>2, <3>3, StatesAre DEF Gone
    <2> QED
      BY <1>1, <2>1, <2>2
  <1>7. ClockInv(Clock')
    <2>1. Clock' = [snap |-> snap', episode |-> episode, over |-> over]
      BY <1>1, LineIsNext
    <2>2. Clock' \in [snap : [state : States, episode : Nat], episode : Nat, over : BOOLEAN]
      BY <1>3, <1>6, <2>1
    <2> QED
      BY <1>1, <1>5, <1>6, <2>2, LineIsNext DEF ClockInv
  <1>8. LineInv(Clock', Line)
    BY <1>2, <1>5, <1>6, <1>7, LineIs, LineIsNext, ClockMoves
  <1>9. Line' = Line
    BY <1>1 DEF Line
  <1>10. LineInv(Clock', Line') /\ RunInv(state', [episode |-> episode', over |-> over'])
    BY <1>1, <1>2, <1>8, <1>9
  <1> QED
    BY <1>1, <1>7, <1>10 DEF TelemetryInv

-----------------------------------------------------------------------------
(* The steps of the client and of the telemetry task. *)

\* A step that moves only messages: what it leaves in the queue and the outbox
\* still accounts for every alert.
LEMMA Carries ==
    ASSUME TelemetryInv, UNCHANGED <<state, episode, over, pc, snap, dropped, faults, changes>>,
           QueueInv(events'), NEW line, LineInv(Clock, line),
           outbox' = line.outbox, device' = line.device, conn' \in Conns,
           pending' \subseteq pending, pending' \subseteq Nums(events') \cup Ids(outbox') \cup expired',
           Stale(outbox') \subseteq expired'
    PROVE  TelemetryInv'
  <1>1. Clock' = Clock
    BY DEF Clock
  <1>2. /\ Line' \in Lines /\ Line'.outbox = line.outbox /\ Line'.device = line.device
    BY LineIsNext DEF LineInv, Lines
  <1>3. LineInv(Clock', Line')
    BY <1>1, <1>2 DEF LineInv
  <1>4. RunInv(state', [episode |-> episode', over |-> over']) /\ ClockInv(Clock')
    BY <1>1 DEF TelemetryInv
  <1>5. /\ pc' \in {"step", "snapshot"} /\ dropped' \in BOOLEAN /\ faults' \subseteq Faults
        /\ changes' \in Nat /\ episode' <= changes' /\ changes' <= MaxChanges
        /\ pending' \subseteq 1 .. changes'
    BY DEF TelemetryInv
  <1> QED
    BY <1>3, <1>4, <1>5 DEF TelemetryInv

LEMMA ConnectionKeeps ==
    ASSUME TelemetryInv, conn' \in Conns,
           UNCHANGED <<state, episode, over, pc, snap, events, dropped, faults, outbox, device>>,
           UNCHANGED <<pending, expired, changes>>
    PROVE  TelemetryInv'
  <1>1. /\ LineInv(Clock, Line) /\ QueueInv(events) /\ Stale(outbox) \subseteq expired
        /\ pending \subseteq Nums(events) \cup Ids(outbox) \cup expired
    BY DEF TelemetryInv
  <1>2. outbox' = Line.outbox /\ device' = Line.device
    BY LineIs
  <1>3. /\ QueueInv(events') /\ pending' \subseteq pending /\ Stale(outbox') \subseteq expired'
        /\ pending' \subseteq Nums(events') \cup Ids(outbox') \cup expired'
    BY <1>1
  <1> QED
    BY <1>1, <1>2, <1>3, Carries

\* The head of the outbox is stored: what waits behind it is newer.
LEMMA HeadStored ==
    ASSUME NEW c, ClockInv(c), NEW line, LineInv(c, line), line.outbox # <<>>
    PROVE  LET head == Head(line.outbox)
               n == Persist(line.device, head.message, head.old)
           IN  /\ head \in Waiting /\ DeviceInv(c, n)
               /\ BoxInv(c, Tail(line.outbox), n)
               /\ \A w \in Waiting : w.old => BoxInv(c, <<w>> \o Tail(line.outbox), n)
  <1> DEFINE box == line.outbox
             head == Head(box)
             tail == Tail(box)
             n == Persist(line.device, head.message, head.old)
  <1>1. /\ box \in Seq(Waiting) /\ box # <<>>
        /\ DeviceInv(c, line.device) /\ BoxInv(c, box, line.device)
    BY DEF LineInv, Lines
  <1>2. /\ 1 \in DOMAIN box /\ head = box[1] /\ head \in Waiting
        /\ DOMAIN tail = 1 .. Len(box) - 1 /\ tail \in Seq(Waiting)
        /\ \A k \in DOMAIN tail : k + 1 \in DOMAIN box /\ tail[k] = box[k + 1] /\ tail[k] \in Waiting
    BY <1>1
  <1>3. /\ head.message \in Messages /\ head.old \in BOOLEAN
        /\ head.old => line.device.boot = "current"
        /\ ~ head.old => Told(c, head.message) /\ Apt(head.message, line.device)
    BY <1>1, <1>2 DEF BoxInv, Waiting
  <1>4. /\ DeviceInv(c, n) /\ n.boot = "current"
        /\ \A p \in Messages : Apt(p, line.device) /\ (~ head.old => Before(head.message, p)) => Apt(p, n)
    BY <1>1, <1>3, Stored
  <1> HIDE DEF n, head, tail
  <1>5. ASSUME NEW k \in DOMAIN tail
        PROVE  /\ ~ tail[k].old => Told(c, tail[k].message) /\ Apt(tail[k].message, n)
               /\ \A j \in 1 .. k - 1 :
                     ~ tail[j].old /\ ~ tail[k].old => Before(tail[j].message, tail[k].message)
    <2>1. /\ k \in Nat /\ k + 1 \in DOMAIN box /\ tail[k] = box[k + 1] /\ tail[k].message \in Messages
      BY <1>2 DEF Waiting
    <2>2. /\ ~ box[k + 1].old => Told(c, box[k + 1].message) /\ Apt(box[k + 1].message, line.device)
          /\ \A j \in 1 .. (k + 1) - 1 :
                ~ box[j].old /\ ~ box[k + 1].old => Before(box[j].message, box[k + 1].message)
      BY <1>1, <2>1 DEF BoxInv
    <2>3. ~ head.old /\ ~ tail[k].old => Before(head.message, tail[k].message)
      <3>1. 1 \in 1 .. (k + 1) - 1
        BY <1>2, <1>5, <2>1
      <3> QED
        BY <1>2, <2>1, <2>2, <3>1
    <2>4. ASSUME NEW j \in 1 .. k - 1, ~ tail[j].old, ~ tail[k].old
          PROVE  Before(tail[j].message, tail[k].message)
      <3>0. j \in Nat /\ j + 1 \in 1 .. (k + 1) - 1
        BY <2>1, <2>4
      <3>2. Len(box) \in Nat /\ k \in 1 .. Len(box) - 1
        BY <1>1, <1>2, <1>5
      <3>3. j \in 1 .. Len(box) - 1
        BY <2>1, <2>4, <3>2
      <3>4. j \in DOMAIN tail
        BY <1>2, <3>3
      <3>5. tail[j] = box[j + 1]
        BY <1>2, <3>4
      <3>1. j + 1 \in 1 .. (k + 1) - 1 /\ tail[j] = box[j + 1]
        BY <3>0, <3>5
      <3> QED
        BY <2>1, <2>2, <2>4, <3>1
    <2> QED
      BY <1>4, <2>1, <2>2, <2>3, <2>4
  <1>6. BoxInv(c, tail, n)
    BY <1>4, <1>5 DEF BoxInv
  <1>7. ASSUME NEW w \in Waiting, w.old
        PROVE  BoxInv(c, <<w>> \o tail, n)
    <2> DEFINE all == <<w>> \o tail
    <2>1. /\ DOMAIN all = 1 .. Len(tail) + 1 /\ all[1] = w /\ Len(tail) \in Nat
          /\ \A k \in DOMAIN all : k = 1 \/ (k - 1 \in DOMAIN tail /\ all[k] = tail[k - 1])
      BY <1>2
    <2> HIDE DEF all
    <2> SUFFICES ASSUME NEW k \in DOMAIN all
                 PROVE  /\ all[k].old => n.boot = "current"
                        /\ ~ all[k].old => Told(c, all[k].message) /\ Apt(all[k].message, n)
                        /\ \A j \in 1 .. k - 1 :
                              ~ all[j].old /\ ~ all[k].old => Before(all[j].message, all[k].message)
      BY DEF BoxInv, all
    <2>2. CASE k = 1
      BY <1>4, <1>7, <2>1, <2>2
    <2>3. CASE k # 1
      <3>1. k - 1 \in DOMAIN tail /\ all[k] = tail[k - 1] /\ k \in Nat
        BY <2>1, <2>3
      <3>2. ASSUME NEW j \in 1 .. k - 1, ~ all[j].old, ~ all[k].old
            PROVE  Before(all[j].message, all[k].message)
        <4>1. j # 1 /\ j \in DOMAIN all
          BY <1>7, <2>1, <3>1, <3>2
        <4>2. j - 1 \in 1 .. (k - 1) - 1 /\ all[j] = tail[j - 1]
          BY <2>1, <3>1, <4>1
        <4> QED
          BY <1>5, <3>1, <3>2, <4>2
      <3> QED
        BY <1>4, <1>5, <3>1, <3>2
    <2> QED
      BY <2>2, <2>3
  <1> QED
    BY <1>2, <1>4, <1>6, <1>7 DEF head, tail, n

LEMMA ResendKeeps ==
    ASSUME TelemetryInv, NEW acked \in BOOLEAN, Resend(acked)
    PROVE  TelemetryInv'
  <1> DEFINE head == Head(outbox)
             sent == Store(Line, head.message, head.old)
             n == Persist(device, head.message, head.old)
             kept == [head EXCEPT !.old = TRUE]
  <1>1. /\ outbox # <<>> /\ conn = "up" /\ device' = sent.device
        /\ UNCHANGED <<state, episode, over, pc, snap, events, dropped, faults, expired, changes>>
        /\ pending' = pending \ sent.done
        /\ \/ outbox' = Tail(outbox) /\ conn' = conn
           \/ outbox' = <<kept>> \o Tail(outbox) /\ conn' = "down"
    BY DEF Resend, controller, queue, Lose
  <1>2. /\ ClockInv(Clock) /\ LineInv(Clock, Line) /\ QueueInv(events) /\ Stale(outbox) \subseteq expired
        /\ pending \subseteq Nums(events) \cup Ids(outbox) \cup expired
    BY DEF TelemetryInv
  <1>3. /\ Line \in Lines /\ outbox \in Seq(Waiting) /\ Len(outbox) <= OutboxRoom
        /\ Line.outbox = outbox /\ Line.device = device
    BY <1>2, LineIs DEF LineInv, Lines
  <1>4. /\ head \in Waiting /\ DeviceInv(Clock, n) /\ BoxInv(Clock, Tail(outbox), n)
        /\ \A w \in Waiting : w.old => BoxInv(Clock, <<w>> \o Tail(outbox), n)
    BY <1>1, <1>2, <1>3, HeadStored
  <1>5. kept \in Waiting /\ kept.old /\ kept.message = head.message /\ kept.expired = head.expired
    BY <1>4 DEF Waiting
  <1> HIDE DEF kept
  <1>6. sent.device = n /\ sent.done = {head.message.id}
    BY DEF Store, Line
  <1> HIDE DEF sent, n
  <1>7. /\ outbox' \in Seq(Waiting) /\ Len(outbox') <= Len(outbox) /\ BoxInv(Clock, outbox', n)
    <2>1. /\ Tail(outbox) \in Seq(Waiting) /\ Len(Tail(outbox)) = Len(outbox) - 1 /\ Len(outbox) \in Nat
      BY <1>1, <1>3
    <2>2. /\ <<kept>> \o Tail(outbox) \in Seq(Waiting)
          /\ Len(<<kept>> \o Tail(outbox)) = 1 + Len(Tail(outbox))
      BY <1>5, <2>1
    <2>3. BoxInv(Clock, <<kept>> \o Tail(outbox), n)
      BY <1>4, <1>5
    <2>4. CASE outbox' = Tail(outbox)
      BY <1>4, <2>1, <2>4
    <2>5. CASE outbox' = <<kept>> \o Tail(outbox)
      BY <2>1, <2>2, <2>3, <2>5
    <2> QED
      BY <1>1, <2>4, <2>5
  <1>8. Ids(outbox) \subseteq Ids(outbox') \cup {head.message.id}
    <2> SUFFICES ASSUME NEW k \in DOMAIN outbox, outbox[k].message.id # head.message.id
                 PROVE  outbox[k].message.id \in Ids(outbox')
      BY DEF Ids
    <2>0. outbox # <<>> /\ outbox \in Seq(Waiting) /\ head = outbox[1]
      BY <1>1, <1>3
    <2>1. /\ k # 1 /\ k - 1 \in DOMAIN Tail(outbox) /\ Tail(outbox)[k - 1] = outbox[k]
          /\ Tail(outbox) \in Seq(Waiting)
      BY <2>0
    <2>2. CASE outbox' = Tail(outbox)
      BY <2>1, <2>2 DEF Ids
    <2>3. CASE outbox' = <<kept>> \o Tail(outbox)
      <3>1. k \in DOMAIN outbox' /\ outbox'[k] = Tail(outbox)[k - 1]
        BY <1>3, <1>5, <2>1, <2>3
      <3> QED
        BY <2>1, <3>1 DEF Ids
    <2> QED
      BY <1>1, <2>2, <2>3
  <1>8a. Stale(outbox') \subseteq Stale(outbox)
    <2> SUFFICES ASSUME NEW k \in DOMAIN outbox', outbox'[k].expired
                 PROVE  outbox'[k].message.id \in Stale(outbox)
      BY DEF Stale
    <2>1. /\ \A i \in DOMAIN Tail(outbox) : i + 1 \in DOMAIN outbox /\ Tail(outbox)[i] = outbox[i + 1]
          /\ 1 \in DOMAIN outbox /\ head = outbox[1] /\ Tail(outbox) \in Seq(Waiting)
      BY <1>1, <1>3
    <2>2. CASE outbox' = Tail(outbox)
      BY <2>1, <2>2 DEF Stale
    <2>3. CASE outbox' = <<kept>> \o Tail(outbox)
      <3>1. \/ outbox'[k] = kept
            \/ k - 1 \in DOMAIN Tail(outbox) /\ outbox'[k] = Tail(outbox)[k - 1]
        BY <1>5, <2>1, <2>3
      <3>2. CASE outbox'[k] = kept
        BY <1>5, <2>1, <3>2 DEF Stale
      <3>3. CASE k - 1 \in DOMAIN Tail(outbox) /\ outbox'[k] = Tail(outbox)[k - 1]
        BY <2>1, <3>3 DEF Stale
      <3> QED
        BY <3>1, <3>2, <3>3
    <2> QED
      BY <1>1, <2>2, <2>3
  <1> DEFINE line == [Line EXCEPT !.outbox = outbox', !.device = n]
  <1>9. \E b \in Seq(Waiting) : b = outbox'
    BY <1>7
  <1>10. /\ line \in Lines /\ line.outbox = outbox' /\ line.device = n
    BY <1>3, <1>4, <1>7 DEF Lines, DeviceInv
  <1>11. Len(outbox') <= OutboxRoom
    <2>1. OutboxRoom \in Nat /\ Len(outbox) \in Nat /\ Len(outbox') \in Nat
      BY <1>3, <1>7
    <2> QED
      BY <1>3, <1>7, <2>1
  <1> HIDE DEF line
  <1>12. PICK l : l = line
    OBVIOUS
  <1>13. LineInv(Clock, l) /\ outbox' = l.outbox /\ device' = l.device
    BY <1>1, <1>4, <1>6, <1>7, <1>10, <1>11, <1>12 DEF LineInv
  <1>14. /\ QueueInv(events') /\ conn' \in Conns /\ pending' \subseteq pending
         /\ pending' \subseteq Nums(events') \cup Ids(outbox') \cup expired' /\ Stale(outbox') \subseteq expired'
    BY <1>1, <1>2, <1>6, <1>8, <1>8a DEF Conns
  <1> QED
    BY <1>1, <1>13, <1>14, Carries

\* Time passes for what waits: nothing else about it changes.
LEMMA WaitKeeps ==
    ASSUME TelemetryInv, NEW k \in DOMAIN outbox, ThirtySeconds(k)
    PROVE  TelemetryInv'
  <1> DEFINE aged(i) == [outbox[i] EXCEPT !.expired = @ \/ i <= k]
             box == [i \in DOMAIN outbox |-> aged(i)]
             line == [Line EXCEPT !.outbox = box]
  <1>1. /\ outbox' = box /\ expired' = expired \cup {outbox[i].message.id : i \in 1 .. k}
        /\ UNCHANGED <<state, episode, over, pc, snap, events, dropped, faults, conn, device>>
        /\ UNCHANGED <<pending, changes>>
    BY DEF ThirtySeconds, controller, queue
  <1>2. /\ ClockInv(Clock) /\ LineInv(Clock, Line) /\ QueueInv(events) /\ Stale(outbox) \subseteq expired
        /\ pending \subseteq Nums(events) \cup Ids(outbox) \cup expired
    BY DEF TelemetryInv
  <1>3. /\ Line \in Lines /\ outbox \in Seq(Waiting) /\ Len(outbox) <= OutboxRoom
        /\ Line.outbox = outbox /\ Line.device = device /\ Line.conn = conn
        /\ BoxInv(Clock, outbox, device) /\ DeviceInv(Clock, device)
    BY <1>2, LineIs DEF LineInv, Lines
  <1>4. DOMAIN outbox = 1 .. Len(outbox) /\ Len(outbox) \in Nat /\ k \in Nat
    BY <1>3
  <1>5. \A i \in DOMAIN outbox :
           /\ aged(i) \in Waiting /\ aged(i).message = outbox[i].message /\ aged(i).old = outbox[i].old
           /\ aged(i).expired => outbox[i].expired \/ i \in 1 .. k
    <2> SUFFICES ASSUME NEW i \in DOMAIN outbox
                 PROVE  /\ aged(i) \in Waiting /\ aged(i).message = outbox[i].message
                        /\ aged(i).old = outbox[i].old
                        /\ aged(i).expired => outbox[i].expired \/ i \in 1 .. k
      OBVIOUS
    <2> DEFINE late == outbox[i].expired \/ i <= k
    <2>1. outbox[i] \in Waiting /\ late \in BOOLEAN
      BY <1>3
    <2>2. aged(i) = [outbox[i] EXCEPT !.expired = late]
      BY <2>1 DEF Waiting
    <2>3. late => outbox[i].expired \/ i \in 1 .. k
      BY <1>4
    <2> HIDE DEF late, aged
    <2>4. /\ aged(i) \in Waiting /\ aged(i).message = outbox[i].message
          /\ aged(i).old = outbox[i].old /\ aged(i).expired = late
      BY <2>1, <2>2 DEF Waiting
    <2> QED
      BY <2>3, <2>4
  <1> HIDE DEF aged
  <1>6. /\ box \in Seq(Waiting) /\ Len(box) = Len(outbox) /\ DOMAIN box = DOMAIN outbox
        /\ \A i \in DOMAIN box : box[i] = aged(i)
    <2>1. box \in [1 .. Len(outbox) -> Waiting]
      BY <1>4, <1>5
    <2> QED
      BY <1>4, <2>1
  <1> HIDE DEF box
  <1>7. BoxInv(Clock, box, device)
    <2> SUFFICES ASSUME NEW n \in DOMAIN box
                 PROVE  /\ box[n].old => device.boot = "current"
                        /\ ~ box[n].old => Told(Clock, box[n].message) /\ Apt(box[n].message, device)
                        /\ \A j \in 1 .. n - 1 :
                              ~ box[j].old /\ ~ box[n].old => Before(box[j].message, box[n].message)
      BY DEF BoxInv
    <2>1. \A i \in 1 .. n : i \in DOMAIN box
      BY <1>4, <1>6
    <2>2. \A i \in DOMAIN box : box[i].old = outbox[i].old /\ box[i].message = outbox[i].message
      BY <1>5, <1>6
    <2>3. \A j \in 1 .. n - 1 : j \in 1 .. n
      BY <1>4, <1>6
    <2> QED
      BY <1>3, <1>6, <2>1, <2>2, <2>3 DEF BoxInv
  <1>8. Ids(box) = Ids(outbox)
    BY <1>5, <1>6 DEF Ids
  <1>9. Stale(box) \subseteq expired'
    <2> SUFFICES ASSUME NEW i \in DOMAIN box, box[i].expired
                 PROVE  box[i].message.id \in expired'
      BY DEF Stale
    <2>1. box[i].message = outbox[i].message /\ (outbox[i].expired \/ i \in 1 .. k)
      BY <1>5, <1>6
    <2>2. CASE outbox[i].expired
      BY <1>1, <1>2, <1>6, <2>1, <2>2 DEF Stale
    <2>3. CASE i \in 1 .. k
      BY <1>1, <2>1, <2>3
    <2> QED
      BY <2>1, <2>2, <2>3
  <1>10. /\ line \in Lines /\ line.outbox = box /\ line.device = device
    BY <1>3, <1>6 DEF Lines
  <1> HIDE DEF line
  <1>11. LineInv(Clock, line)
    BY <1>3, <1>6, <1>7, <1>10 DEF LineInv
  <1>12. /\ QueueInv(events') /\ conn' \in Conns /\ pending' \subseteq pending
         /\ outbox' = line.outbox /\ device' = line.device
         /\ pending' \subseteq Nums(events') \cup Ids(outbox') \cup expired' /\ Stale(outbox') \subseteq expired'
    BY <1>1, <1>2, <1>3, <1>8, <1>9, <1>10 DEF Lines
  <1> QED
    BY <1>1, <1>11, <1>12, Carries

\* The head of the outbox is deleted: it is one of those that waited too long.
LEMMA DeleteKeeps ==
    ASSUME TelemetryInv, DeleteExpired
    PROVE  TelemetryInv'
  <1> DEFINE tail == Tail(outbox)
             line == [Line EXCEPT !.outbox = tail]
  <1>1. /\ outbox # <<>> /\ Head(outbox).expired /\ outbox' = tail
        /\ UNCHANGED <<state, episode, over, pc, snap, events, dropped, faults, conn, device>>
        /\ UNCHANGED <<pending, expired, changes>>
    BY DEF DeleteExpired, controller, queue
  <1>2. /\ ClockInv(Clock) /\ LineInv(Clock, Line) /\ QueueInv(events) /\ Stale(outbox) \subseteq expired
        /\ pending \subseteq Nums(events) \cup Ids(outbox) \cup expired
    BY DEF TelemetryInv
  <1>3. /\ Line \in Lines /\ outbox \in Seq(Waiting) /\ Len(outbox) <= OutboxRoom
        /\ Line.outbox = outbox /\ Line.device = device /\ Line.conn = conn
        /\ BoxInv(Clock, outbox, device) /\ DeviceInv(Clock, device)
    BY <1>2, LineIs DEF LineInv, Lines
  <1>4. /\ 1 \in DOMAIN outbox /\ Head(outbox) = outbox[1]
        /\ tail \in Seq(Waiting) /\ Len(tail) = Len(outbox) - 1 /\ Len(outbox) \in Nat
        /\ DOMAIN tail = 1 .. Len(outbox) - 1 /\ DOMAIN outbox = 1 .. Len(outbox)
        /\ \A i \in DOMAIN tail : i + 1 \in DOMAIN outbox /\ tail[i] = outbox[i + 1]
    BY <1>1, <1>3
  <1> HIDE DEF tail
  <1>5. \A i \in DOMAIN outbox : i = 1 \/ (i - 1 \in DOMAIN tail /\ tail[i - 1] = outbox[i])
    BY <1>4
  <1>6. Len(tail) <= OutboxRoom
    BY <1>3, <1>4
  <1>7. BoxInv(Clock, tail, device)
    <2> SUFFICES ASSUME NEW n \in DOMAIN tail
                 PROVE  /\ tail[n].old => device.boot = "current"
                        /\ ~ tail[n].old => Told(Clock, tail[n].message) /\ Apt(tail[n].message, device)
                        /\ \A j \in 1 .. n - 1 :
                              ~ tail[j].old /\ ~ tail[n].old => Before(tail[j].message, tail[n].message)
      BY DEF BoxInv
    <2>1. n + 1 \in DOMAIN outbox /\ tail[n] = outbox[n + 1]
      BY <1>4
    <2>2. \A j \in 1 .. n - 1 : j + 1 \in 1 .. (n + 1) - 1 /\ tail[j] = outbox[j + 1]
      BY <1>4
    <2> QED
      BY <1>3, <2>1, <2>2 DEF BoxInv
  <1>8. Ids(outbox) \subseteq Ids(tail) \cup expired
    <2> SUFFICES ASSUME NEW i \in DOMAIN outbox
                 PROVE  outbox[i].message.id \in Ids(tail) \cup expired
      BY DEF Ids
    <2>1. CASE i = 1
      <3>1. outbox[1].message.id \in Stale(outbox)
        BY <1>1, <1>4 DEF Stale
      <3> QED
        BY <1>2, <2>1, <3>1
    <2>2. CASE i # 1
      BY <1>5, <2>2 DEF Ids
    <2> QED
      BY <2>1, <2>2
  <1>9. Stale(tail) \subseteq Stale(outbox)
    BY <1>4 DEF Stale
  <1>10. /\ line \in Lines /\ line.outbox = tail /\ line.device = device
    BY <1>3, <1>4 DEF Lines
  <1> HIDE DEF line
  <1>11. LineInv(Clock, line)
    BY <1>3, <1>6, <1>7, <1>10 DEF LineInv
  <1>12. /\ QueueInv(events') /\ conn' \in Conns /\ pending' \subseteq pending
         /\ outbox' = line.outbox /\ device' = line.device
         /\ pending' \subseteq Nums(events') \cup Ids(outbox') \cup expired' /\ Stale(outbox') \subseteq expired'
    BY <1>1, <1>2, <1>3, <1>8, <1>9, <1>10 DEF Lines
  <1> QED
    BY <1>1, <1>11, <1>12, Carries

Current == {m \in Messages : Made(Clock, m)}

LEMMA MessagesAre ==
    ASSUME ClockInv(Clock), faults \subseteq Faults,
           NEW kind \in {"telemetry", "event", "faults"}, NEW topic \in Topics, NEW late \in BOOLEAN
    PROVE  /\ Message(kind, topic, late) \in Current /\ Message(kind, topic, late).topic = topic
           /\ [Message(kind, topic, late) EXCEPT !.routine = TRUE] \in Current
  <1> DEFINE m == Message(kind, topic, late)
  <1>1. snap.state \in States /\ snap.episode \in Nat
    BY LineIs DEF ClockInv
  <1>2. m \in Messages /\ m.state = snap.state /\ m.episode = snap.episode /\ m.topic = topic
    BY <1>1 DEF Message, Messages, Topics, Faults
  <1> HIDE DEF m
  <1>3. [m EXCEPT !.routine = TRUE] \in Current
    BY <1>2, LineIs DEF Messages, Current, Made
  <1>4. m \in Current
    BY <1>2, LineIs DEF Current, Made
  <1> QED
    BY <1>2, <1>3, <1>4 DEF m

\* An alert is announced by one of the first two messages, on a topic of QoS 1.
LEMMA Announces ==
    ASSUME ClockInv(Clock), faults \subseteq Faults,
           NEW e \in Events, Announced(e), NEW locked \in BOOLEAN
    PROVE  LET ms == EventMessages(e, locked)
           IN  /\ ms \in Seq(Current)
               /\ e.id # 0 => \E k \in 1..2 : k \in DOMAIN ms /\ Qos[ms[k].topic] = 1 /\ ms[k].id = e.id
  <1> DEFINE told(topic) == IF locked THEN <<>> ELSE <<Message("telemetry", topic, e.passed)>>
             ann == Announcement(e)
             ms == EventMessages(e, locked)
  <1>1. e.passed \in BOOLEAN /\ FALSE \in BOOLEAN
    BY DEF Events
  <1>2. Message("telemetry", "telemetry", e.passed) \in Current
        /\ Message("telemetry", "state_telemetry", e.passed) \in Current
        /\ Message("faults", "faults", e.passed) \in Current
    <2>1. "telemetry" \in {"telemetry", "event", "faults"} /\ "faults" \in {"telemetry", "event", "faults"}
      OBVIOUS
    <2>2. "telemetry" \in Topics /\ "state_telemetry" \in Topics /\ "faults" \in Topics
      BY DEF Topics
    <2>3. PICK late \in BOOLEAN : late = e.passed
      BY <1>1
    <2>4. Message("telemetry", "telemetry", late) \in Current
          /\ Message("telemetry", "state_telemetry", late) \in Current
          /\ Message("faults", "faults", late) \in Current
      BY <2>1, <2>2, MessagesAre
    <2> QED
      BY <2>3, <2>4
  <1>3. ann \in Current /\ ann.topic = "event" /\ ann.id = e.id
    <2> DEFINE m == Message("event", "event", FALSE)
    <2>1. snap.state \in States /\ snap.episode \in Nat
      BY LineIs DEF ClockInv
    <2>2. m \in Messages /\ m.state = snap.state /\ m.episode = snap.episode /\ m.topic = "event"
      BY <2>1 DEF Message, Messages, Topics, Faults
    <2>3. e.id \in Nat /\ e.fault \in Faults \cup {"none"}
      BY DEF Events
    <2>4. ann = [m EXCEPT !.id = e.id, !.fault = e.fault]
      BY DEF Announcement
    <2> HIDE DEF m, ann
    <2> QED
      BY <2>2, <2>3, <2>4, LineIs DEF Messages, Current, Made
  <1> HIDE DEF ann
  <1>4. Qos["event"] = 1
    BY DEF Qos
  <1>5. told("telemetry") \in Seq(Current) /\ told("state_telemetry") \in Seq(Current)
        /\ Len(told("state_telemetry")) \in 0..1
    BY <1>2
  <1>6. CASE e.type = "state"
    <2> DEFINE before == told("state_telemetry")
               after == IF e.to \in Alerting THEN <<ann>> ELSE <<>>
    <2>1. ms = before \o after
      BY <1>6 DEF EventMessages, ann
    <2>2. before \in Seq(Current) /\ Len(before) \in 0..1
      BY <1>5
    <2> HIDE DEF before
    <2>3. after \in Seq(Current)
      BY <1>3
    <2>4. ms \in Seq(Current)
      BY <2>1, <2>2, <2>3
    <2>5. ASSUME e.id # 0
          PROVE  \E k \in 1..2 : k \in DOMAIN ms /\ Qos[ms[k].topic] = 1 /\ ms[k].id = e.id
      <3>1. after = <<ann>>
        BY <2>5 DEF Announced
      <3> HIDE DEF after
      <3>2. /\ Len(before) + 1 \in 1..2 /\ Len(before) + 1 \in DOMAIN ms
            /\ ms[Len(before) + 1] = ann
        BY <1>3, <2>1, <2>2, <3>1
      <3> QED
        BY <1>3, <1>4, <3>2
    <2> QED
      BY <2>4, <2>5
  <1>7. CASE e.type = "fault"
    <2>1. ms = <<ann, Message("faults", "faults", e.passed)>>
      BY <1>7 DEF EventMessages, ann
    <2>2. e.id = 0
      BY <1>7 DEF Announced
    <2> QED
      BY <1>2, <1>3, <2>1, <2>2
  <1>8. CASE e.type = "sensor"
    <2>1. ms = told("telemetry")
      BY <1>8 DEF EventMessages
    <2>2. e.id = 0
      BY <1>8 DEF Announced
    <2> QED
      BY <1>5, <2>1, <2>2
  <1> QED
    BY <1>6, <1>7, <1>8 DEF Events

\* A routine message of the snapshot in force.
LEMMA RoutineIs ==
    ASSUME ClockInv(Clock), faults \subseteq Faults
    PROVE  Routine \in Seq(Current)
  <1>1. "telemetry" \in {"telemetry", "event", "faults"} /\ "telemetry" \in Topics
    BY DEF Topics
  <1>2. PICK late \in BOOLEAN : late = FALSE
    OBVIOUS
  <1>3. [Message("telemetry", "telemetry", late) EXCEPT !.routine = TRUE] \in Current
    BY <1>1, MessagesAre
  <1> DEFINE r == [Message("telemetry", "telemetry", late) EXCEPT !.routine = TRUE]
  <1>4. Routine = <<r>>
    BY <1>2 DEF Routine
  <1> HIDE DEF r
  <1>5. r \in Current
    BY <1>3 DEF r
  <1> QED
    BY <1>4, <1>5

\* What is left of the queue, whether or not it is marked as passed.
LEMMA LeftIs ==
    ASSUME QueueInv(events), events # <<>>, NEW merged \in BOOLEAN
    PROVE  LET left == Tail(events)
               later == IF merged THEN [k \in DOMAIN left |-> [left[k] EXCEPT !.passed = TRUE]] ELSE left
           IN  /\ Head(events) \in Events /\ Announced(Head(events))
               /\ QueueInv(later) /\ Nums(events) \subseteq Nums(later) \cup {Head(events).id}
  <1> DEFINE left == Tail(events)
             marked == [k \in DOMAIN left |-> [left[k] EXCEPT !.passed = TRUE]]
             later == IF merged THEN marked ELSE left
  <1>1. /\ events \in Seq(Events) /\ Len(events) <= QueueLen /\ Len(events) \in Nat
        /\ \A k \in DOMAIN events : Announced(events[k])
    BY DEF QueueInv
  <1>2. /\ 1 \in DOMAIN events /\ Head(events) = events[1] /\ Head(events) \in Events
        /\ left \in Seq(Events) /\ Len(left) = Len(events) - 1 /\ DOMAIN left = 1 .. Len(events) - 1
        /\ \A k \in DOMAIN left : k + 1 \in DOMAIN events /\ left[k] = events[k + 1]
    BY <1>1
  <1>3. \A k \in DOMAIN left : left[k] \in Events /\ Announced(left[k])
    BY <1>1, <1>2
  <1>4. \A k \in DOMAIN events : k = 1 \/ (k - 1 \in DOMAIN left /\ left[k - 1] = events[k])
    BY <1>1, <1>2
  <1> HIDE DEF left
  <1>5. Nums(events) \subseteq Nums(left) \cup {Head(events).id}
    <2> SUFFICES ASSUME NEW k \in DOMAIN events
                 PROVE  events[k].id \in Nums(left) \cup {Head(events).id}
      BY DEF Nums
    <2>1. CASE k = 1
      BY <1>2, <2>1
    <2>2. CASE k # 1
      BY <1>4, <2>2 DEF Nums
    <2> QED
      BY <2>1, <2>2
  <1>6. QueueInv(left)
    <2>1. Len(left) <= QueueLen
      <3>1. Len(left) = Len(events) - 1 /\ QueueLen \in Nat
        BY <1>2
      <3> QED
        BY <1>1, <3>1
    <2> QED
      BY <1>2, <1>3, <2>1 DEF QueueInv
  <1>7. QueueInv(marked) /\ Nums(marked) = Nums(left)
    <2>1. \A k \in DOMAIN left :
             /\ [left[k] EXCEPT !.passed = TRUE] \in Events
             /\ [left[k] EXCEPT !.passed = TRUE].id = left[k].id
             /\ Announced([left[k] EXCEPT !.passed = TRUE])
      <3>1. ASSUME NEW e \in Events, Announced(e)
            PROVE  /\ [e EXCEPT !.passed = TRUE] \in Events
                   /\ [e EXCEPT !.passed = TRUE].id = e.id
                   /\ Announced([e EXCEPT !.passed = TRUE])
        BY <3>1 DEF Events, Announced
      <3> QED
        BY <1>3, <3>1
    <2>2. marked \in [1 .. Len(left) -> Events] /\ Len(left) \in Nat
      BY <1>1, <1>2, <2>1
    <2>3. marked \in Seq(Events) /\ Len(marked) = Len(left) /\ DOMAIN marked = DOMAIN left
      BY <1>2, <2>2
    <2> QED
      BY <1>6, <2>1, <2>3 DEF QueueInv, Nums
  <1> QED
    BY <1>2, <1>1, <1>5, <1>6, <1>7 DEF left

\* A pass: an alert that leaves the queue is stored, waits in the outbox, or is
\* counted as refused.
LEMMA PassKeeps ==
    ASSUME TelemetryInv, NEW due \in BOOLEAN, NEW locked \in BOOLEAN,
           NEW holds \in BOOLEAN, Pass(due, locked, holds)
    PROVE  TelemetryInv'
  <1> DEFINE taken == events # <<>>
             told == IF taken THEN EventMessages(Head(events), locked) ELSE <<>>
             routine == IF due THEN Routine ELSE <<>>
             messages == told \o routine
             left == IF taken THEN Tail(events) ELSE <<>>
             marked == [k \in DOMAIN left |-> [left[k] EXCEPT !.passed = TRUE]]
  <1>1. /\ UNCHANGED <<state, episode, over, pc, snap, dropped, faults, expired, changes>>
        /\ \E line \in PublishAll(messages) :
              /\ holds <=> line.conn = conn
              /\ outbox' = line.outbox /\ device' = line.device
              /\ events' = (IF line.merged THEN marked ELSE left)
              /\ pending' = pending \ line.done
              /\ IF holds THEN conn' = conn ELSE conn' = "down"
    BY DEF Pass, controller, Lose
  <1>2. PICK line \in PublishAll(messages) :
              /\ outbox' = line.outbox /\ device' = line.device
              /\ events' = (IF line.merged THEN marked ELSE left)
              /\ pending' = pending \ line.done
              /\ conn' \in {conn, "down"}
    BY <1>1
  <1>3. /\ ClockInv(Clock) /\ LineInv(Clock, Line) /\ QueueInv(events) /\ faults \subseteq Faults
        /\ pending \subseteq 1 .. changes /\ changes \in Nat
        /\ pending \subseteq Nums(events) \cup Ids(outbox) \cup expired
        /\ Stale(outbox) \subseteq expired
        /\ OutboxRoom \in Nat /\ QueueLen \in Nat
    BY DEF TelemetryInv
  <1>4. routine \in Seq(Current)
    BY <1>3, RoutineIs
  <1> HIDE DEF routine
  <1>5. /\ told \in Seq(Current)
        /\ taken /\ Head(events).id # 0 =>
              \E k \in 1..2 : k \in DOMAIN told /\ Qos[told[k].topic] = 1 /\ told[k].id = Head(events).id
    <2>1. CASE taken
      <3>1. Head(events) \in Events /\ Announced(Head(events))
        <4>1. events \in Seq(Events) /\ 1 \in DOMAIN events /\ Head(events) = events[1]
              /\ Announced(events[1])
          BY <1>3, <2>1 DEF QueueInv
        <4> QED
          BY <4>1
      <3> QED
        BY <1>3, <2>1, <3>1, Announces
    <2>2. CASE ~ taken
      BY <2>2
    <2> QED
      BY <2>1, <2>2
  <1> HIDE DEF told
  <1>6. /\ messages \in Seq(Current)
        /\ \A k \in DOMAIN told : k \in DOMAIN messages /\ messages[k] = told[k]
    BY <1>4, <1>5
  <1> HIDE DEF messages
  <1>7. \A k \in DOMAIN messages : Made(Clock, messages[k])
    <2>1. \A k \in DOMAIN messages : messages[k] \in Current
      BY <1>6
    <2> QED
      BY <2>1 DEF Current
  <1>8. Through(Clock, Line, line) /\ \A k \in 1..3 : k \in DOMAIN messages => Sent(messages[k], line)
    BY <1>2, <1>3, <1>7, PublishesAll
  <1>9. LineInv(Clock, line) /\ line \in Lines /\ Ids(outbox) \subseteq Ids(line.outbox)
        /\ Stale(line.outbox) \subseteq Stale(outbox)
    BY <1>8, LineIs DEF Through, LineInv
  <1>10. QueueInv(events') /\ (taken => Nums(events) \subseteq Nums(events') \cup {Head(events).id})
         /\ (~ taken => Nums(events) = {})
    <2>1. line.merged \in BOOLEAN
      BY <1>9 DEF Lines
    <2>2. CASE taken
      <3>1. left = Tail(events)
        BY <2>2
      <3> QED
        BY <1>2, <1>3, <2>1, <2>2, <3>1, LeftIs
    <2>3. CASE ~ taken
      <3>1. left = <<>> /\ marked = <<>>
        BY <2>3
      <3> QED
        BY <1>2, <1>3, <2>3, <3>1 DEF QueueInv, Nums
    <2> QED
      BY <2>2, <2>3
  <1>11. taken /\ Head(events).id # 0 => Head(events).id \in line.done \cup Ids(line.outbox)
    <2> SUFFICES ASSUME taken, Head(events).id # 0
                 PROVE  Head(events).id \in line.done \cup Ids(line.outbox)
      OBVIOUS
    <2>1. PICK k \in 1..2 : k \in DOMAIN told /\ Qos[told[k].topic] = 1 /\ told[k].id = Head(events).id
      BY <1>5
    <2>2. k \in 1..3 /\ k \in DOMAIN messages /\ messages[k] = told[k]
      BY <1>6, <2>1
    <2> QED
      BY <1>8, <2>1, <2>2 DEF Sent
  <1>12. /\ pending' \subseteq pending /\ pending' \subseteq Nums(events') \cup Ids(outbox') \cup expired'
         /\ Stale(outbox') \subseteq expired'
    <2> SUFFICES ASSUME NEW x \in pending, x \notin line.done, x \notin expired
                 PROVE  x \in Nums(events') \cup Ids(line.outbox)
      BY <1>1, <1>2, <1>3, <1>9
    <2>1. x # 0 /\ x \in Nums(events) \cup Ids(outbox)
      BY <1>3
    <2> QED
      BY <1>9, <1>10, <1>11, <2>1
  <1>13. conn' \in Conns
    BY <1>2, <1>3, LineIs DEF LineInv, Lines, Conns
  <1> QED
    BY <1>1, <1>2, <1>9, <1>10, <1>12, <1>13, Carries

-----------------------------------------------------------------------------
(* The restart of the controller, and all its steps. *)

LEMMA RestartKeeps ==
    ASSUME TelemetryInv, ControllerRestarts
    PROVE  TelemetryInv'
  <1> DEFINE now == IF device.boot = "current" THEN "older" ELSE device.boot
             line == [Line EXCEPT !.outbox = <<>>, !.device = device', !.conn = "none"]
  <1>1. /\ state' = "calm" /\ over' = TRUE /\ pc' = "step" /\ snap' = [state |-> "calm", episode |-> episode]
        /\ events' = <<>> /\ dropped' = FALSE /\ faults' = {} /\ conn' = "none" /\ outbox' = <<>>
        /\ device' = [device EXCEPT !.boot = now]
        /\ pending' = {} /\ expired' = {} /\ episode' = episode /\ changes' = changes
    BY DEF ControllerRestarts
  <1>2. /\ RunInv(state, [episode |-> episode, over |-> over]) /\ ClockInv(Clock) /\ LineInv(Clock, Line)
        /\ changes \in Nat /\ episode <= changes /\ changes <= MaxChanges
    BY DEF TelemetryInv
  <1>3. episode \in Nat /\ snap.episode \in Nat /\ snap.episode <= episode
    BY <1>2, LineIs DEF RunInv, ClockInv
  <1>4. device \in Devices /\ DeviceInv(Clock, device)
    BY <1>2, LineIs DEF LineInv, Lines
  <1>5. ClockInv(Clock')
    <2>1. Clock' = [snap |-> [state |-> "calm", episode |-> episode], episode |-> episode, over |-> TRUE]
      BY <1>1, LineIsNext
    <2> QED
      BY <1>3, <2>1, StatesAre DEF ClockInv, States, Spent
  <1>6. RunInv(state', [episode |-> episode', over |-> over'])
    BY <1>1, <1>3, StatesAre DEF RunInv, States
  <1>7. \A x \in Nat : x <= episode => Gone(Clock', x)
    BY <1>1, <1>3, LineIsNext, StatesAre DEF Gone, Past, Spent
  <1>8. /\ device' \in Devices /\ device'.incident = device.incident /\ device'.ended = device.ended
        /\ device'.boot = "none" => device.boot = "none"
    <2>1. now \in {"none", "older", "current"} /\ (now = "none" => device.boot = "none")
      BY <1>4 DEF Devices
    <2> HIDE DEF now
    <2> QED
      BY <1>1, <1>4, <2>1 DEF Devices
  <1>9. DeviceInv(Clock', device')
    <2>1. /\ device.ended \subseteq Nat /\ device.incident.episode \in Nat
      BY <1>4 DEF Devices
    <2>2. ASSUME NEW x \in device.ended
          PROVE  x >= 1 /\ Gone(Clock', x) /\ x # device.incident.episode
      <3>1. x \in Nat /\ x >= 1 /\ x <= episode /\ x # device.incident.episode
        BY <1>3, <1>4, <2>1, <2>2, LineIs DEF DeviceInv, Gone, Past
      <3> QED
        BY <1>7, <3>1
    <2>3. \/ device.incident = NoIncident
          \/ /\ device.incident.peak >= 1 /\ device.incident.episode \in 1 .. episode
             /\ Gone(Clock', device.incident.episode)
      <3>1. CASE device.incident = NoIncident
        BY <3>1
      <3>2. CASE device.incident # NoIncident
        <4>1. device.incident.peak >= 1 /\ device.incident.episode \in 1 .. snap.episode
          BY <1>4, <3>2, LineIs DEF DeviceInv
        <4>2. device.incident.episode <= episode
          BY <1>3, <4>1
        <4> QED
          BY <1>3, <1>7, <2>1, <4>1, <4>2
      <3> QED
        BY <3>1, <3>2
    <2>4. Clock'.snap.episode = episode
      BY <1>1, LineIsNext
    <2> QED
      BY <1>4, <1>8, <2>2, <2>3, <2>4, LineIs DEF DeviceInv
  <1>10. LineInv(Clock', Line')
    <2>1. Line' \in Lines
      BY <1>1, <1>8, LineIsNext DEF Lines, Conns
    <2>2. BoxInv(Clock', <<>>, device') /\ Len(<<>>) <= OutboxRoom
      BY DEF BoxInv
    <2> QED
      BY <1>1, <1>9, <2>1, <2>2, LineIsNext DEF LineInv
  <1>11. /\ QueueInv(events') /\ pending' \subseteq 1 .. changes' /\ Stale(outbox') \subseteq expired'
         /\ pending' \subseteq Nums(events') \cup Ids(outbox') \cup expired'
    BY <1>1 DEF QueueInv, Stale
  <1>12. dropped' \in BOOLEAN /\ faults' \subseteq Faults /\ pc' \in {"step", "snapshot"}
    BY <1>1
  <1> QED
    BY <1>1, <1>2, <1>5, <1>6, <1>10, <1>11, <1>12 DEF TelemetryInv

LEMMA TelemetryStep ==
    ASSUME TelemetryInv, [Next]_vars
    PROVE  TelemetryInv'
  <1>1. CASE SafetyStep
    <2>1. PICK path \in Paths, sensor \in {<<>>, <<Event("sensor")>>} : Loop(path, sensor)
      BY <1>1 DEF SafetyStep
    <2> QED
      BY <2>1, LoopKeeps
  <1>2. CASE \E busy \in BOOLEAN : Snapshot(busy)
    BY <1>2, SnapshotKeeps
  <1>3. CASE TelemetryPass
    <2>1. PICK due, locked, holds \in BOOLEAN : Pass(due, locked, holds)
      BY <1>3 DEF TelemetryPass
    <2> QED
      BY <2>1, PassKeeps
  <1>4. CASE StartClient \/ Connect \/ Disconnect
    <2>1. /\ conn' \in Conns
          /\ UNCHANGED <<state, episode, over, pc, snap, events, dropped, faults, outbox, device, changes>>
          /\ pending' = pending /\ expired' = expired
      BY <1>4 DEF StartClient, Connect, Disconnect, ConnectionOnly, Lose, controller, queue, Conns
    <2> QED
      BY <2>1, ConnectionKeeps
  <1>5. CASE \E acked \in BOOLEAN : Resend(acked)
    BY <1>5, ResendKeeps
  <1>6. CASE ControllerRestarts
    BY <1>6, RestartKeeps
  <1>7. CASE \E k \in DOMAIN outbox : ThirtySeconds(k)
    BY <1>7, WaitKeeps
  <1>8. CASE DeleteExpired
    BY <1>8, DeleteKeeps
  <1>9. CASE UNCHANGED vars
    <2>1. /\ UNCHANGED <<state, episode, over, pc, snap, events, dropped, faults, conn, outbox, device>>
          /\ UNCHANGED <<pending, expired, changes>>
      BY <1>9 DEF vars
    <2>2. conn' \in Conns
      BY <2>1, LineIs DEF TelemetryInv, LineInv, Lines
    <2> QED
      BY <2>1, <2>2, ConnectionKeeps
  <1> QED
    BY <1>1, <1>2, <1>3, <1>4, <1>5, <1>6, <1>7, <1>8, <1>9 DEF Next

LEMMA TelemetryAlways == Spec => []TelemetryInv
  <1>1. Init => TelemetryInv
    BY TelemetryStarts
  <1>2. TelemetryInv /\ [Next]_vars => TelemetryInv'
    BY TelemetryStep
  <1> QED
    BY <1>1, <1>2, PTL DEF Spec

\* rb_mqtt.h promises that "QoS 1 is kept in the bounded outbox and sent after
\* reconnect": whatever breaks, restarts or is overtaken, an alert that was posted
\* and not yet stored is in the event queue or in the outbox, unless its loss was
\* counted (rb_controller_post_event, rb_mqtt_publish) or it waited in the outbox for
\* the 30 s after which the client deletes what it was asked to keep (DeleteExpired).
THEOREM NothingIsLost == Spec => []NothingLostSilently
  <1>1. TelemetryInv => NothingLostSilently
    BY NothingAmiss
  <1> QED
    BY <1>1, TelemetryAlways, PTL

\* incidents.py has one incident for one unattended episode: for every order in
\* which messages reach the dashboard, and after every restart, an episode whose
\* incident was closed is never opened again (record_state, track_boot).
THEOREM OneIncident == Spec => []OncePerEpisode
  <1>1. TelemetryInv => OncePerEpisode
    BY NothingAmiss
  <1> QED
    BY <1>1, TelemetryAlways, PTL
=============================================================================
