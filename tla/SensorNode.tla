----------------------------- MODULE SensorNode -----------------------------
(***************************************************************************)
(* One sensor node as the controller sees it, sensor_node.c: which packets   *)
(* of it count, when its link is lost and when its reading may be used.      *)
(*                                                                         *)
(* The node and the radio are external: the node stamps its packets with its *)
(* uptime and a sequence number that start over at a reboot (rb_espnow_send, *)
(* rb_node_link_send); the radio loses, repeats, delays and reorders them.   *)
(* The safety task takes a packet and evaluates the node in one loop; what   *)
(* sensor_node_evaluate stores is worked out from the rest of the slot, and  *)
(* is an operator here.  Instants are kept as their age, up to the longest    *)
(* that anything compares; silences of 2^32 ms are left out.                *)
(***************************************************************************)
EXTENDS Naturals, FiniteSets

CONSTANTS
    Stale, Offline,               \* the health settings
    Margin,                       \* NODE_RESTART_UPTIME_MARGIN_MS
    UptimeWrap,                   \* 2^32 in the code
    MaxDelay,                     \* the longest a packet is in the air
    BootTime,                     \* the shortest reboot
    Burst,                        \* the most packets a tick, on average
    MaxUptime,                    \* bound on one life of the node
    FlightMax                     \* bound on the packets in the air

ASSUME HealthAssumption ==
    Stale \in Nat \ {0} /\ Offline \in Nat /\ Stale <= Offline
ASSUME RadioAssumption ==
    /\ MaxDelay \in Nat /\ BootTime \in Nat /\ Margin \in Nat
    /\ MaxDelay < BootTime /\ MaxDelay <= Margin
    /\ UptimeWrap \in Nat \ {0} /\ MaxUptime \in Nat /\ Burst \in Nat \ {0} /\ FlightMax \in Nat

VARIABLES
    node,    \* the node: time left of its reboot, its uptime and sequence
    air,     \* its packets in the air
    slot,    \* sensor_node_state_t
    truth    \* history: the true ages of what the slot holds

nvars == <<node, air, slot, truth>>

Kinds == {"data", "invalid", "other"}

Packet == [kind : Kinds, uptime : Nat, sequence : Nat, age : 0..MaxDelay]

\* No comparison tells ages above these apart.
SilentMax == Offline
HeardMax == MaxDelay + MaxUptime + BootTime
ReadingMax == Stale + MaxDelay

Slot ==
    [ seen : BOOLEAN,                  \* packets > 0
      last_sequence : Nat, last_uptime : Nat,
      silent : 0..SilentMax,           \* since last_received_ms
      has_data : BOOLEAN, valid : BOOLEAN,
      data_age : 0..Stale ]            \* since latest_data_rx_ms

Truth == [heard : 0..HeardMax, reading : 0..ReadingMax]

NodeTypeOK ==
    /\ node \in [booting : 0..BootTime, uptime : Nat, sequence : Nat]
    /\ air \subseteq Packet
    /\ slot \in Slot
    /\ truth \in Truth

\* sensor_node_init
FreshSlot ==
    [ seen |-> FALSE, last_sequence |-> 0, last_uptime |-> 0, silent |-> 0,
      has_data |-> FALSE, valid |-> FALSE, data_age |-> 0 ]

NodeInit ==
    /\ node = [booting |-> 0, uptime |-> 0, sequence |-> 0]
    /\ air = {}
    /\ slot = FreshSlot
    /\ truth = [heard |-> 0, reading |-> 0]

-----------------------------------------------------------------------------
(* A packet. *)

\* Mutants: no margin; a sequence that goes back is a gap.
RebootedMutant(p) == p.uptime < slot.last_uptime
LateMutant(p) == FALSE

\* The uptime tells a reboot from a late packet; the margin is added in a word
\* of the code's width.
Rebooted(p) == (p.uptime + Margin) % UptimeWrap < slot.last_uptime

Late(p) == p.sequence < slot.last_sequence

Classify(p) ==
    IF ~slot.seen THEN "first"
    ELSE IF Rebooted(p) THEN "restart"
    ELSE IF p.sequence = slot.last_sequence THEN "duplicate"
    ELSE IF Late(p) THEN "out_of_order"
    ELSE IF p.sequence = slot.last_sequence + 1 THEN "ok"
    ELSE "gap"

Accepted == {"first", "ok", "gap", "restart"}

\* A mutant: any packet refreshes the reading.
StoreMutant(s, p) ==
    [s EXCEPT !.data_age = 0, !.has_data = @ \/ p.kind # "other",
              !.valid = IF p.kind = "other" THEN @ ELSE p.kind = "data"]

\* A data packet replaces the reading; any other only proves the node alive.
Store(s, p) ==
    IF p.kind = "other" THEN s
    ELSE [s EXCEPT !.has_data = TRUE, !.data_age = 0, !.valid = (p.kind = "data")]

\* sensor_node_on_packet, of a packet it accepts.
Accept(p) ==
    Store([slot EXCEPT !.seen = TRUE, !.last_sequence = p.sequence,
                       !.last_uptime = p.uptime, !.silent = 0], p)

OnPacket(p) ==
    IF Classify(p) \in Accepted
    THEN /\ slot' = Accept(p)
         /\ truth' = [heard |-> p.age,
                      reading |-> IF p.kind = "other" THEN truth.reading ELSE p.age]
    ELSE UNCHANGED <<slot, truth>>

-----------------------------------------------------------------------------
(* sensor_node_evaluate. *)

Link ==
    IF ~slot.seen THEN "NEVER_SEEN"
    ELSE IF slot.silent >= Offline THEN "OFFLINE"
    ELSE IF slot.silent >= Stale THEN "STALE"
    ELSE "ONLINE"

\* A reading only counts if the node is ONLINE and the data itself is fresh.
SensorOk ==
    Link = "ONLINE" /\ slot.has_data /\ slot.data_age < Stale /\ slot.valid

-----------------------------------------------------------------------------
(* The node, the radio and time. *)

\* A packet that is sent may be lost at once.
Send(kind) ==
    /\ node.booting = 0 /\ node.sequence < Burst * (node.uptime + 1)
    /\ node' = [node EXCEPT !.sequence = @ + 1]
    /\ LET p == [kind |-> kind, uptime |-> node.uptime, sequence |-> node.sequence + 1, age |-> 0]
       IN  \/ air' = air
           \/ Cardinality(air) < FlightMax /\ air' = air \cup {p}
    /\ UNCHANGED <<slot, truth>>

\* A delivered packet may be delivered again.
Deliver(p) ==
    /\ OnPacket(p)
    /\ air' \in {air, air \ {p}}
    /\ UNCHANGED node

NodeReboot ==
    /\ node' = [booting |-> BootTime, uptime |-> 0, sequence |-> 0]
    /\ UNCHANGED <<air, slot, truth>>

\* The controller restarts: it has never seen the node.
ControllerReboot ==
    /\ slot' = FreshSlot
    /\ truth' = [heard |-> 0, reading |-> 0]
    /\ UNCHANGED <<node, air>>

Older(age, cap) == IF age < cap THEN age + 1 ELSE cap

\* A node that is up sends at least once a tick: its data is due every data
\* period (link_task).
Tick ==
    /\ \A p \in air : p.age < MaxDelay
    /\ node.booting = 0 => node.sequence > node.uptime
    /\ node.uptime < MaxUptime
    /\ air' = {[p EXCEPT !.age = @ + 1] : p \in air}
    /\ node' = IF node.booting > 0 THEN [node EXCEPT !.booting = @ - 1]
               ELSE [node EXCEPT !.uptime = (@ + 1) % UptimeWrap]
    /\ slot' = [slot EXCEPT !.silent = Older(@, SilentMax), !.data_age = Older(@, Stale)]
    /\ truth' = [heard |-> Older(truth.heard, HeardMax),
                 reading |-> Older(truth.reading, ReadingMax)]

NodeNext ==
    \/ \E kind \in Kinds : Send(kind)
    \/ \E p \in air : Deliver(p)
    \/ NodeReboot
    \/ ControllerReboot
    \/ Tick

NodeSpec == NodeInit /\ [][NodeNext]_nvars

-----------------------------------------------------------------------------
\* A reading the controller uses was taken less than the stale time and the
\* longest delay ago, however many other packets keep the node ONLINE and
\* whatever was repeated, reordered or lost.
UsedIsFresh == SensorOk => truth.reading < Stale + MaxDelay

\* While delays stay within the margin and reboots take longer than a delay, no
\* packet replaces one the node sent after it.
NeverBackwards ==
    [][\A p \in air : Deliver(p) /\ slot.seen /\ slot' # slot => p.age <= truth.heard]_nvars

\* A packet that passes for the first of a rebooted node is: the node has
\* rebooted since it sent the last one accepted, and no reordering makes a
\* restart up.
RestartIsReal ==
    [][\A p \in air : Deliver(p) /\ slot.seen /\ slot'.last_uptime < slot.last_uptime =>
          truth.heard > p.age + p.uptime]_nvars
=============================================================================
