---------------------------- MODULE Connectivity ----------------------------
(***************************************************************************)
(* The MQTT connection over the uplink of Net: rb_connectivity.c, which       *)
(* follows the interface that rb_net.c reports, and rb_mqtt.c, which goes     *)
(* round the configured brokers.  The MQTT client itself is external: it      *)
(* runs in a task of its own, its connection belongs to the interface that    *)
(* was in use when it was made, and it notices in the end when that is gone.  *)
(***************************************************************************)
EXTENDS Net

CONSTANTS
    Uris,               \* the brokers that are configured, of 0, 1 and 2; 0 always is
    AtBoot              \* those that answer at boot

VARIABLES
    over,       \* s_mqtt_interface; "none" while s_services_started is false
    mqtt,       \* rb_mqtt.c: s_state, or "off" without a client
    uri,        \* s_uri
    conn,       \* external: the interface of the client's connection
    brokers     \* external: the brokers that answer

mqttVars == <<over, mqtt, uri, conn>>
vars == <<netVars, mqttVars, brokers>>

-----------------------------------------------------------------------------

\* The next broker is the first one again after a gap.
NextUriMutant(u) == IF (u + 1) % 3 \in Uris THEN (u + 1) % 3 ELSE u

\* next_uri: the next one that is configured.
NextUri(u) == IF (u + 1) % 3 \in Uris THEN (u + 1) % 3
              ELSE IF (u + 2) % 3 \in Uris THEN (u + 2) % 3 ELSE u

\* on_event: DISCONNECTED, also after each failed attempt.
Disconnected == mqtt' = "disconnected" /\ uri' = NextUri(uri) /\ conn' = "none"

Attempt(iface) == mqtt' = "connecting" /\ conn' = iface /\ UNCHANGED uri

\* rb_mqtt_reconnect: an attempt under way is left to fail.
Reconnect(iface) ==
    CASE mqtt = "connected" -> Disconnected
      [] mqtt = "disconnected" -> Attempt(iface)
      [] OTHER -> UNCHANGED <<mqtt, uri, conn>>

\* The connection has to be made, or made again on another interface.
Follows(iface) == over # iface

\* on_net_state, in the event loop, for a step that changed what is reported.
OnNetState ==
    IF state' = "connected" /\ <<active', state'>> # <<active, state>> /\ Follows(active')
    THEN /\ over' = active'
         /\ IF over = "none" THEN Attempt(active') ELSE Reconnect(active')
    ELSE UNCHANGED mqttVars

\* The interface that traffic takes: Ethernet has priority.
Route == IF link = "ip" THEN "Ethernet" ELSE IF sta.mode = "online" THEN "Wi-Fi" ELSE "none"

Alive(iface) == (iface = "Ethernet" /\ link = "ip") \/ (iface = "Wi-Fi" /\ sta.mode = "online")

\* on_event: BEFORE_CONNECT, after CONFIG_RB_MQTT_RECONNECT_MS.
BeforeConnect ==
    /\ mqtt = "disconnected" /\ Attempt(Route)
    /\ UNCHANGED <<netVars, over, brokers>>

\* on_event: CONNECTED
BrokerConnected ==
    /\ mqtt = "connecting" /\ Alive(conn) /\ uri \in brokers
    /\ mqtt' = "connected"
    /\ UNCHANGED <<netVars, over, uri, conn, brokers>>

\* on_event: DISCONNECTED
BrokerDisconnected ==
    /\ mqtt \in {"connecting", "connected"}
    /\ ~Alive(conn) \/ uri \notin brokers
    /\ Disconnected
    /\ UNCHANGED <<netVars, over, brokers>>

BrokersChange ==
    /\ changes < MaxChanges /\ changes' = changes + 1
    /\ brokers' \in SUBSET Uris \ {brokers}
    /\ UNCHANGED <<ifaces, timers, network, failures, events, link, station, cable, air, mqttVars>>

Client == BeforeConnect \/ BrokerConnected \/ BrokerDisconnected

Init ==
    /\ NetInit
    /\ over = "none" /\ mqtt = "off" /\ uri = 0 /\ conn = "none"
    /\ brokers = AtBoot

NetStep == NetNext /\ OnNetState /\ UNCHANGED brokers

Next == NetStep \/ Client \/ BrokersChange

\* The event loop and the drivers work on, timers fire, and the client's task
\* runs.  The world changes at will.
Fairness ==
    /\ WF_vars(EventLoop /\ OnNetState /\ UNCHANGED brokers)
    /\ WF_vars(RetryConnect /\ OnNetState /\ UNCHANGED brokers)
    /\ WF_vars(FallbackDue /\ OnNetState /\ UNCHANGED brokers)
    /\ WF_vars(EthernetDriver /\ OnNetState /\ UNCHANGED brokers)
    /\ WF_vars(WifiDriver /\ OnNetState /\ UNCHANGED brokers)
    /\ WF_vars(Client)

Spec == Init /\ [][Next]_vars /\ Fairness

-----------------------------------------------------------------------------
(* Properties *)

\* Once an uplink works and stays, and a broker answers and stays, telemetry has
\* its connection again, over the interface that is in use, however the cable,
\* the networks, the brokers and the timers played together.
ServedInTheEnd ==
    <>[](Uplink /\ brokers # {}) => <>[](mqtt = "connected" /\ conn = active)
=============================================================================
