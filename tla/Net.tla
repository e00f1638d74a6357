--------------------------------- MODULE Net ---------------------------------
(***************************************************************************)
(* The controller's uplink, rb_net.c: Ethernet while it has an address,       *)
(* otherwise one of the two Wi-Fi networks, in turn.                         *)
(*                                                                         *)
(* All decisions are taken in the default event loop, which handles the       *)
(* events of the drivers one by one, in order; the two timers may fire in     *)
(* between.  A timer callback is not cut in two: its task has priority over   *)
(* the event loop.  How long a timer runs is abstracted, except that the      *)
(* fallback time (seconds) is long enough for the Wi-Fi driver to leave.      *)
(* The drivers, the cable and the access points are external: a network of    *)
(* the air is off, lets stations in but gives no address, or works.          *)
(***************************************************************************)
EXTENDS Naturals, Sequences

CONSTANTS
    NetworkCount,       \* network_count: stored Wi-Fi networks, 1 or 2
    SwitchAfter,        \* CONFIG_RB_WIFI_SWITCH_AFTER
    MaxChanges          \* bound: changes of the world around

ASSUME NetAssumption == NetworkCount \in Nat \ {0} /\ SwitchAfter \in Nat \ {0}

Networks == 0 .. NetworkCount - 1

VARIABLES
    eth, wifi,      \* s_eth.state and s_wifi.state
    active,         \* s_active
    state,          \* s_state
    fallback,       \* s_fallback_timer runs
    retry,          \* s_retry_timer runs
    network,        \* s_network
    failures,       \* s_failures
    events,         \* the queue of the default event loop
    cable, link,    \* external: the Ethernet cable, and what its driver made of it
    air,            \* external: each Wi-Fi network
    sta,            \* external: the Wi-Fi station, its network and a request to leave
    channel,        \* external: the radio channel, which ESP-NOW shares
    changes         \* bound: changes so far

ifaces == <<eth, wifi, active, state>>
timers == <<fallback, retry>>
station == <<sta, channel>>
world == <<cable, air, changes>>
netVars == <<ifaces, timers, network, failures, events, link, station, world>>

States == {"disabled", "down", "link_up", "connected"}
Modes == {"idle", "connecting", "associated", "online"}

-----------------------------------------------------------------------------
(* The Wi-Fi station, as esp_wifi_... drives it *)

\* esp_wifi_connect: nothing happens unless the station is idle.  It searches
\* all channels.
Connect ==
    IF sta.mode = "idle" THEN sta' = [mode |-> "connecting", net |-> network', leave |-> FALSE] /\ channel' = "away"
    ELSE UNCHANGED station

\* A station is left in one go, and the channel with it.
LeaveStationMutant ==
    sta' = [sta EXCEPT !.leave = (sta.mode # "idle")] /\ UNCHANGED channel

\* esp_wifi_disconnect, then restore_channel, which only works once the station
\* is idle: otherwise it is done again when the driver has left.
LeaveStation ==
    /\ sta' = [sta EXCEPT !.leave = (sta.mode # "idle")]
    /\ channel' = IF sta.mode = "idle" THEN "home" ELSE channel

-----------------------------------------------------------------------------
(* The event loop *)

\* Ethernet while it has an address, otherwise Wi-Fi if it is in use.
Best == IF eth' = "connected" \/ wifi' = "disabled" THEN "Ethernet" ELSE "Wi-Fi"

\* update
Update ==
    /\ active' = Best
    /\ state' = IF Best = "Ethernet" THEN eth' ELSE wifi'

\* wifi_leave
WifiLeave ==
    /\ wifi' = "disabled" /\ retry' = FALSE
    /\ LeaveStation

\* A timer that has fired is not started again.
FallbackMutant == fallback

\* The fallback timer after an Ethernet event that leaves it without an address.
Fallback == fallback \/ wifi = "disabled"

\* ethernet_changed
EthernetChanged ==
    /\ fallback' = IF eth' = "connected" THEN FALSE ELSE Fallback
    /\ IF eth' = "connected" /\ wifi # "disabled" THEN WifiLeave
       ELSE UNCHANGED <<wifi, retry, station>>

Handle(kind) == events # <<>> /\ Head(events) = kind /\ events' = Tail(events)

\* on_eth_event
OnEthEvent ==
    /\ \/ Handle("eth_up") /\ eth' = "link_up"
       \/ Handle("eth_down") /\ eth' = "down"
    /\ EthernetChanged
    /\ Update
    /\ UNCHANGED <<network, failures, link, world>>

\* on_got_ip, of Ethernet
OnEthGotIp ==
    /\ Handle("eth_ip")
    /\ eth' = "connected"
    /\ EthernetChanged
    /\ Update
    /\ UNCHANGED <<network, failures, link, world>>

\* on_got_ip, of Wi-Fi
OnWifiGotIp ==
    /\ Handle("wifi_ip")
    /\ wifi' = IF wifi = "disabled" THEN wifi ELSE "connected"
    /\ failures' = IF wifi = "disabled" THEN failures ELSE 0
    /\ UNCHANGED eth
    /\ IF wifi = "disabled" THEN UNCHANGED <<active, state>> ELSE Update
    /\ UNCHANGED <<timers, network, link, station, world>>

\* on_wifi_event: CONNECTED
OnWifiConnected ==
    /\ Handle("wifi_up")
    /\ wifi' = IF wifi = "disabled" THEN wifi ELSE "link_up"
    /\ UNCHANGED eth
    /\ IF wifi = "disabled" THEN UNCHANGED <<active, state>> ELSE Update
    /\ UNCHANGED <<timers, network, failures, link, station, world>>

\* on_wifi_event: DISCONNECTED after wifi_leave
OnWifiLeft ==
    /\ wifi = "disabled" /\ Handle("wifi_down")
    /\ channel' = IF sta.mode = "idle" THEN "home" ELSE channel
    /\ UNCHANGED <<ifaces, timers, network, failures, link, sta, world>>

\* Time for the other network.
Switches == NetworkCount > 1 /\ failures + 1 >= SwitchAfter

\* on_wifi_event: DISCONNECTED while in use; the retry may go to the other network.
OnWifiDisconnected ==
    /\ wifi # "disabled" /\ Handle("wifi_down")
    /\ wifi' = "down"
    /\ UNCHANGED eth
    /\ Update
    /\ network' = IF Switches THEN (network + 1) % NetworkCount ELSE network
    /\ failures' = IF Switches THEN 0 ELSE IF NetworkCount > 1 THEN failures + 1 ELSE failures
    /\ retry' = TRUE
    /\ UNCHANGED <<fallback, link, station, world>>

\* on_fallback with wifi_join
OnFallback ==
    /\ Handle("fallback")
    /\ UNCHANGED eth
    /\ IF eth = "connected" \/ wifi # "disabled"
       THEN UNCHANGED <<wifi, active, state, failures, network, station>>
       ELSE /\ wifi' = "down" /\ failures' = 0
            /\ UNCHANGED network
            /\ Connect
            /\ Update
    /\ UNCHANGED <<timers, link, world>>

EventLoop ==
    \/ OnEthEvent \/ OnEthGotIp \/ OnFallback
    \/ OnWifiGotIp \/ OnWifiConnected \/ OnWifiLeft \/ OnWifiDisconnected

-----------------------------------------------------------------------------
(* Timers *)

\* retry_connect
RetryConnect ==
    /\ retry /\ retry' = FALSE
    /\ UNCHANGED network
    /\ Connect
    /\ UNCHANGED <<ifaces, fallback, failures, events, link, world>>

\* fallback_due
FallbackDue ==
    /\ fallback /\ ~sta.leave
    /\ fallback' = FALSE
    /\ events' = Append(events, "fallback")
    /\ UNCHANGED <<ifaces, retry, network, failures, link, station, world>>

-----------------------------------------------------------------------------
(* The drivers, and the world they see *)

EthernetDriver ==
    /\ \/ link = "down" /\ cable \in {"no_lease", "works"} /\ link' = "up" /\ events' = Append(events, "eth_up")
       \/ link = "up" /\ cable = "works" /\ link' = "ip" /\ events' = Append(events, "eth_ip")
       \/ link # "down" /\ cable = "unplugged" /\ link' = "down" /\ events' = Append(events, "eth_down")
    /\ UNCHANGED <<ifaces, timers, network, failures, station, world>>

\* The access point sets the channel.
Associates ==
    /\ sta.mode = "connecting" /\ ~sta.leave /\ air[sta.net] # "off"
    /\ sta' = [sta EXCEPT !.mode = "associated"] /\ UNCHANGED channel
    /\ events' = Append(events, "wifi_up")

GetsAddress ==
    /\ sta.mode = "associated" /\ ~sta.leave /\ air[sta.net] = "works"
    /\ sta' = [sta EXCEPT !.mode = "online"] /\ UNCHANGED channel
    /\ events' = Append(events, "wifi_ip")

\* The attempt failed, the network is gone, or the station was told to leave.
Disassociates ==
    /\ sta.mode # "idle" /\ (sta.leave \/ air[sta.net] = "off")
    /\ sta' = [sta EXCEPT !.mode = "idle", !.leave = FALSE] /\ UNCHANGED channel
    /\ events' = Append(events, "wifi_down")

WifiDriver ==
    /\ Associates \/ GetsAddress \/ Disassociates
    /\ UNCHANGED <<ifaces, timers, network, failures, link, world>>

\* A board without a working Ethernet chip has no cable to plug.
WorldChanges ==
    /\ changes < MaxChanges /\ changes' = changes + 1
    /\ \/ cable # "none" /\ cable' \in {"unplugged", "no_lease", "works"} \ {cable} /\ UNCHANGED air
       \/ \E n \in Networks, s \in {"off", "no_address", "works"} :
             air[n] # s /\ air' = [air EXCEPT ![n] = s] /\ UNCHANGED cable
    /\ UNCHANGED <<ifaces, timers, network, failures, events, link, station>>

-----------------------------------------------------------------------------

Idle == [mode |-> "idle", net |-> 0, leave |-> FALSE]

\* rb_net_start: Wi-Fi only; Ethernet with the fallback, its timer counted from
\* boot; or the same with a chip that does not respond.
NetInit ==
    /\ \/ /\ wifi = "down" /\ eth = "disabled" /\ cable = "none"
          /\ active = "Wi-Fi" /\ state = "down"
          /\ sta = [Idle EXCEPT !.mode = "connecting"] /\ channel = "away"
          /\ fallback = FALSE /\ events = <<>>
       \/ /\ wifi = "disabled" /\ eth = "down" /\ cable \in {"unplugged", "no_lease", "works"}
          /\ active = "Ethernet" /\ state = "down"
          /\ sta = Idle /\ channel = "home"
          /\ fallback = TRUE /\ events = <<>>
       \/ /\ wifi = "disabled" /\ eth = "disabled" /\ cable = "none"
          /\ active = "none" /\ state = "disabled"
          /\ sta = Idle /\ channel = "home"
          /\ fallback = FALSE /\ events = <<"fallback">>
    /\ air \in [Networks -> {"off", "no_address", "works"}]
    /\ retry = FALSE /\ network = 0 /\ failures = 0 /\ link = "down" /\ changes = 0

NetNext ==
    \/ EventLoop \/ RetryConnect \/ FallbackDue
    \/ EthernetDriver \/ WifiDriver \/ WorldChanges

-----------------------------------------------------------------------------
(* Properties *)

NetTypeOK ==
    /\ eth \in States /\ wifi \in States /\ state \in States
    /\ active \in {"none", "Ethernet", "Wi-Fi"}
    /\ fallback \in BOOLEAN /\ retry \in BOOLEAN
    /\ network \in Networks /\ failures \in 0 .. SwitchAfter
    /\ link \in {"down", "up", "ip"} /\ channel \in {"home", "away"}
    /\ sta \in [mode : Modes, net : Networks, leave : BOOLEAN]
    /\ events \in Seq({"eth_up", "eth_down", "eth_ip", "wifi_up", "wifi_ip", "wifi_down", "fallback"})

Queued(kinds) == \E i \in DOMAIN events : events[i] \in kinds

\* Something is always on its way that moves the uplink on: without an address
\* from Ethernet, Wi-Fi is in use or will be, and Wi-Fi in use without a
\* network is trying one, is about to, or has its driver's answer coming.
NeverStranded ==
    /\ (eth # "connected" /\ wifi = "disabled") => (fallback \/ Queued({"fallback"}))
    /\ (wifi = "down") => (retry \/ sta.mode # "idle" \/ Queued({"wifi_down"}))

\* Once Wi-Fi is left and its driver has said so, the radio is on the channel of
\* the configuration, where a node looks for the controller first.
ChannelComesHome ==
    NetTypeOK /\ ((wifi = "disabled" /\ sta.mode = "idle" /\ ~Queued({"wifi_down"})) => channel = "home")

\* An uplink that works: Ethernet, or a Wi-Fi network, if the other does not
\* keep the station without giving it an address.
Uplink ==
    \/ cable = "works"
    \/ (\E n \in Networks : air[n] = "works") /\ (\A n \in Networks : air[n] # "no_address")
=============================================================================
