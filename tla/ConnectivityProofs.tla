------------------------- MODULE ConnectivityProofs -------------------------
(***************************************************************************)
(* Proofs about the uplink of the controller: it is never left without a      *)
(* next step, and the radio channel comes home, for any number of networks    *)
(* and of changes of the world.  The MQTT client above disturbs neither.      *)
(***************************************************************************)
EXTENDS Connectivity, TLAPS

USE NetAssumption

Kinds == {"eth_up", "eth_down", "eth_ip", "wifi_up", "wifi_ip", "wifi_down", "fallback"}

\* An event that is not handled stays in the queue.
LEMMA TailKeeps ==
    ASSUME NEW s \in Seq(Kinds), s # <<>>, NEW kinds, Head(s) \notin kinds,
           \E i \in DOMAIN s : s[i] \in kinds
    PROVE  \E j \in DOMAIN Tail(s) : Tail(s)[j] \in kinds
<1>1. PICK i \in DOMAIN s : s[i] \in kinds
  OBVIOUS
<1>2. i # 1 /\ i \in 1 .. Len(s)
  BY <1>1
<1>3. i - 1 \in DOMAIN Tail(s) /\ Tail(s)[i - 1] = s[i]
  BY <1>2
<1> QED
  BY <1>1, <1>3

LEMMA AppendKeeps ==
    ASSUME NEW s \in Seq(Kinds), NEW e \in Kinds, NEW kinds,
           e \in kinds \/ \E i \in DOMAIN s : s[i] \in kinds
    PROVE  \E j \in DOMAIN Append(s, e) : Append(s, e)[j] \in kinds
<1>1. CASE e \in kinds
  <2>1. Len(s) + 1 \in DOMAIN Append(s, e) /\ Append(s, e)[Len(s) + 1] = e
    OBVIOUS
  <2> QED
    BY <1>1, <2>1
<1>2. ASSUME NEW i \in DOMAIN s, s[i] \in kinds
      PROVE  \E j \in DOMAIN Append(s, e) : Append(s, e)[j] \in kinds
  <2>1. i \in DOMAIN Append(s, e) /\ Append(s, e)[i] = s[i]
    OBVIOUS
  <2> QED
    BY <1>2, <2>1
<1> QED
  BY <1>1, <1>2

Safe == NeverStranded /\ ChannelComesHome

LEMMA SafeInit == Init => Safe
<1> SUFFICES ASSUME Init PROVE Safe
  OBVIOUS
<1>1. NetInit
  BY DEF Init
<1>2. 0 \in Networks /\ 0 \in 0 .. SwitchAfter
  BY DEF Networks
<1>3. events \in Seq(Kinds)
  <2>1. <<>> \in Seq(Kinds) /\ "fallback" \in Kinds
    BY DEF Kinds
  <2>2. <<"fallback">> \in Seq(Kinds)
    BY <2>1
  <2> QED
    BY <1>1, <2>1, <2>2 DEF NetInit
<1>4. Idle \in [mode : Modes, net : Networks, leave : BOOLEAN]
      /\ [Idle EXCEPT !.mode = "connecting"] \in [mode : Modes, net : Networks, leave : BOOLEAN]
  BY <1>2 DEF Idle, Modes
<1>5. NetTypeOK
  BY <1>1, <1>2, <1>3, <1>4 DEF NetInit, NetTypeOK, States, Kinds
<1>6. NeverStranded
  BY <1>1 DEF NetInit, NeverStranded, Queued, Idle
<1>7. ChannelComesHome
  BY <1>1, <1>5 DEF NetInit, ChannelComesHome, Idle
<1> QED
  BY <1>6, <1>7 DEF Safe

\* What the station does keeps its type.
LEMMA ConnectType ==
    ASSUME NetTypeOK, network' \in Networks, Connect
    PROVE  /\ sta' \in [mode : Modes, net : Networks, leave : BOOLEAN] /\ channel' \in {"home", "away"}
           /\ sta'.mode # "idle"
<1>1. CASE sta.mode = "idle"
  <2>1. sta' = [mode |-> "connecting", net |-> network', leave |-> FALSE] /\ channel' = "away"
    BY <1>1 DEF Connect
  <2>2. "connecting" \in Modes
    BY DEF Modes
  <2> QED
    BY <2>1, <2>2
<1>2. CASE sta.mode # "idle"
  BY <1>2 DEF Connect, station, NetTypeOK
<1> QED
  BY <1>1, <1>2

LEMMA LeaveType ==
    ASSUME NetTypeOK, LeaveStation
    PROVE  /\ sta' \in [mode : Modes, net : Networks, leave : BOOLEAN] /\ channel' \in {"home", "away"}
           /\ sta'.mode = sta.mode
           /\ sta.mode = "idle" => channel' = "home"
BY DEF NetTypeOK, LeaveStation

\* Handling an event takes no other kind out of the queue.
LEMMA HandleKeeps ==
    ASSUME NetTypeOK, NEW kind, Handle(kind)
    PROVE  /\ events' \in Seq(Kinds)
           /\ \A kinds : kind \notin kinds /\ Queued(kinds) => Queued(kinds)'
<1>1. events \in Seq(Kinds) /\ events # <<>> /\ events' = Tail(events) /\ Head(events) = kind
  BY DEF NetTypeOK, Handle, Kinds
<1>2. ASSUME NEW kinds, kind \notin kinds, Queued(kinds) PROVE Queued(kinds)'
  BY <1>1, <1>2, TailKeeps DEF Queued
<1> QED
  BY <1>1, <1>2

LEMMA PostKeeps ==
    ASSUME NetTypeOK, NEW kind \in Kinds, events' = Append(events, kind)
    PROVE  /\ events' \in Seq(Kinds)
           /\ \A kinds : kind \in kinds \/ Queued(kinds) => Queued(kinds)'
<1>1. events \in Seq(Kinds)
  BY DEF NetTypeOK, Kinds
<1>2. ASSUME NEW kinds, kind \in kinds \/ Queued(kinds) PROVE Queued(kinds)'
  BY <1>1, <1>2, AppendKeeps DEF Queued
<1> QED
  BY <1>1, <1>2

LEMMA UpdateType ==
    ASSUME eth' \in States, wifi' \in States, Update
    PROVE  state' \in States /\ active' \in {"none", "Ethernet", "Wi-Fi"}
BY DEF Update, Best

\* An Ethernet event: it leaves Wi-Fi, or starts the fallback timer.
LEMMA EthernetStep ==
    ASSUME Safe, NEW kind \in {"eth_up", "eth_down", "eth_ip"}, Handle(kind),
           eth' \in States, EthernetChanged, Update, UNCHANGED <<network, failures, link>>
    PROVE  Safe'
<1>1. NetTypeOK
  BY DEF Safe, ChannelComesHome
<1>2. events' \in Seq(Kinds) /\ \A kinds : kind \notin kinds /\ Queued(kinds) => Queued(kinds)'
  BY <1>1, HandleKeeps
<1>3. Queued({"wifi_down"}) => Queued({"wifi_down"})'
  BY <1>2
<1>4. CASE eth' = "connected" /\ wifi # "disabled"
  <2>1. wifi' = "disabled" /\ retry' = FALSE /\ LeaveStation /\ fallback' = FALSE
    BY <1>4 DEF EthernetChanged, WifiLeave
  <2>2. NetTypeOK'
    BY <1>1, <1>2, <1>4, <2>1, LeaveType, UpdateType DEF NetTypeOK, States, Kinds
  <2>3. ChannelComesHome'
    BY <1>1, <2>1, <2>2, LeaveType DEF ChannelComesHome
  <2> QED
    BY <1>4, <2>1, <2>3 DEF Safe, NeverStranded
<1>5. CASE ~ (eth' = "connected" /\ wifi # "disabled")
  <2>1. UNCHANGED <<wifi, retry, sta, channel>> /\ fallback' = IF eth' = "connected" THEN FALSE ELSE Fallback
    BY <1>5 DEF EthernetChanged, station
  <2>2. NetTypeOK'
    BY <1>1, <1>2, <2>1, UpdateType DEF NetTypeOK, States, Kinds, Fallback
  <2>3. ChannelComesHome'
    BY <1>3, <2>1, <2>2 DEF Safe, ChannelComesHome
  <2>4. NeverStranded'
    BY <1>3, <2>1 DEF Safe, NeverStranded, Fallback
  <2> QED
    BY <2>3, <2>4 DEF Safe
<1> QED
  BY <1>4, <1>5

LEMMA SafeStep == Safe /\ [Next]_vars => Safe'
<1> SUFFICES ASSUME Safe, [Next]_vars PROVE Safe'
  OBVIOUS
<1>1. NetTypeOK
  BY DEF Safe, ChannelComesHome
<1> USE <1>1
<1>2. CASE OnEthEvent
  <2>1. PICK kind \in {"eth_up", "eth_down"} : Handle(kind) /\ eth' \in States
    BY <1>2 DEF OnEthEvent, States
  <2> QED
    BY <1>2, <2>1, EthernetStep DEF OnEthEvent
<1>3. CASE OnEthGotIp
  BY <1>3, EthernetStep DEF OnEthGotIp, States
<1>4. CASE OnWifiGotIp
  <2>1. events' \in Seq(Kinds) /\ (Queued({"wifi_down"}) => Queued({"wifi_down"})')
        /\ (Queued({"fallback"}) => Queued({"fallback"})')
    BY <1>4, HandleKeeps DEF OnWifiGotIp
  <2>2. wifi' \in States /\ eth' = eth /\ UNCHANGED <<timers, network, link, station>>
        /\ (wifi = "disabled" <=> wifi' = "disabled") /\ wifi' # "down"
    BY <1>4 DEF OnWifiGotIp, NetTypeOK, States
  <2>3. state' \in States /\ active' \in {"none", "Ethernet", "Wi-Fi"} /\ failures' \in 0 .. SwitchAfter
    BY <1>4, <2>2, UpdateType DEF OnWifiGotIp, NetTypeOK
  <2>4. NetTypeOK'
    BY <2>1, <2>2, <2>3 DEF NetTypeOK, timers, station, Kinds
  <2> QED
    BY <1>4, <2>1, <2>2, <2>4 DEF Safe, NeverStranded, ChannelComesHome, timers, station, OnWifiGotIp
<1>5. CASE OnWifiConnected
  <2>1. events' \in Seq(Kinds) /\ (Queued({"wifi_down"}) => Queued({"wifi_down"})')
        /\ (Queued({"fallback"}) => Queued({"fallback"})')
    BY <1>5, HandleKeeps DEF OnWifiConnected
  <2>2. wifi' \in States /\ eth' = eth /\ UNCHANGED <<timers, network, failures, link, station>>
    BY <1>5 DEF OnWifiConnected, NetTypeOK, States
  <2>3. state' \in States /\ active' \in {"none", "Ethernet", "Wi-Fi"}
    BY <1>5, <2>2, UpdateType DEF OnWifiConnected, NetTypeOK
  <2>4. NetTypeOK'
    BY <2>1, <2>2, <2>3 DEF NetTypeOK, timers, station, Kinds
  <2> QED
    BY <1>5, <2>1, <2>2, <2>4 DEF Safe, NeverStranded, ChannelComesHome, timers, station, OnWifiConnected
<1>6. CASE OnWifiLeft
  <2>1. events' \in Seq(Kinds) /\ (Queued({"fallback"}) => Queued({"fallback"})')
    BY <1>6, HandleKeeps DEF OnWifiLeft
  <2>2. NetTypeOK'
    BY <1>6, <2>1 DEF OnWifiLeft, NetTypeOK, ifaces, timers, Kinds
  <2> QED
    BY <1>6, <2>1, <2>2 DEF Safe, NeverStranded, ChannelComesHome, OnWifiLeft, ifaces, timers
<1>7. CASE OnWifiDisconnected
  <2>1. events' \in Seq(Kinds)
    BY <1>7, HandleKeeps DEF OnWifiDisconnected
  <2>2. network' \in Networks /\ failures' \in 0 .. SwitchAfter
    BY <1>7 DEF OnWifiDisconnected, Switches, Networks, NetTypeOK
  <2>3. state' \in States /\ active' \in {"none", "Ethernet", "Wi-Fi"}
    BY <1>7, UpdateType DEF OnWifiDisconnected, NetTypeOK, States
  <2>4. NetTypeOK'
    BY <1>7, <2>1, <2>2, <2>3 DEF OnWifiDisconnected, NetTypeOK, States, station, Kinds
  <2> QED
    BY <1>7, <2>4 DEF Safe, NeverStranded, ChannelComesHome, OnWifiDisconnected
<1>8. CASE OnFallback
  <2>1. events' \in Seq(Kinds) /\ (Queued({"wifi_down"}) => Queued({"wifi_down"})')
    BY <1>8, HandleKeeps DEF OnFallback
  <2>2. CASE eth = "connected" \/ wifi # "disabled"
    <3>1. UNCHANGED <<wifi, active, state, failures, network, sta, channel, eth, fallback, retry, link>>
      BY <1>8, <2>2 DEF OnFallback, station, timers
    <3>2. NetTypeOK'
      BY <2>1, <3>1 DEF NetTypeOK, Kinds
    <3> QED
      BY <2>1, <2>2, <3>1, <3>2 DEF Safe, NeverStranded, ChannelComesHome
  <2>3. CASE ~ (eth = "connected" \/ wifi # "disabled")
    <3>1. wifi' = "down" /\ failures' = 0 /\ Connect /\ Update /\ UNCHANGED <<network, eth, fallback, retry, link>>
      BY <1>8, <2>3 DEF OnFallback, timers
    <3>2. state' \in States /\ active' \in {"none", "Ethernet", "Wi-Fi"}
      BY <3>1, UpdateType DEF NetTypeOK, States
    <3>3. sta' \in [mode : Modes, net : Networks, leave : BOOLEAN] /\ channel' \in {"home", "away"} /\ sta'.mode # "idle"
      BY <3>1, ConnectType DEF NetTypeOK
    <3>4. NetTypeOK'
      BY <2>1, <3>1, <3>2, <3>3 DEF NetTypeOK, States, Kinds
    <3> QED
      BY <3>1, <3>3, <3>4 DEF Safe, NeverStranded, ChannelComesHome
  <2> QED
    BY <2>2, <2>3
<1>9. CASE RetryConnect
  <2>1. UNCHANGED <<network, eth, wifi, active, state, fallback, failures, events, link>> /\ retry' = FALSE /\ Connect
    BY <1>9 DEF RetryConnect, ifaces
  <2>2. sta' \in [mode : Modes, net : Networks, leave : BOOLEAN] /\ channel' \in {"home", "away"} /\ sta'.mode # "idle"
    BY <2>1, ConnectType DEF NetTypeOK
  <2>3. NetTypeOK'
    BY <2>1, <2>2 DEF NetTypeOK
  <2> QED
    BY <2>1, <2>2, <2>3 DEF Safe, NeverStranded, ChannelComesHome, Queued
<1>10. CASE FallbackDue
  <2>1. events' \in Seq(Kinds) /\ (Queued({"wifi_down"}) => Queued({"wifi_down"})') /\ Queued({"fallback"})'
    BY <1>10, PostKeeps DEF FallbackDue, Kinds
  <2>2. UNCHANGED <<eth, wifi, active, state, retry, network, failures, link, sta, channel>> /\ fallback' = FALSE
    BY <1>10 DEF FallbackDue, ifaces, station
  <2>3. NetTypeOK'
    BY <2>1, <2>2 DEF NetTypeOK, Kinds
  <2> QED
    BY <2>1, <2>2, <2>3 DEF Safe, NeverStranded, ChannelComesHome
<1>11. CASE EthernetDriver
  <2>1. PICK kind \in {"eth_up", "eth_ip", "eth_down"} : events' = Append(events, kind)
    BY <1>11 DEF EthernetDriver
  <2>2. events' \in Seq(Kinds) /\ (Queued({"wifi_down"}) => Queued({"wifi_down"})')
        /\ (Queued({"fallback"}) => Queued({"fallback"})')
    BY <2>1, PostKeeps DEF Kinds
  <2>3. UNCHANGED <<eth, wifi, active, state, fallback, retry, network, failures, sta, channel>>
        /\ link' \in {"down", "up", "ip"}
    BY <1>11 DEF EthernetDriver, ifaces, timers, station
  <2>4. NetTypeOK'
    BY <2>2, <2>3 DEF NetTypeOK, Kinds
  <2> QED
    BY <2>2, <2>3, <2>4 DEF Safe, NeverStranded, ChannelComesHome
<1>12. CASE WifiDriver
  <2>1. UNCHANGED <<eth, wifi, active, state, fallback, retry, network, failures, link, channel>>
    BY <1>12 DEF WifiDriver, ifaces, timers, Associates, GetsAddress, Disassociates
  <2>2. CASE Associates \/ GetsAddress
    <3>1. PICK kind \in {"wifi_up", "wifi_ip"} : events' = Append(events, kind)
      BY <2>2 DEF Associates, GetsAddress
    <3>2. events' \in Seq(Kinds) /\ (Queued({"wifi_down"}) => Queued({"wifi_down"})')
          /\ (Queued({"fallback"}) => Queued({"fallback"})')
      BY <3>1, PostKeeps DEF Kinds
    <3>3. sta' \in [mode : Modes, net : Networks, leave : BOOLEAN] /\ sta'.mode # "idle"
      BY <2>2 DEF Associates, GetsAddress, NetTypeOK, Modes
    <3>4. NetTypeOK'
      BY <2>1, <3>2, <3>3 DEF NetTypeOK, Kinds
    <3> QED
      BY <2>1, <3>2, <3>3, <3>4 DEF Safe, NeverStranded, ChannelComesHome
  <2>3. CASE Disassociates
    <3>1. events' \in Seq(Kinds) /\ Queued({"wifi_down"})' /\ (Queued({"fallback"}) => Queued({"fallback"})')
      BY <2>3, PostKeeps DEF Disassociates, Kinds
    <3>2. sta' \in [mode : Modes, net : Networks, leave : BOOLEAN]
      BY <2>3 DEF Disassociates, NetTypeOK, Modes
    <3>3. NetTypeOK'
      BY <2>1, <3>1, <3>2 DEF NetTypeOK, Kinds
    <3> QED
      BY <2>1, <3>1, <3>3 DEF Safe, NeverStranded, ChannelComesHome
  <2> QED
    BY <1>12, <2>2, <2>3 DEF WifiDriver
<1>13. ASSUME UNCHANGED <<ifaces, timers, network, failures, events, link, station>> PROVE Safe'
  BY <1>13 DEF Safe, NeverStranded, ChannelComesHome, NetTypeOK, Queued, ifaces, timers, station
<1>14. CASE WorldChanges
  BY <1>13, <1>14 DEF WorldChanges
<1>15. CASE Client \/ BrokersChange \/ UNCHANGED vars
  BY <1>13, <1>15 DEF Client, BeforeConnect, BrokerConnected, BrokerDisconnected, BrokersChange, vars, netVars
<1> QED
  BY <1>2, <1>3, <1>4, <1>5, <1>6, <1>7, <1>8, <1>9, <1>10, <1>11, <1>12, <1>14, <1>15
  DEF Next, NetStep, NetNext, EventLoop

\* rb_net.c never waits for an event that will not come: without an address from
\* Ethernet Wi-Fi is in use or about to be, and a Wi-Fi that is down is trying.
THEOREM AlwaysTrying == Spec => []NeverStranded
<1>1. Safe => NeverStranded
  BY DEF Safe
<1> QED
  BY <1>1, SafeInit, SafeStep, PTL DEF Spec

\* restore_channel: once the station is left, the radio is back on the channel of
\* the configuration, where the nodes look for the controller.
THEOREM HomeAgain == Spec => []ChannelComesHome
<1>1. Safe => ChannelComesHome
  BY DEF Safe
<1> QED
  BY <1>1, SafeInit, SafeStep, PTL DEF Spec
=============================================================================
