--------------------------- MODULE NetworkFailover ---------------------------
(***************************************************************************)
(* The switch of a Wi-Fi network under the control of the back office:     *)
(* workcard_mqtt_connect_wifi of demo/src/mqtt/mqtt_demo.c with enter and   *)
(* leave of demo/src/network/network_failover.c.  The default route and the *)
(* resolver of the system are shared with the DHCP clients of the two      *)
(* interfaces: runtime/connectivity/udhcpc-eth0-local-only handles the      *)
(* events of the wired one, the script of the root file system those of     *)
(* the radio.  They outlive the process.                                    *)
(***************************************************************************)
EXTENDS Naturals

CONSTANTS
    Net,            \* Wi-Fi networks; also names their gateways and resolvers
    None,           \* no network, no route, an empty resolver, nothing saved
    Wired,          \* the wired gateway as resolver
    MaxDisturbances \* bound on restarts and file errors

ASSUME NetworkAssumption == /\ None \notin Net /\ Wired \notin Net /\ None # Wired
                            /\ MaxDisturbances \in Nat

VARIABLES
    pc,         \* control point of workcard_mqtt_connect_wifi
    target,     \* the network being connected
    saved,      \* network_failover.saved
    original,   \* network_failover.wifi_route and resolv_conf
    radio,      \* the network the radio is associated with
    lease,      \* the network the address of wlan0 comes from
    wifiRoute,  \* gateway of the default route by wlan0
    wiredRoute, \* a default route by the wired interface exists
    dns,        \* /etc/resolv.conf
    events,     \* ghost: interfaces with a DHCP event since enter wrote over them
    disturbed   \* ghost: number of restarts and file errors

process == <<pc, target, saved, original>>
wlan == <<radio, lease>>
system == <<wifiRoute, wiredRoute, dns>>
vars == <<process, wlan, system, events, disturbed>>

Gateway == Net \union {None}
Resolver == Net \union {None, Wired}

TypeOK == /\ pc \in {"idle", "enter", "switch", "dns", "associate", "wait",
                     "leave", "leave_route", "leave_dns"}
          /\ target \in Gateway /\ radio \in Gateway /\ lease \in Gateway
          /\ saved \in BOOLEAN /\ wiredRoute \in BOOLEAN
          /\ events \subseteq {"wired", "radio"}
          /\ original \in [route : Gateway, dns : Resolver]
          /\ wifiRoute \in Gateway
          /\ dns \in Resolver
          /\ disturbed \in Nat

Nothing == [route |-> None, dns |-> None]

Init == /\ pc = "idle" /\ target = None /\ saved = FALSE /\ original = Nothing
        /\ radio \in Gateway /\ lease = radio
        /\ wifiRoute = radio /\ wiredRoute = FALSE /\ dns = radio
        /\ events = {} /\ disturbed = 0

\* A choice that needs an error of the file system, and its regular alternative.
FileError(effect) == /\ disturbed < MaxDisturbances
                     /\ disturbed' = disturbed + 1
                     /\ effect
NoError(effect) == disturbed' = disturbed /\ effect

------------------------------------------------------------------------------
(* workcard_mqtt_connect_wifi                                               *)

\* A switch that has not been undone is not entered again.
ConnectWifi(n) == /\ pc = "idle"
                  /\ target' = n
                  /\ pc' = IF saved THEN "associate" ELSE "enter"
                  /\ UNCHANGED <<saved, original, wlan, system, events, disturbed>>

\* The interface, its gateway or the broker cannot be reached by wire.  The
\* host route of the probe is gone again when the probe returns.
EnterRefused == /\ pc = "enter"
                /\ pc' = "idle"
                /\ original' = Nothing
                /\ UNCHANGED <<target, saved, wlan, system, events, disturbed>>

\* The resolver and the route of the radio are noted; one that cannot be read is
\* noted as empty.
EnterSaves == /\ pc = "enter"
              /\ pc' = "switch"
              /\ saved' = TRUE
              /\ \/ NoError(original' = [route |-> wifiRoute, dns |-> dns])
                 \/ FileError(original' \in {[route |-> wifiRoute, dns |-> None],
                                             [route |-> None, dns |-> dns]})
              /\ UNCHANGED <<target, wlan, system, events>>

\* A switch that fails is not taken back in the record (seeded fault).
EnterSwitchesOrStays ==
    /\ pc = "switch"
    /\ \/ wiredRoute' = TRUE /\ events' = events \ {"wired"} /\ pc' = "dns"
       \/ UNCHANGED <<wiredRoute, events>> /\ pc' = "idle"
    /\ UNCHANGED <<target, saved, original, wlan, wifiRoute, dns, disturbed>>

EnterSwitches ==
    /\ pc = "switch"
    /\ \/ wiredRoute' = TRUE /\ events' = events \ {"wired"} /\ saved' = saved /\ pc' = "dns"
       \/ UNCHANGED <<wiredRoute, events>> /\ saved' = FALSE /\ pc' = "idle"
    /\ UNCHANGED <<target, original, wlan, wifiRoute, dns, disturbed>>

EnterWritesDns == /\ pc = "dns"
                  /\ pc' = "associate"
                  /\ events' = events \ {"radio"}
                  /\ \/ NoError(dns' = Wired)
                     \/ FileError(dns' = dns)
                  /\ UNCHANGED <<target, saved, original, wlan, wifiRoute, wiredRoute>>

\* workcard_wifi_connect accepts or refuses; a failure keeps the wired route.
Associate == /\ pc = "associate"
             /\ pc' \in {"wait", "idle"}
             /\ UNCHANGED <<target, saved, original, wlan, system, events, disturbed>>

\* workcard_mqtt_wait_wifi: the radio is on the target and wlan0 has an address,
\* be it the one of the former network.
WaitWifi == /\ pc = "wait"
            /\ \/ radio = target /\ lease # None /\ pc' = "leave"
               \/ pc' = "idle"
            /\ UNCHANGED <<target, saved, original, wlan, system, events, disturbed>>

LeaveDeletesWired == /\ pc = "leave"
                     /\ wiredRoute' = FALSE
                     /\ pc' = "leave_route"
                     /\ UNCHANGED <<target, saved, original, wlan, wifiRoute, dns, events,
                                    disturbed>>

\* The noted route comes back unless its gateway is out of reach by now.
LeaveRestoresRoute == /\ pc = "leave_route"
                      /\ wifiRoute' \in {wifiRoute} \union ({original.route} \ {None})
                      /\ pc' = "leave_dns"
                      /\ UNCHANGED <<target, saved, original, wlan, wiredRoute, dns, events,
                                     disturbed>>

\* The resolver stays the wired one (seeded fault).
LeaveForgetsDns == /\ pc = "leave_dns"
                   /\ pc' = "idle"
                   /\ saved' = FALSE
                   /\ UNCHANGED <<target, original, wlan, system, events, disturbed>>

LeaveRestoresDns == /\ pc = "leave_dns"
                    /\ pc' = "idle"
                    /\ saved' = FALSE
                    /\ \/ NoError(dns' = original.dns)
                       \/ FileError(dns' = dns)
                    /\ UNCHANGED <<target, original, wlan, wifiRoute, wiredRoute, events>>

------------------------------------------------------------------------------
(* The rest of the system.                                                  *)

\* The radio finds a saved network or loses the one it has.
Roam == /\ radio' \in Gateway \ {radio}
        /\ UNCHANGED <<process, lease, system, events, disturbed>>

\* A lease of the radio brings its default route and its resolver.
WifiBound == /\ radio # None
             /\ lease' = radio /\ wifiRoute' = radio /\ dns' = radio
             /\ events' = events \union {"radio"}
             /\ UNCHANGED <<process, radio, wiredRoute, disturbed>>

\* Without a lease wlan0 has neither address nor route.
WifiDeconfigured == /\ lease # None
                    /\ lease' = None /\ wifiRoute' = None
                    /\ UNCHANGED <<process, radio, wiredRoute, dns, events, disturbed>>

\* The wired DHCP client loses its lease, or begins anew: eth0 has no address, and
\* the kernel drops the routes that go by it.
WiredDeconfigured == /\ wiredRoute' = FALSE
                     /\ events' = events \union {"wired"}
                     /\ UNCHANGED <<process, wlan, wifiRoute, dns, disturbed>>

\* bound and renew of the wired DHCP client delete the wired default route.
WiredLease == /\ wiredRoute' = FALSE
              /\ events' = events \union {"wired"}
              /\ UNCHANGED <<process, wlan, wifiRoute, dns, disturbed>>

\* The process is restarted; routes and resolver are those it left.
Restart == /\ disturbed < MaxDisturbances
           /\ disturbed' = disturbed + 1
           /\ pc' = "idle" /\ target' = None /\ saved' = FALSE /\ original' = Nothing
           /\ UNCHANGED <<wlan, system, events>>

Next == \/ \E n \in Net : ConnectWifi(n)
        \/ EnterRefused \/ EnterSaves \/ EnterSwitches \/ EnterWritesDns
        \/ Associate \/ WaitWifi
        \/ LeaveDeletesWired \/ LeaveRestoresRoute \/ LeaveRestoresDns
        \/ Roam \/ WifiBound \/ WifiDeconfigured \/ WiredDeconfigured \/ WiredLease
        \/ Restart

Spec == Init /\ [][Next]_vars

------------------------------------------------------------------------------
(* Properties.                                                              *)

\* From the switch to its end, failed attempts and new ones included, names and
\* packets go by wire: the wired default route is there until a DHCP event of eth0
\* takes it away, and the wired resolver until the radio gets a lease
\* (network_failover.c:106-166, mqtt_demo.c:364-381).  A restart forgets the switch.
ManagementPath ==
    saved /\ pc \notin {"switch", "leave_route", "leave_dns"} =>
        /\ "wired" \notin events => wiredRoute
        /\ pc # "dns" /\ "radio" \notin events /\ disturbed = 0 => dns = Wired

\* Without restarts and file errors, a wired route or resolver is never left
\* behind by an attempt that has switched back or has not switched.
NothingLeftBehind == disturbed = 0 /\ ~saved => ~wiredRoute /\ dns # Wired

\* doc/工牌Demo说明.md:88 and the message of mqtt_demo.c:397: after a failed
\* attempt the wired default route stays for the back office.
WiredRouteKept == pc = "idle" /\ saved => wiredRoute
==============================================================================
