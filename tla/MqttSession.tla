----------------------------- MODULE MqttSession -----------------------------
(***************************************************************************)
(* The MQTT thread of demo/src/mqtt/mqtt_demo.c: the reconnect loop, one    *)
(* session from CONNECT to DISCONNECT, the retained presence with its last  *)
(* will, the shared Wi-Fi command slot and the result of a Wi-Fi action     *)
(* that is kept for the next session when its publication fails.            *)
(*                                                                          *)
(* Every QoS 1 publication waits for its PUBACK.  It fails because the      *)
(* connection is cut, or over a live connection: a late PUBACK, a packet    *)
(* longer than Paho's buffers, a message the device cannot build.  The back *)
(* office sends an "action" (connect to a network), a "mute" action (its    *)
(* request id holds a control character, which the parser accepts and       *)
(* workcard_mqtt_json_escape refuses) or a "query" (a scan, a list of       *)
(* profiles or an action the parser refuses, answered at most once).        *)
(* Camera parameters are the subject of DesiredConfig; here only their      *)
(* publications appear.                                                     *)
(***************************************************************************)
EXTENDS Naturals, Sequences

CONSTANTS
    MaxCommands,    \* bound on the commands of the back office
    MaxCuts,        \* bound on the cuts, stalls and refused attempts
    MaxLapses       \* bound on the failures over a live connection

ASSUME BoundAssumption == MaxCommands \in Nat /\ MaxCuts \in Nat /\ MaxLapses \in Nat

Command == {"query", "action", "mute"}

VARIABLES
    running,    \* demo->running
    pc,         \* control point of workcard_mqtt_thread_main
    delay,      \* reconnect_delay
    stalled,    \* an OpenSSL call of the thread waits for a peer that is gone
    connected,  \* client.isconnected
    slot,       \* wifi_payload: the waiting command or "none"
    deferred,   \* the execution whose result waits for the next session, or 0
    wire,       \* the TCP connection: "cut" is dead, the broker has not noticed
    presence,   \* retained presence at the broker
    will,       \* the broker holds a last will for the connection
    queue,      \* QoS 1 commands the device has not acknowledged
    executed,   \* number of Wi-Fi actions carried out that have a result
    received,   \* the newest execution whose result the broker has
    abandoned,  \* ghost: the device gave up its last connection while it was live
    issued, cuts, lapses     \* counters of the bounded choices

thread == <<running, pc, delay, stalled>>
device == <<connected, slot, deferred, executed>>
broker == <<presence, will, queue, received, issued>>
faults == <<wire, abandoned, cuts, lapses>>
vars == <<thread, device, broker, faults>>

\* Control points at which the thread waits inside Paho and a PUBLISH can arrive.
Waiting == {"subscribe", "subscribe_action", "presence", "flush", "announce", "config",
            "serve", "desired", "answer", "report", "state", "offline"}

TypeOK == /\ running \in BOOLEAN
          /\ pc \in Waiting \union {"new", "idle", "wifi", "leave", "bye", "done"}
          /\ delay \in {1, 2, 4} /\ stalled \in BOOLEAN
          /\ connected \in BOOLEAN /\ will \in BOOLEAN
          /\ slot \in Command \union {"none"}
          /\ deferred \in Nat /\ executed \in Nat /\ received \in Nat
          /\ wire \in {"up", "cut", "down"}
          /\ presence \in {"online", "offline"}
          /\ queue \in Seq(Command)
          /\ abandoned \in BOOLEAN
          /\ issued \in Nat /\ cuts \in Nat /\ lapses \in Nat

Init == /\ running = FALSE /\ pc = "new" /\ delay = 1 /\ stalled = FALSE
        /\ connected = FALSE /\ slot = "none" /\ deferred = 0 /\ executed = 0
        /\ presence = "offline" /\ will = FALSE /\ queue = <<>> /\ received = 0 /\ issued = 0
        /\ wire = "down" /\ abandoned = FALSE /\ cuts = 0 /\ lapses = 0

------------------------------------------------------------------------------
(* MQTTPublish at QoS 1.                                                    *)

\* The exchange succeeds: the PUBACK arrives in time.
Acknowledged == /\ connected /\ wire = "up"
                /\ UNCHANGED <<connected, faults>>

\* A failure that the network has no part in.
Lapse == /\ lapses < MaxLapses
         /\ lapses' = lapses + 1
         /\ abandoned' = (abandoned \/ (connected /\ wire = "up"))
         /\ UNCHANGED <<wire, cuts>>

\* The exchange fails and Paho closes the session; "reached" tells whether the
\* broker has the message all the same.
Failed(reached) ==
    /\ connected' = FALSE
    /\ \/ /\ ~connected \/ wire # "up"
          /\ ~reached
          /\ UNCHANGED faults
       \/ /\ connected /\ wire = "up"
          /\ Lapse
       \/ /\ connected /\ wire = "up" /\ reached
          /\ cuts < MaxCuts
          /\ cuts' = cuts + 1 /\ wire' = "cut"
          /\ UNCHANGED <<abandoned, lapses>>

\* The device cannot build the message: nothing is sent, and the session that the
\* caller now ends is still connected.
NotBuilt == Lapse /\ UNCHANGED <<connected, broker>>

\* One publication that sets the retained presence and the results the broker
\* has; ok is what MQTTPublish returns.
Publish(newPresence, newReceived, ok) ==
    /\ \/ /\ ok /\ Acknowledged
          /\ presence' = newPresence /\ received' = newReceived
       \/ /\ ~ok
          /\ \/ Failed(TRUE) /\ presence' = newPresence /\ received' = newReceived
             \/ Failed(FALSE) /\ UNCHANGED <<presence, received>>
    /\ UNCHANGED <<will, queue, issued>>

\* A publication of which the model keeps no content.
PublishOther(ok) == Publish(presence, received, ok)

------------------------------------------------------------------------------
(* Establishing a session: workcard_mqtt_run_session up to its loop.        *)

\* A step of the thread that is neither in a stalled call nor changes its delay.
Goto(label) == ~stalled /\ pc' = label /\ UNCHANGED <<running, delay, stalled>>

\* CONNECT is accepted.  The broker drops the former connection of the same
\* client and publishes its will.
Connect == /\ pc = "idle" /\ running
           /\ Goto("subscribe")
           /\ connected' = TRUE /\ wire' = "up" /\ will' = TRUE /\ abandoned' = FALSE
           /\ presence' = IF will THEN "offline" ELSE presence
           /\ UNCHANGED <<slot, deferred, executed, queue, received, issued, cuts, lapses>>

NextDelay == IF delay < 4 THEN delay * 2 ELSE 4

\* No connection, or the CONNACK does not arrive: the broker may hold a session
\* that the device has given up.
ConnectFails == /\ pc = "idle" /\ running /\ ~stalled
                /\ cuts < MaxCuts /\ cuts' = cuts + 1
                /\ \/ UNCHANGED <<wire, presence, will, abandoned>>
                   \/ /\ wire' = "cut" /\ will' = TRUE /\ abandoned' = FALSE
                      /\ presence' = IF will THEN "offline" ELSE presence
                /\ delay' = NextDelay
                /\ UNCHANGED <<running, pc, stalled, device, queue, received, issued, lapses>>

\* The topics of the camera, the profiles and the scan are subscribed, then the
\* topic of the actions; a failure ends the session.
Subscribe == \E ok \in BOOLEAN :
    /\ pc \in {"subscribe", "subscribe_action"}
    /\ PublishOther(ok)
    /\ Goto(IF ~ok THEN "bye" ELSE IF pc = "subscribe" THEN "subscribe_action" ELSE "presence")
    /\ UNCHANGED <<slot, deferred, executed>>

\* Only the first session publishes the presence (seeded fault).
PresenceOfFirstSession == \E ok \in BOOLEAN :
    /\ pc = "presence"
    /\ IF delay = 1 THEN Publish("online", received, ok)
                    ELSE ok /\ UNCHANGED <<connected, broker, faults>>
    /\ Goto(IF ok THEN "flush" ELSE "bye")
    /\ UNCHANGED <<slot, deferred, executed>>

PublishPresence == \E ok \in BOOLEAN :
    /\ pc = "presence"
    /\ Publish("online", received, ok) \/ (~ok /\ NotBuilt)
    /\ Goto(IF ok THEN "flush" ELSE "bye")
    /\ UNCHANGED <<slot, deferred, executed>>

\* The result is dropped whether or not it is acknowledged (seeded fault).
FlushOnce == \E ok \in BOOLEAN :
    /\ pc = "flush"
    /\ IF deferred = 0
       THEN ok /\ UNCHANGED <<connected, broker, faults>>
       ELSE Publish(presence, deferred, ok)
    /\ deferred' = 0
    /\ Goto(IF ok THEN "announce" ELSE "bye")
    /\ UNCHANGED <<slot, executed>>

\* A kept result is not sent again (seeded fault).
FlushNothing == /\ pc = "flush"
                /\ Goto("announce")
                /\ UNCHANGED <<device, broker, faults>>

\* workcard_mqtt_flush_deferred_wifi
FlushDeferred == \E ok \in BOOLEAN :
    /\ pc = "flush"
    /\ IF deferred = 0
       THEN ok /\ UNCHANGED <<connected, broker, faults>>
       ELSE Publish(presence, deferred, ok)
    /\ deferred' = IF ok THEN 0 ELSE deferred
    /\ Goto(IF ok THEN "announce" ELSE "bye")
    /\ UNCHANGED <<slot, executed>>

\* Capabilities and the first state; a failure ends the session.
Announce == \E ok \in BOOLEAN :
    /\ pc = "announce"
    /\ PublishOther(ok) \/ (~ok /\ NotBuilt)
    /\ Goto(IF ok THEN "config" ELSE "bye")
    /\ UNCHANGED <<slot, deferred, executed>>

\* The report of the camera parameters; its failure is not looked at.
ReportConfig == \E ok \in BOOLEAN :
    /\ pc = "config"
    /\ PublishOther(ok)
    /\ Goto("serve")
    /\ UNCHANGED <<slot, deferred, executed>>

------------------------------------------------------------------------------
(* The loop of the session.                                                 *)

\* The loop looks at the connection only (seeded fault).
LeaveLoopWhenBroken == /\ pc = "serve" /\ ~connected
                       /\ Goto("leave")
                       /\ UNCHANGED <<device, broker, faults>>

LeaveLoop == /\ pc = "serve" /\ (~running \/ ~connected)
             /\ Goto("leave")
             /\ UNCHANGED <<device, broker, faults>>

\* MQTTYield returns after a second, on a dead connection too, or fails when the
\* keepalive does.
Yield == /\ pc = "serve" /\ running /\ connected
         /\ \/ UNCHANGED <<connected, broker, faults>> /\ Goto("desired")
            \/ PublishOther(FALSE) /\ Goto("leave")
         /\ UNCHANGED <<slot, deferred, executed>>

\* workcard_mqtt_process_desired: nothing to do, or publications whose failure
\* is not looked at.
ProcessDesired ==
    /\ pc = "desired"
    /\ \/ UNCHANGED <<connected, broker, faults>>
       \/ \E ok \in BOOLEAN : PublishOther(ok)
    /\ Goto("wifi")
    /\ UNCHANGED <<slot, deferred, executed>>

NoCommand == /\ pc = "wifi" /\ slot = "none"
             /\ Goto("state")
             /\ UNCHANGED <<device, broker, faults>>

\* A query empties the slot and is answered once.
TakeQuery == /\ pc = "wifi" /\ slot = "query"
             /\ slot' = "none"
             /\ Goto("answer")
             /\ UNCHANGED <<connected, deferred, executed, broker, faults>>

\* A scan whose report does not fit, and a request id that cannot be escaped, are
\* not answered at all.
Answer ==
    /\ pc = "answer"
    /\ \/ UNCHANGED <<connected, broker, faults>>
       \/ \E ok \in BOOLEAN : PublishOther(ok)
    /\ Goto("state")
    /\ UNCHANGED <<slot, deferred, executed>>

\* An action switches the network, which may cut the connection it came by.  The
\* result of a mute action is neither published nor kept (mqtt_demo.c:278-280).
TakeAction ==
    /\ pc = "wifi" /\ slot \in {"action", "mute"}
    /\ slot' = "none"
    /\ wire' \in {wire, IF wire = "up" THEN "cut" ELSE wire}
    /\ executed' = IF slot = "action" THEN executed + 1 ELSE executed
    /\ Goto(IF slot = "action" THEN "report" ELSE "state")
    /\ UNCHANGED <<connected, deferred, broker, abandoned, cuts, lapses>>

\* A failed result is forgotten (seeded fault).
ReportOnce == \E ok \in BOOLEAN :
    /\ pc = "report"
    /\ Publish(presence, executed, ok)
    /\ deferred' = 0
    /\ Goto("state")
    /\ UNCHANGED <<slot, executed>>

\* workcard_mqtt_publish_wifi_action_reliable
ReportAction == \E ok \in BOOLEAN :
    /\ pc = "report"
    /\ Publish(presence, executed, ok)
    /\ deferred' = IF ok THEN 0 ELSE executed
    /\ Goto("state")
    /\ UNCHANGED <<slot, executed>>

\* A state that is due and cannot be published ends the loop.
PublishState ==
    /\ pc = "state"
    /\ \/ UNCHANGED <<connected, broker, faults>> /\ Goto("serve")
       \/ \E ok \in BOOLEAN : /\ PublishOther(ok) \/ (~ok /\ NotBuilt)
                              /\ Goto(IF ok THEN "serve" ELSE "leave")
    /\ UNCHANGED <<slot, deferred, executed>>

------------------------------------------------------------------------------
(* The end of a session and of the thread.                                  *)

\* The offline presence is left to the last will (seeded fault).
LeaveSilently == /\ pc = "leave"
                 /\ Goto("bye")
                 /\ UNCHANGED <<device, broker, faults>>

\* Only a stop that finds the session alive says goodbye.
Leave == /\ pc = "leave"
         /\ Goto(IF ~running /\ connected THEN "offline" ELSE "bye")
         /\ UNCHANGED <<device, broker, faults>>

PublishOffline == \E ok \in BOOLEAN :
    /\ pc = "offline"
    /\ Publish("offline", received, ok) \/ (~ok /\ NotBuilt)
    /\ Goto("bye")
    /\ UNCHANGED <<slot, deferred, executed>>

\* MQTTDisconnect writes DISCONNECT whatever ended the session; a broker that
\* gets it discards the will.  Then the thread sleeps, or ends after a stop.
Disconnect ==
    /\ pc = "bye"
    /\ connected' = FALSE
    /\ wire' = IF wire = "up" THEN "down" ELSE wire
    /\ will' = IF wire = "up" THEN FALSE ELSE will
    /\ pc' = IF running THEN "idle" ELSE "done"
    /\ delay' = IF running THEN NextDelay ELSE delay
    /\ UNCHANGED <<running, stalled, slot, deferred, executed, presence, queue, received, issued,
                   abandoned, cuts, lapses>>

ThreadEnds == /\ pc = "idle" /\ ~running
              /\ Goto("done")
              /\ UNCHANGED <<device, broker, faults>>

------------------------------------------------------------------------------
(* The main thread, the broker and the network.                             *)

\* A thread that cannot be created leaves everything as it was.
Start == /\ pc = "new"
         /\ running' = TRUE /\ pc' = "idle"
         /\ UNCHANGED <<delay, stalled, device, broker, faults>>

Stop == /\ running
        /\ running' = FALSE
        /\ UNCHANGED <<pc, delay, stalled, device, broker, faults>>

\* The back office issues a command; the broker keeps it for the device.
Issue(c) == /\ issued < MaxCommands
            /\ issued' = issued + 1
            /\ queue' = Append(queue, c)
            /\ UNCHANGED <<thread, device, presence, will, received, faults>>

\* A handler is registered once its topic has been subscribed in this session.
Handled(c) == CASE pc = "subscribe" -> FALSE
                [] pc = "subscribe_action" -> c = "query"
                [] OTHER -> TRUE

\* workcard_mqtt_message_arrived overwrites the slot; Paho acknowledges the
\* command, handled or not, unless the connection is cut first.
MessageArrived ==
    /\ queue # <<>> /\ connected /\ wire = "up" /\ pc \in Waiting
    /\ slot' = IF Handled(Head(queue)) THEN Head(queue) ELSE slot
    /\ \/ queue' = Tail(queue) /\ UNCHANGED <<wire, cuts>>
       \/ cuts < MaxCuts /\ cuts' = cuts + 1 /\ wire' = "cut" /\ UNCHANGED queue
    /\ UNCHANGED <<thread, connected, deferred, executed, presence, will, received, issued,
                   abandoned, lapses>>

Cut == /\ wire = "up" /\ cuts < MaxCuts
       /\ wire' = "cut" /\ cuts' = cuts + 1
       /\ UNCHANGED <<thread, device, broker, abandoned, lapses>>

\* The network fails during the TLS handshake, or in the middle of a record that
\* SSL_read has begun to read: the socket has no time limit of its own.
Stall == /\ ~stalled /\ cuts < MaxCuts
         /\ \/ pc = "idle" /\ running /\ wire' = wire
            \/ pc \in Waiting /\ connected /\ wire = "up" /\ wire' = "cut"
         /\ stalled' = TRUE
         /\ cuts' = cuts + 1
         /\ UNCHANGED <<running, pc, delay, device, broker, abandoned, lapses>>

\* A reset arrives after all; nothing obliges it to.
StallEnds == /\ stalled
             /\ stalled' = FALSE
             /\ UNCHANGED <<running, pc, delay, device, broker, faults>>

\* The broker misses the keepalive of a cut connection and publishes its will.
BrokerNotices == /\ wire = "cut"
                 /\ wire' = "down" /\ will' = FALSE
                 /\ presence' = IF will THEN "offline" ELSE presence
                 /\ UNCHANGED <<thread, device, queue, received, issued, abandoned, cuts,
                                 lapses>>

------------------------------------------------------------------------------
ThreadStep == \/ Connect \/ ConnectFails \/ Subscribe \/ PublishPresence \/ FlushDeferred
              \/ Announce \/ ReportConfig \/ LeaveLoop \/ Yield \/ ProcessDesired \/ NoCommand
              \/ TakeQuery \/ Answer \/ TakeAction \/ ReportAction \/ PublishState \/ Leave
              \/ PublishOffline \/ Disconnect \/ ThreadEnds

Next == \/ ThreadStep \/ Start \/ Stop
        \/ \E c \in Command : Issue(c)
        \/ MessageArrived \/ Cut \/ Stall \/ StallEnds \/ BrokerNotices

Spec == Init /\ [][Next]_vars

\* The thread runs, and unless it is stalled every one of its waits ends: a
\* publication after five seconds, MQTTYield after one, an action after
\* network_switch_timeout_seconds.  The broker watches the keepalive.
FairSpec == Spec /\ WF_vars(ThreadStep) /\ WF_vars(BrokerNotices)

------------------------------------------------------------------------------
(* Properties.                                                              *)

\* The result of every action carried out has reached the broker, or is being
\* published, or is kept for the next session; none is overwritten by the next.  Mute
\* actions alone have no result (mqtt_demo.c:269-309).
ResultAccounted == /\ received <= executed
                   /\ received < executed => deferred = executed \/ pc = "report"
                   /\ received < executed => executed = received + 1

\* Results reach the broker in the order the actions were carried out: a resent
\* result repeats the newest one, and a new one is its successor.
ResultsInOrder == [][received' \in {received, received + 1}]_vars

\* A session that serves commands over a live connection shows the device as
\* online, also after the will of an earlier connection was published.
OnlineWhileServing ==
    /\ wire = "up" /\ connected
    /\ pc \in {"flush", "announce", "config", "serve", "desired", "wifi", "answer",
               "report", "state", "leave"}
    => presence = "online"

\* A broker without a connection of the device shows it as offline, by the goodbye of
\* a stop or by the last will, unless the device itself gave the connection up while
\* it was live: DISCONNECT then discards the will, and nobody takes "online" back
\* (mqtt_demo.c:845-904, 932-955).
OfflineUnlessAbandoned == ~abandoned /\ wire = "down" => presence = "offline"

\* The comment at mqtt_demo.c:939: a stop publishes the retained offline
\* presence.  A thread that has ended leaves the device online nowhere.
StoppedMeansOffline == pc = "done" /\ wire = "down" => presence = "offline"

\* A stop ends the thread from wherever it is, unless a TLS call stalls for good.
StopTerminates == <>[]stalled \/ (~running /\ pc # "new" ~> pc = "done")

\* A command in the slot is served, if need be by a later session, and a kept
\* result reaches the broker, unless the program is stopped or stalls for good.
CommandServed == <>[]stalled \/ ( /\ slot # "none" ~> slot = "none" \/ ~running
                                  /\ deferred # 0 ~> deferred = 0 \/ ~running )
==============================================================================
