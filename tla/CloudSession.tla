----------------------------- MODULE CloudSession -----------------------------
(***************************************************************************)
(* The WSS session of demo/src/cloud/cloud_demo.c over the WebSocket       *)
(* client of demo/src/cloud/internal/websocket_client.c.  Five threads     *)
(* meet here: the network thread connects, authenticates, watches and      *)
(* reconnects; the receiver thread of the current connection handles what  *)
(* the server sends; the media sender uploads packets; the MQTT thread     *)
(* replaces the video configuration; the main thread starts and stops.     *)
(*                                                                         *)
(* Every access under state_mutex is one action, and so is every call into *)
(* the WebSocket client.  A packet, a heartbeat and a delay have no data   *)
(* here.  The server answers after an arbitrary time; "grants" records     *)
(* what it has sent on the current connection.                             *)
(***************************************************************************)
EXTENDS Naturals

CONSTANTS MaxUpdates,   \* bound on the configuration changes of one behaviour
          MaxFaults     \* bound on the failures of the network and the server

ASSUME SessionAssumption == MaxUpdates \in Nat /\ MaxFaults \in Nat

Grants == {"auth-ok", "media-start", "intercom-start"}
Messages == Grants \union {"media-stop", "intercom-stop"}

VARIABLES
    config,          \* revision of the video parameters in cloud->config
    reconnect,       \* reconnect_requested
    running,         \* running
    authenticated,   \* authenticated
    upload,          \* media_upload_enabled
    playback,        \* the playback gate of the SDK
    ajar,            \* ghost: the SDK refused to close it when this turn began
    connected,       \* websocket.connected
    net,             \* control point of the network thread
    authConfig,      \* revision copied into auth_config for this connection
    receiver,        \* control point of the receiver thread
    message,         \* the message the receiver is handling
    sender,          \* control point of workcard_cloud_send_media
    main,            \* control point of start/stop in the main thread
    authSent,        \* the server has the auth message of this connection
    grants,          \* grants the server has sent on this connection
    faults           \* failures so far

settings == <<config, reconnect>>
gates == <<authenticated, upload, playback, ajar>>
link == <<connected, receiver, message>>
server == <<authSent, grants>>
vars == <<settings, running, gates, link, net, authConfig, sender, main, server, faults>>

TypeOK == /\ config \in Nat /\ authConfig \in Nat /\ faults \in Nat
          /\ reconnect \in BOOLEAN /\ running \in BOOLEAN /\ connected \in BOOLEAN
          /\ authenticated \in BOOLEAN /\ upload \in BOOLEAN /\ playback \in BOOLEAN
          /\ ajar \in BOOLEAN
          /\ net \in {"none", "top", "connecting", "copying", "authenticating", "waiting", "session",
                      "clearAuth", "clearUpload", "clearPlayback", "close", "closing",
                      "abandon", "abandoning", "closed", "backoff", "done"}
          /\ receiver \in {"none", "testing", "reading", "handling", "granting", "done"}
          /\ message \in Messages \union {"none"}
          /\ sender \in {"none", "idle", "gated", "ready", "failing", "done"}
          /\ main \in {"created", "starting", "launching", "running", "closing",
                       "joiningReceiver", "joiningNetwork", "joiningSender", "stopped"}
          /\ authSent \in BOOLEAN
          /\ grants \subseteq Grants

Init == /\ config = 0 /\ authConfig = 0 /\ faults = 0
        /\ reconnect = FALSE /\ running = FALSE /\ connected = FALSE
        /\ authenticated = FALSE /\ upload = FALSE /\ playback = FALSE /\ ajar = FALSE
        /\ net = "none" /\ receiver = "none" /\ message = "none" /\ sender = "none"
        /\ main = "created"
        /\ authSent = FALSE /\ grants = {}

\* A failure the environment may cause a bounded number of times.
Fault == faults < MaxFaults /\ faults' = faults + 1

------------------------------------------------------------------------------
(* The network thread: workcard_cloud_network_main.                         *)

NetLeaves == /\ net = "top" /\ ~running
             /\ net' = "done"
             /\ UNCHANGED <<settings, running, gates, link, authConfig, sender, main, server,
                            faults>>

\* The SDK is told to close the playback gate.  It may refuse, and nobody looks.
ClosePlayback == playback' \in {playback, FALSE}

\* A new turn closes all gates.  The receiver has been joined, so no other
\* thread can open one in between: the three calls are one step.
EnterClosingGates == /\ net = "top" /\ running
                     /\ authenticated' = FALSE /\ upload' = FALSE
                     /\ ClosePlayback
                     /\ ajar' = playback'
                     /\ net' = "connecting"
                     /\ UNCHANGED <<settings, running, link, authConfig, sender, main, server,
                                    faults>>

\* xn_ws_client_connect: TCP, TLS and upgrade succeed, the receiver is created.
ConnectSucceeds == /\ net = "connecting"
                   /\ connected' = TRUE
                   /\ receiver' = "testing"
                   /\ authSent' = FALSE /\ grants' = {}
                   /\ net' = "copying"
                   /\ UNCHANGED <<settings, running, gates, message, authConfig, sender, main,
                                  faults>>

ConnectFails == /\ net = "connecting"
                /\ Fault
                /\ net' = "backoff"
                /\ UNCHANGED <<settings, running, gates, link, authConfig, sender, main, server>>

\* The video parameters are copied under the state mutex for the auth message.
CopyConfig == /\ net = "copying"
              /\ authConfig' = config
              /\ net' = "authenticating"
              /\ UNCHANGED <<settings, running, gates, link, sender, main, server, faults>>

SendAuth == /\ net = "authenticating" /\ connected
            /\ authSent' = TRUE
            /\ net' = "waiting"
            /\ UNCHANGED <<settings, running, gates, link, authConfig, sender, main, grants,
                           faults>>

\* The auth message cannot be written; the connection is given up.
SendAuthFails == /\ net = "authenticating"
                 /\ IF connected THEN Fault ELSE UNCHANGED faults
                 /\ connected' = FALSE
                 /\ net' = "abandon"
                 /\ UNCHANGED <<settings, running, gates, receiver, message, authConfig, sender,
                                main, server>>

\* workcard_cloud_wait_for_auth returns true: only the gate counts, the
\* connection may be gone by now.
AuthGranted == /\ net = "waiting" /\ authenticated
               /\ net' = "session"
               /\ UNCHANGED <<settings, running, gates, link, authConfig, sender, main, server,
                              faults>>

\* The wait ends without a grant: stop, lost connection, or six seconds passed.
AuthRefused == /\ net = "waiting" /\ ~authenticated
               /\ IF running /\ connected THEN Fault ELSE UNCHANGED faults
               /\ net' = "abandon"
               /\ UNCHANGED <<settings, running, gates, link, authConfig, sender, main, server>>

\* A connection that was not authenticated is dropped without closing it (seeded fault).
AbandonWithoutClose == /\ net = "abandon"
                       /\ net' = "backoff"
                       /\ UNCHANGED <<settings, running, gates, link, authConfig, sender, main,
                                      server, faults>>

\* xn_ws_client_close after a failed authentication; the gates stay as they are.
Abandon == /\ net = "abandon"
           /\ connected' = FALSE
           /\ net' = "abandoning"
           /\ UNCHANGED <<settings, running, gates, receiver, message, authConfig, sender, main,
                          server, faults>>

AbandonJoins == /\ net = "abandoning"
                /\ receiver \in {"none", "done"}
                /\ receiver' = "none"
                /\ net' = "backoff"
                /\ UNCHANGED <<settings, running, gates, connected, message, authConfig, sender,
                               main, server, faults>>

\* A heartbeat cannot be written; the connection is marked lost.
HeartbeatFails == /\ net = "session" /\ connected
                  /\ Fault
                  /\ connected' = FALSE
                  /\ net' = "clearAuth"
                  /\ UNCHANGED <<settings, running, gates, receiver, message, authConfig, sender,
                                 main, server>>

\* A configuration change is not looked for during the session (seeded fault).
SessionIgnoresReconnect == /\ net = "session"
                           /\ ~running \/ ~connected
                           /\ net' = "clearAuth"
                           /\ UNCHANGED <<settings, running, gates, link, authConfig, sender, main,
                                          server, faults>>

\* The session loop ends: stop, configuration change or lost connection.
SessionEnds == /\ net = "session"
               /\ ~running \/ reconnect \/ ~connected
               /\ net' = "clearAuth"
               /\ UNCHANGED <<settings, running, gates, link, authConfig, sender, main, server,
                              faults>>

ClearAuthenticated == /\ net = "clearAuth"
                      /\ authenticated' = FALSE
                      /\ net' = "clearUpload"
                      /\ UNCHANGED <<settings, running, upload, playback, ajar, link, authConfig,
                                     sender, main, server, faults>>

ClearUpload == /\ net = "clearUpload"
               /\ upload' = FALSE
               /\ net' = "clearPlayback"
               /\ UNCHANGED <<settings, running, authenticated, playback, ajar, link, authConfig,
                              sender, main, server, faults>>

ClearPlayback == /\ net = "clearPlayback"
                 /\ ClosePlayback
                 /\ net' = "close"
                 /\ UNCHANGED <<settings, running, authenticated, upload, ajar, link, authConfig,
                                sender, main, server, faults>>

Close == /\ net = "close"
         /\ connected' = FALSE
         /\ net' = "closing"
         /\ UNCHANGED <<settings, running, gates, receiver, message, authConfig, sender, main,
                        server, faults>>

\* The close does not wait for the receiver to end (seeded fault).
CloseWithoutJoin == /\ net = "closing"
                    /\ net' = "closed"
                    /\ UNCHANGED <<settings, running, gates, link, authConfig, sender, main, server,
                                   faults>>

\* The socket is shut down, so the receiver ends and is joined.
CloseJoins == /\ net = "closing"
              /\ receiver \in {"none", "done"}
              /\ receiver' = "none"
              /\ net' = "closed"
              /\ UNCHANGED <<settings, running, gates, connected, message, authConfig, sender, main,
                             server, faults>>

\* The request is consumed; a requested reconnection skips the back-off.
ConsumeReconnect == /\ net = "closed"
                    /\ reconnect' = FALSE
                    /\ net' = IF running /\ ~reconnect THEN "backoff" ELSE "top"
                    /\ UNCHANGED <<config, running, gates, link, authConfig, sender, main, server,
                                   faults>>

BackoffEnds == /\ net = "backoff"
               /\ net' = "top"
               /\ UNCHANGED <<settings, running, gates, link, authConfig, sender, main, server,
                              faults>>

------------------------------------------------------------------------------
(* The receiver thread: xn_ws_receiver_main and the callbacks it makes.     *)

ReceiverTests == /\ receiver = "testing"
                 /\ receiver' = IF connected THEN "reading" ELSE "done"
                 /\ UNCHANGED <<settings, running, gates, connected, message, net, authConfig,
                                sender, main, server, faults>>

\* The server has sent m and the receiver reads it.  Data that arrived before
\* the socket was shut down is still delivered.
ReceiverReads(m) == /\ receiver = "reading"
                    /\ authSent
                    /\ (m = "auth-ok") = ("auth-ok" \notin grants)
                    /\ message' = m
                    /\ grants' = grants \union ({m} \intersect Grants)
                    /\ receiver' = "handling"
                    /\ UNCHANGED <<settings, running, gates, connected, net, authConfig, sender,
                                   main, authSent, faults>>

\* The read fails (socket shut down, connection lost, close frame, bad frame).
ReceiverEnds == /\ receiver = "reading"
                /\ IF connected THEN Fault ELSE UNCHANGED faults
                /\ connected' = FALSE
                /\ receiver' = "done"
                /\ UNCHANGED <<settings, running, gates, message, net, authConfig, sender, main,
                               server>>

HandleAuthOk == /\ receiver = "handling" /\ message = "auth-ok"
                /\ authenticated' = TRUE
                /\ receiver' = "granting"
                /\ UNCHANGED <<settings, running, upload, playback, ajar, connected, message, net,
                               authConfig, sender, main, server, faults>>

\* The second critical section of auth-ok.
CloseUploadAfterAuthOk == /\ receiver = "granting"
                          /\ upload' = FALSE
                          /\ message' = "none"
                          /\ receiver' = "testing"
                          /\ UNCHANGED <<settings, running, authenticated, playback, ajar, connected,
                                         net, authConfig, sender, main, server, faults>>

HandleMedia == /\ receiver = "handling" /\ message \in {"media-start", "media-stop"}
               /\ upload' = (message = "media-start")
               /\ message' = "none"
               /\ receiver' = "testing"
               /\ UNCHANGED <<settings, running, authenticated, playback, ajar, connected, net,
                              authConfig, sender, main, server, faults>>

\* The SDK may refuse to change the playback gate.  When it opens it, the
\* answer "intercom-ready" may fail and cost the connection.
HandleIntercom == /\ receiver = "handling" /\ message \in {"intercom-start", "intercom-stop"}
                  /\ playback' \in {playback, message = "intercom-start"}
                  /\ \/ UNCHANGED <<connected, faults>>
                     \/ /\ message = "intercom-start" /\ playback' /\ connected
                        /\ Fault
                        /\ connected' = FALSE
                  /\ message' = "none"
                  /\ receiver' = "testing"
                  /\ UNCHANGED <<settings, running, authenticated, upload, ajar, net, authConfig,
                                 sender, main, server>>

------------------------------------------------------------------------------
(* The media sender thread inside workcard_cloud_send_media.                *)

\* workcard_cloud_can_upload.  A packet that may not be uploaded is dropped.
SenderChecksGate == /\ sender = "idle"
                    /\ running /\ authenticated /\ upload
                    /\ sender' = "gated"
                    /\ UNCHANGED <<settings, running, gates, link, net, authConfig, main, server,
                                   faults>>

SenderChecksConnection == /\ sender = "gated"
                          /\ sender' = IF connected THEN "ready" ELSE "idle"
                          /\ UNCHANGED <<settings, running, gates, link, net, authConfig, main,
                                         server, faults>>

\* xn_ws_send_frame under send_mutex looks at the connection only, then writes.
SenderWrites == /\ sender = "ready" /\ connected
                /\ sender' = "idle"
                /\ UNCHANGED <<settings, running, gates, link, net, authConfig, main, server,
                               faults>>

\* The packet is not written: the connection is gone, or the write fails.
SenderWriteFails == /\ sender = "ready"
                    /\ IF connected THEN Fault ELSE UNCHANGED faults
                    /\ sender' = "failing"
                    /\ UNCHANGED <<settings, running, gates, link, net, authConfig, main, server>>

\* After send_mutex is released the current connection is marked lost and shut
\* down, even when the network thread has made a new one meanwhile.
SenderMarksLost == /\ sender = "failing"
                   /\ connected' = FALSE
                   /\ sender' = "idle"
                   /\ UNCHANGED <<settings, running, gates, receiver, message, net, authConfig,
                                  main, server, faults>>

\* The thread has seen the stop of the queue (MediaQueue).
SenderExits == /\ sender = "idle" /\ main = "joiningSender"
               /\ sender' = "done"
               /\ UNCHANGED <<settings, running, gates, link, net, authConfig, main, server,
                              faults>>

------------------------------------------------------------------------------
(* The MQTT thread: workcard_cloud_demo_update_video_config.                *)

\* New parameters without a request to reconnect (seeded fault).
UpdateSilently == /\ config < MaxUpdates
                  /\ config' = config + 1
                  /\ UNCHANGED <<reconnect, running, gates, link, net, authConfig, sender, main,
                                 server, faults>>

UpdateVideoConfig == /\ config < MaxUpdates
                     /\ config' = config + 1
                     /\ reconnect' = TRUE
                     /\ UNCHANGED <<running, gates, link, net, authConfig, sender, main, server,
                                    faults>>

------------------------------------------------------------------------------
(* The main thread: workcard_cloud_demo_start and workcard_cloud_demo_stop. *)

PublishRunning == /\ main = "created"
                  /\ running' = TRUE
                  /\ main' = "starting"
                  /\ UNCHANGED <<settings, gates, link, net, authConfig, sender, server, faults>>

LaunchSender == /\ main = "starting"
                /\ sender' = "idle"
                /\ main' = "launching"
                /\ UNCHANGED <<settings, running, gates, link, net, authConfig, server, faults>>

LaunchSenderFails == /\ main = "starting"
                     /\ running' = FALSE
                     /\ main' = "stopped"
                     /\ UNCHANGED <<settings, gates, link, net, authConfig, sender, server, faults>>

LaunchNetwork == /\ main = "launching"
                 /\ net' = "top"
                 /\ main' = "running"
                 /\ UNCHANGED <<settings, running, gates, link, authConfig, sender, server, faults>>

LaunchNetworkFails == /\ main = "launching"
                      /\ running' = FALSE
                      /\ main' = "joiningSender"
                      /\ UNCHANGED <<settings, gates, link, net, authConfig, sender, server,
                                     faults>>

\* The loop condition of the network thread never changes (seeded fault).
RequestStopStillRunning == /\ main = "running"
                           /\ authenticated' = FALSE /\ upload' = FALSE
                           /\ main' = "closing"
                           /\ UNCHANGED <<settings, running, playback, ajar, link, net,
                                          authConfig, sender, server, faults>>

RequestStop == /\ main = "running"
               /\ running' = FALSE /\ authenticated' = FALSE /\ upload' = FALSE
               /\ main' = "closing"
               /\ UNCHANGED <<settings, playback, ajar, link, net, authConfig, sender, server,
                              faults>>

\* xn_ws_client_close from the main thread, concurrently with the network thread.
StopCloses == /\ main = "closing"
              /\ connected' = FALSE
              /\ main' = IF receiver = "none" THEN "joiningNetwork" ELSE "joiningReceiver"
              /\ UNCHANGED <<settings, running, gates, receiver, message, net, authConfig, sender,
                             server, faults>>

StopJoinsReceiver == /\ main = "joiningReceiver"
                     /\ receiver \in {"none", "done"}
                     /\ receiver' = "none"
                     /\ main' = "joiningNetwork"
                     /\ UNCHANGED <<settings, running, gates, connected, message, net, authConfig,
                                    sender, server, faults>>

StopJoinsNetwork == /\ main = "joiningNetwork"
                    /\ net = "done"
                    /\ main' = "joiningSender"
                    /\ UNCHANGED <<settings, running, gates, link, net, authConfig, sender, server,
                                   faults>>

StopJoinsSender == /\ main = "joiningSender"
                   /\ sender = "done"
                   /\ main' = "stopped"
                   /\ UNCHANGED <<settings, running, gates, link, net, authConfig, sender, server,
                                  faults>>

------------------------------------------------------------------------------
Finished == main = "stopped" /\ UNCHANGED vars

Network == \/ NetLeaves \/ EnterClosingGates \/ ConnectSucceeds \/ ConnectFails \/ CopyConfig
           \/ SendAuth \/ SendAuthFails \/ AuthGranted \/ AuthRefused
           \/ Abandon \/ AbandonJoins \/ HeartbeatFails \/ SessionEnds
           \/ ClearAuthenticated \/ ClearUpload \/ ClearPlayback \/ Close \/ CloseJoins
           \/ ConsumeReconnect \/ BackoffEnds

Handle == HandleAuthOk \/ CloseUploadAfterAuthOk \/ HandleMedia \/ HandleIntercom

Receiver == ReceiverTests \/ (\E m \in Messages : ReceiverReads(m)) \/ ReceiverEnds \/ Handle

Sender == SenderChecksGate \/ SenderChecksConnection \/ SenderWrites \/ SenderWriteFails \/ SenderMarksLost
          \/ SenderExits

Main == \/ PublishRunning \/ LaunchSender \/ LaunchSenderFails \/ LaunchNetwork \/ LaunchNetworkFails
        \/ RequestStop \/ StopCloses \/ StopJoinsReceiver \/ StopJoinsNetwork \/ StopJoinsSender

Next == Network \/ Receiver \/ Sender \/ UpdateVideoConfig \/ Main \/ Finished

Spec == Init /\ [][Next]_vars

\* A thread that can take a step takes one; connect, the wait for the grant, the
\* back-off and every write end by their timeouts.  A server that has the auth
\* message answers it.  Failures are never forced, and neither is a stop.
FairSpec == /\ Spec
            /\ WF_vars(Network)
            /\ WF_vars(ReceiverTests \/ Handle \/ (ReceiverEnds /\ ~connected))
            /\ WF_vars(ReceiverReads("auth-ok"))
            /\ WF_vars(Sender)
            /\ WF_vars(StopCloses \/ StopJoinsReceiver \/ StopJoinsNetwork \/ StopJoinsSender)

------------------------------------------------------------------------------
(* Properties.                                                              *)

\* A session that is not about to reconnect was authenticated with the video
\* parameters now in force, wherever between connect, copy, authentication and
\* tear-down the MQTT thread replaced them (cloud_demo.c:326-330, 385-388, 414).
ConfigFresh == net = "session" /\ ~reconnect => authConfig = config

\* An open gate was opened by a message of the current connection: no grant of
\* an old connection is in force on a new one, although a late message may
\* reopen a gate after the tear-down closed it (cloud_demo.c:311-315, 378-382).
\* Playback is excepted only where the SDK refused to close it as the turn began:
\* cloud_demo.c:315 does not look at the result.
GatesBelongToConnection == /\ authenticated => "auth-ok" \in grants
                           /\ upload => "media-start" \in grants
                           /\ playback => "intercom-start" \in grants \/ ajar

\* When stop returns no thread is left, the connection is down and cannot come
\* back, even when connect succeeded after stop had closed the client
\* (cloud_demo.c:761-777).
StopQuiescent == main = "stopped" => /\ net \in {"none", "done"}
                                     /\ sender \in {"none", "done"}
                                     /\ receiver = "none"
                                     /\ ~connected /\ ~running

\* A requested stop ends, wherever the network thread is (cloud_demo.c:745-778).
StopTerminates == main = "closing" ~> main = "stopped"

\* An authenticated session with the parameters in force.
Synchronised == net = "session" /\ connected /\ authenticated /\ ~reconnect /\ authConfig = config

\* When failures and updates cease, the client settles in an authenticated
\* session with the last parameters, unless it is stopped: no request to
\* reconnect is lost and no thread stays on a dead connection.
Converges == <>[](main = "running" => Synchronised)

\* "断开后关闭所有云端门控" (cloud_demo.c:378): when the session is torn down, every
\* gate is closed.
GatesClosedAfterDisconnect == net = "closed" => ~authenticated /\ ~upload /\ ~playback

\* "未鉴权、未获得观看授权或连接断开时不上传" (cloud_demo.c:545): a packet is written only
\* to a connection on which the server has granted authentication and viewing.
MediaOnlyWhenGranted == [][SenderWrites => {"auth-ok", "media-start"} \subseteq grants]_vars
===============================================================================
