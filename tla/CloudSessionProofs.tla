-------------------------- MODULE CloudSessionProofs --------------------------
(***************************************************************************)
(* Proofs about CloudSession, for every number of configuration changes    *)
(* and of failures.                                                        *)
(***************************************************************************)
EXTENDS CloudSession, TLAPS

\* Between two connections the last receiver has been joined and the client is
\* disconnected; while a close is under way it is disconnected already.
NetworkOwnsLink == /\ net \in {"none", "top", "connecting", "closed", "backoff", "done"} => receiver = "none"
                   /\ net \in {"none", "top", "connecting", "closed", "backoff", "done", "closing", "abandoning"}
                        => ~connected

\* The receiver handles only what was sent on its own connection, and holds a
\* message only between reading and handling it.
MessageGranted == /\ receiver \notin {"handling", "granting"} => message = "none"
                  /\ message \in Grants => message \in grants

\* The connection is opened with all gates closed, save playback that the SDK
\* refused to close.
ConnectsClosed == net = "connecting" => ~authenticated /\ ~upload /\ (playback => ajar)

\* ConfigFresh holds from the copy on, not only once the session has begun.
CopyFresh == net \in {"authenticating", "waiting", "session"} /\ ~reconnect => authConfig = config

\* How far the main thread has come bounds what the other threads may do.
Control == /\ main \in {"created", "starting", "launching"} => net = "none"
           /\ main \in {"created", "starting"} => sender = "none"
           /\ main \in {"closing", "joiningReceiver", "joiningNetwork", "joiningSender", "stopped"} => ~running
           /\ main \in {"joiningSender", "stopped"} => net \in {"none", "done"}
           /\ main = "stopped" => sender \in {"none", "done"}

IInv == /\ TypeOK
        /\ NetworkOwnsLink
        /\ MessageGranted
        /\ GatesBelongToConnection
        /\ ConnectsClosed
        /\ CopyFresh
        /\ Control

------------------------------------------------------------------------------
\* The invariant holds before start.
LEMMA InitInvariant == Init => IInv
  <1> SUFFICES ASSUME Init PROVE IInv
    OBVIOUS
  <1> USE DEF Init, Grants, Messages
  <1>1. TypeOK
    BY DEF TypeOK
  <1>2. NetworkOwnsLink
    BY DEF NetworkOwnsLink
  <1>3. MessageGranted
    BY DEF MessageGranted
  <1>4. GatesBelongToConnection
    BY DEF GatesBelongToConnection
  <1>5. ConnectsClosed
    BY DEF ConnectsClosed
  <1>6. CopyFresh
    BY DEF CopyFresh
  <1>7. Control
    BY DEF Control
  <1> QED
    BY <1>1, <1>2, <1>3, <1>4, <1>5, <1>6, <1>7 DEF IInv

\* Every step of every thread preserves it.
LEMMA NextInvariant == IInv /\ [Next]_vars => IInv'
  <1> SUFFICES ASSUME IInv, [Next]_vars PROVE IInv'
    OBVIOUS
  <1> USE DEF Grants, Messages, Fault, settings, gates, link, server, IInv, TypeOK, NetworkOwnsLink,
              MessageGranted, GatesBelongToConnection, ConnectsClosed, CopyFresh, Control
  <1>1. CASE Network
    <2>1. CASE NetLeaves
      BY <2>1 DEF NetLeaves
    <2>2. CASE EnterClosingGates
      <3>1. authenticated' \in BOOLEAN /\ upload' \in BOOLEAN
        BY <2>2, Zenon DEF EnterClosingGates
      <3>2. playback' \in BOOLEAN /\ ajar' \in BOOLEAN /\ ajar' = playback'
        BY <2>2, Zenon DEF EnterClosingGates, ClosePlayback
      <3> QED
        BY <3>1, <3>2, <2>2 DEF EnterClosingGates
    <2>3. CASE ConnectSucceeds
      BY <2>3 DEF ConnectSucceeds
    <2>4. CASE ConnectFails
      BY <2>4 DEF ConnectFails
    <2>5. CASE CopyConfig
      BY <2>5 DEF CopyConfig
    <2>6. CASE SendAuth
      BY <2>6 DEF SendAuth
    <2>7. CASE SendAuthFails
      <3>1. connected' \in BOOLEAN
        BY <2>7, Zenon DEF SendAuthFails
      <3> QED
        BY <3>1, <2>7 DEF SendAuthFails
    <2>8. CASE AuthGranted
      BY <2>8 DEF AuthGranted
    <2>9. CASE AuthRefused
      BY <2>9 DEF AuthRefused
    <2>10. CASE Abandon
      <3>1. connected' \in BOOLEAN
        BY <2>10, Zenon DEF Abandon
      <3> QED
        BY <3>1, <2>10 DEF Abandon
    <2>11. CASE AbandonJoins
      BY <2>11 DEF AbandonJoins
    <2>12. CASE HeartbeatFails
      <3>1. connected' \in BOOLEAN
        BY <2>12, Zenon DEF HeartbeatFails
      <3> QED
        BY <3>1, <2>12 DEF HeartbeatFails
    <2>13. CASE SessionEnds
      BY <2>13 DEF SessionEnds
    <2>14. CASE ClearAuthenticated
      <3>1. authenticated' \in BOOLEAN
        BY <2>14, Zenon DEF ClearAuthenticated
      <3> QED
        BY <3>1, <2>14 DEF ClearAuthenticated
    <2>15. CASE ClearUpload
      <3>1. upload' \in BOOLEAN
        BY <2>15, Zenon DEF ClearUpload
      <3> QED
        BY <3>1, <2>15 DEF ClearUpload
    <2>16. CASE ClearPlayback
      <3>1. CASE playback' = playback
        <4>1. playback' \in BOOLEAN
          BY <3>1, Zenon
        <4> QED
          BY <3>1, <4>1, <2>16 DEF ClearPlayback
      <3>2. CASE playback' = FALSE
        <4>1. playback' \in BOOLEAN
          BY <3>2, Zenon
        <4> QED
          BY <3>2, <4>1, <2>16 DEF ClearPlayback
      <3> QED
        BY <3>1, <3>2, <2>16 DEF ClearPlayback, ClosePlayback
    <2>17. CASE Close
      <3>1. connected' \in BOOLEAN
        BY <2>17, Zenon DEF Close
      <3> QED
        BY <3>1, <2>17 DEF Close
    <2>18. CASE CloseJoins
      BY <2>18 DEF CloseJoins
    <2>19. CASE ConsumeReconnect
      BY <2>19, ZenonT(30) DEF ConsumeReconnect
    <2>20. CASE BackoffEnds
      BY <2>20 DEF BackoffEnds
    <2> QED
      BY ONLY <1>1, <2>1, <2>2, <2>3, <2>4, <2>5, <2>6, <2>7, <2>8, <2>9, <2>10, <2>11, <2>12,
         <2>13, <2>14, <2>15, <2>16, <2>17, <2>18, <2>19, <2>20 DEF Network
  <1>2. CASE Receiver
    <2>1. CASE ReceiverTests
      BY <2>1 DEF ReceiverTests
    <2>2. ASSUME NEW m \in Messages, ReceiverReads(m) PROVE IInv'
      <3>1. TypeOK'
        BY <2>2 DEF ReceiverReads
      <3> QED
        BY <3>1, <2>2, ZenonT(30) DEF ReceiverReads
    <2>3. CASE ReceiverEnds
      <3>1. connected' \in BOOLEAN
        BY <2>3, Zenon DEF ReceiverEnds
      <3> QED
        BY <3>1, <2>3 DEF ReceiverEnds
    <2>4. CASE HandleAuthOk
      BY <2>4 DEF HandleAuthOk
    <2>5. CASE CloseUploadAfterAuthOk
      <3>1. upload' \in BOOLEAN
        BY <2>5, Zenon DEF CloseUploadAfterAuthOk
      <3> QED
        BY <3>1, <2>5 DEF CloseUploadAfterAuthOk
    <2>6. CASE HandleMedia
      BY <2>6 DEF HandleMedia
    <2>7. CASE HandleIntercom
      <3>1. playback' \in BOOLEAN /\ connected' \in BOOLEAN
        BY <2>7, Zenon DEF HandleIntercom
      <3> QED
        BY <3>1, <2>7 DEF HandleIntercom
    <2> QED
      BY ONLY <1>2, <2>1, <2>2, <2>3, <2>4, <2>5, <2>6, <2>7 DEF Receiver, Handle
  <1>3. CASE Sender
    <2>1. CASE SenderChecksGate
      BY <2>1 DEF SenderChecksGate
    <2>2. CASE SenderChecksConnection
      BY <2>2 DEF SenderChecksConnection
    <2>3. CASE SenderWrites
      BY <2>3 DEF SenderWrites
    <2>4. CASE SenderWriteFails
      BY <2>4 DEF SenderWriteFails
    <2>5. CASE SenderMarksLost
      <3>1. connected' \in BOOLEAN
        BY <2>5, Zenon DEF SenderMarksLost
      <3> QED
        BY <3>1, <2>5 DEF SenderMarksLost
    <2>6. CASE SenderExits
      BY <2>6 DEF SenderExits
    <2> QED
      BY ONLY <1>3, <2>1, <2>2, <2>3, <2>4, <2>5, <2>6 DEF Sender
  <1>4. CASE Main
    <2>1. CASE PublishRunning
      BY <2>1 DEF PublishRunning
    <2>2. CASE LaunchSender
      BY <2>2 DEF LaunchSender
    <2>3. CASE LaunchSenderFails
      BY <2>3 DEF LaunchSenderFails
    <2>4. CASE LaunchNetwork
      BY <2>4 DEF LaunchNetwork
    <2>5. CASE LaunchNetworkFails
      BY <2>5 DEF LaunchNetworkFails
    <2>6. CASE RequestStop
      <3>1. running' \in BOOLEAN /\ authenticated' \in BOOLEAN /\ upload' \in BOOLEAN
        BY <2>6, Zenon DEF RequestStop
      <3> QED
        BY <3>1, <2>6 DEF RequestStop
    <2>7. CASE StopCloses
      <3>1. connected' \in BOOLEAN
        BY <2>7, Zenon DEF StopCloses
      <3> QED
        BY <3>1, <2>7 DEF StopCloses
    <2>8. CASE StopJoinsReceiver
      BY <2>8 DEF StopJoinsReceiver
    <2>9. CASE StopJoinsNetwork
      BY <2>9 DEF StopJoinsNetwork
    <2>10. CASE StopJoinsSender
      BY <2>10 DEF StopJoinsSender
    <2> QED
      BY ONLY <1>4, <2>1, <2>2, <2>3, <2>4, <2>5, <2>6, <2>7, <2>8, <2>9, <2>10 DEF Main
  <1>5. CASE UpdateVideoConfig
    BY <1>5 DEF UpdateVideoConfig
  <1>6. CASE UNCHANGED vars
    BY <1>6 DEF vars
  <1> QED
    BY <1>1, <1>2, <1>3, <1>4, <1>5, <1>6 DEF Next, Finished

\* The inductive invariant holds in every reachable state.
THEOREM Invariant == Spec => []IInv
  BY InitInvariant, NextInvariant, PTL DEF Spec

------------------------------------------------------------------------------
\* Every variable keeps its type.
THEOREM TypeCorrect == Spec => []TypeOK
  <1>1. IInv => TypeOK
    BY DEF IInv
  <1> QED
    BY <1>1, Invariant, PTL

\* A running session uses the video parameters in force, or a reconnection has
\* been requested (cloud_demo.c:326-330, 385-388, 414).
THEOREM FreshConfig == Spec => []ConfigFresh
  <1>1. IInv => ConfigFresh
    BY DEF IInv, CopyFresh, ConfigFresh
  <1> QED
    BY <1>1, Invariant, PTL

\* No grant of an old connection is in force on a new one, save a playback gate
\* that the SDK refused to close (cloud_demo.c:311-315).
THEOREM GatesOfConnection == Spec => []GatesBelongToConnection
  <1>1. IInv => GatesBelongToConnection
    BY DEF IInv
  <1> QED
    BY <1>1, Invariant, PTL

\* When stop returns every thread has ended and the connection is down
\* (cloud_demo.c:745-778).
THEOREM QuietAfterStop == Spec => []StopQuiescent
  <1>1. IInv => StopQuiescent
    BY DEF IInv, NetworkOwnsLink, Control, StopQuiescent
  <1> QED
    BY <1>1, Invariant, PTL

\* The server has granted this connection to upload media.
Granted == {"auth-ok", "media-start"} \subseteq grants

\* What remains of MediaOnlyWhenGranted, which a stale check breaks: the sender passes
\* the gate only on a connection that has the grants, and only a new connection takes
\* them away, so that a packet reaches a connection without them only if the client
\* reconnected between the check and the write (cloud_demo.c:545-547).
GrantedUntilReconnect == [][/\ SenderChecksGate => Granted
                            /\ Granted /\ ~Granted' => ConnectSucceeds]_vars

\* Whatever the order of the threads, a packet is written without a grant only after
\* a reconnection that came between its check and its write.
THEOREM GrantsLast == Spec => GrantedUntilReconnect
  <1>1. IInv /\ [Next]_vars => [/\ SenderChecksGate => Granted
                                /\ Granted /\ ~Granted' => ConnectSucceeds]_vars
    <2> SUFFICES ASSUME IInv, Next
                 PROVE  /\ SenderChecksGate => Granted
                        /\ Granted /\ ~Granted' => ConnectSucceeds
      OBVIOUS
    <2>1. SenderChecksGate => Granted
      BY DEF SenderChecksGate, Granted, IInv, GatesBelongToConnection
    <2>2. grants \subseteq grants' \/ ConnectSucceeds
      <3> USE DEF server, link, gates, settings
      <3>1. CASE Network
        BY <3>1 DEF Network, NetLeaves, EnterClosingGates, ConnectFails, CopyConfig, SendAuth,
                    SendAuthFails, AuthGranted, AuthRefused, Abandon, AbandonJoins,
                    HeartbeatFails, SessionEnds, ClearAuthenticated, ClearUpload,
                    ClearPlayback, Close, CloseJoins, ConsumeReconnect, BackoffEnds
      <3>2. CASE Receiver
        BY <3>2 DEF Receiver, ReceiverTests, ReceiverReads, ReceiverEnds, Handle, HandleAuthOk,
                    CloseUploadAfterAuthOk, HandleMedia, HandleIntercom
      <3>3. CASE Sender
        BY <3>3 DEF Sender, SenderChecksGate, SenderChecksConnection, SenderWrites,
                    SenderWriteFails, SenderMarksLost, SenderExits
      <3>4. CASE UpdateVideoConfig
        BY <3>4 DEF UpdateVideoConfig
      <3>5. CASE Main
        BY <3>5 DEF Main, PublishRunning, LaunchSender, LaunchSenderFails, LaunchNetwork,
                    LaunchNetworkFails, RequestStop, StopCloses, StopJoinsReceiver,
                    StopJoinsNetwork, StopJoinsSender
      <3>6. CASE Finished
        BY <3>6 DEF Finished, vars
      <3> QED
        BY <3>1, <3>2, <3>3, <3>4, <3>5, <3>6 DEF Next
    <2> QED
      BY <2>1, <2>2 DEF Granted
  <1> QED
    BY <1>1, Invariant, PTL DEF Spec, GrantedUntilReconnect

===============================================================================
