------------------------------ MODULE WsClient ------------------------------
(***************************************************************************)
(* The life of the socket, the TLS session and the receiver thread in      *)
(* demo/src/cloud/internal/websocket_client.c, under the threads of        *)
(* demo/src/cloud/cloud_demo.c that share one xn_ws_client: the network    *)
(* thread connects, sends and closes; the media sender sends; the receiver *)
(* of each connection reads and answers a Ping; the main thread closes     *)
(* when it stops.  A connection, its socket, its TLS session and its       *)
(* receiver have the same number.  A session stands with its SSL_CTX.      *)
(*                                                                         *)
(* Only running, connected and the frames are under a mutex.  A call that  *)
(* C leaves undefined - a session used or freed after it was freed, a      *)
(* receiver joined twice - is recorded in misuse; it ends the process or   *)
(* returns as a failed call.                                               *)
(***************************************************************************)
EXTENDS Naturals

CONSTANTS
    Net, Main, Media,   \* the threads
    None,               \* nobody holds send_mutex
    MaxConns            \* bound on the sockets opened

Conn == 1 .. MaxConns
Closer == {Net, Main}
Sender == {Net, Media} \union Conn      \* a receiver sends a Pong

ASSUME WsAssumption == /\ MaxConns \in Nat
                       /\ Net # Main /\ Net # Media
                       /\ Net \notin Conn /\ Media \notin Conn /\ None \notin Sender

VARIABLES
    running,    \* cloud->running
    connected,  \* client->connected
    fd, ssl, handle,    \* client->socket_fd, ssl and receiver_thread; 0 for none
    live,       \* TLS sessions allocated and not freed
    cut,        \* sockets shut down or closed
    opened,     \* number of sockets opened
    net,        \* control point of the network thread
    next,       \* where the network thread goes on after its close
    main,       \* control point of workcard_cloud_demo_stop
    recv,       \* control point of each receiver
    snd,        \* control point of xn_ws_send_frame in each sender
    lock,       \* holder of send_mutex
    close,      \* control point of xn_ws_client_close in each closer
    misuse,     \* ghost: undefined calls made
    crashed     \* the process has ended by one of them

client == <<connected, fd, ssl, handle>>
resources == <<live, cut, opened>>
fault == <<misuse, crashed>>
vars == <<running, client, resources, net, next, main, recv, snd, lock, close, fault>>

TypeOK == /\ running \in BOOLEAN /\ connected \in BOOLEAN /\ crashed \in BOOLEAN
          /\ fd \in 0 .. MaxConns /\ ssl \in 0 .. MaxConns /\ handle \in 0 .. MaxConns
          /\ live \subseteq Conn /\ cut \subseteq Conn /\ opened \in 0 .. MaxConns
          /\ net \in {"top", "closing", "tcp", "tls", "handshake", "publish", "spawn",
                      "auth", "session", "done"}
          /\ next \in {"top", "tcp"}
          /\ main \in {"running", "closing", "joining", "stopped"}
          /\ recv \in [Conn -> {"none", "test", "read", "pong", "ending", "done", "joined"}]
          /\ snd \in [Sender -> {"idle", "built", "writing", "failed", "marked"}]
          /\ lock \in Sender \union {None}
          /\ close \in [Closer -> {"none", "flag", "shutdown", "join", "call", "joining",
                                   "free", "freeing", "null", "socket"}]
          /\ misuse \subseteq {"handshake", "write", "read", "join", "free"}

Init == /\ running = TRUE /\ connected = FALSE /\ crashed = FALSE
        /\ fd = 0 /\ ssl = 0 /\ handle = 0
        /\ live = {} /\ cut = {} /\ opened = 0
        /\ net = "top" /\ next = "tcp" /\ main = "running"
        /\ recv = [c \in Conn |-> "none"]
        /\ snd = [t \in Sender |-> "idle"] /\ lock = None
        /\ close = [t \in Closer |-> "none"]
        /\ misuse = {}

\* A step of a process that has not ended, with nothing undefined in it.
Proceeds == ~crashed /\ UNCHANGED fault

\* An undefined call: the process ends, or the call returns and effect follows.
Undefined(kind, effect) == /\ ~crashed /\ crashed' \in BOOLEAN
                           /\ misuse' = misuse \union {kind}
                           /\ effect

------------------------------------------------------------------------------
(* xn_ws_client_close, in the network thread and in the main thread.        *)

CloseGoto(t, label) == close' = [close EXCEPT ![t] = label]

ClearFlag(t) ==
    /\ close[t] = "flag"
    /\ connected' = FALSE
    /\ CloseGoto(t, "shutdown")
    /\ UNCHANGED <<running, fd, ssl, handle, resources, net, next, main, recv, snd, lock>>
    /\ Proceeds

\* The socket is closed at the end only (seeded fault).
ShutsNothing(t) ==
    /\ close[t] = "shutdown"
    /\ CloseGoto(t, "join")
    /\ UNCHANGED <<running, client, resources, net, next, main, recv, snd, lock>>
    /\ Proceeds

ShutDown(t) ==
    /\ close[t] = "shutdown"
    /\ cut' = cut \union ({fd} \ {0})
    /\ CloseGoto(t, "join")
    /\ UNCHANGED <<running, client, live, opened, net, next, main, recv, snd, lock>>
    /\ Proceeds

\* The receiver is not waited for (seeded fault).
SkipJoin(t) ==
    /\ close[t] = "join"
    /\ CloseGoto(t, "free")
    /\ UNCHANGED <<running, client, resources, net, next, main, recv, snd, lock>>
    /\ Proceeds

TestHandle(t) ==
    /\ close[t] = "join"
    /\ CloseGoto(t, IF handle = 0 THEN "free" ELSE "call")
    /\ UNCHANGED <<running, client, resources, net, next, main, recv, snd, lock>>
    /\ Proceeds

\* pthread_join of a receiver nobody else is joining.
CallJoin(t) ==
    /\ close[t] = "call" /\ handle # 0
    /\ \A u \in Closer \ {t} : close[u] # "joining"
    /\ CloseGoto(t, "joining")
    /\ UNCHANGED <<running, client, resources, net, next, main, recv, snd, lock>>
    /\ Proceeds

\* The other closer is joining it too, or has just joined it.
JoinTwice(t) ==
    /\ close[t] = "call"
    /\ handle = 0 \/ \E u \in Closer \ {t} : close[u] = "joining"
    /\ Undefined("join", handle' = 0 /\ CloseGoto(t, "free"))
    /\ UNCHANGED <<running, connected, fd, ssl, resources, net, next, main, recv, snd, lock>>

\* The receiver has ended.  Only the closer that waits for it can be waiting.
Joined(t) ==
    /\ close[t] = "joining"
    /\ \E c \in Conn : recv[c] = "done" /\ recv' = [recv EXCEPT ![c] = "joined"]
    /\ handle' = 0
    /\ CloseGoto(t, "free")
    /\ UNCHANGED <<running, connected, fd, ssl, resources, net, next, main, snd, lock>>
    /\ Proceeds

TestSession(t) ==
    /\ close[t] = "free"
    /\ CloseGoto(t, IF ssl = 0 THEN "socket" ELSE "freeing")
    /\ UNCHANGED <<running, client, resources, net, next, main, recv, snd, lock>>
    /\ Proceeds

FreeSession(t) ==
    /\ close[t] = "freeing"
    /\ CloseGoto(t, "null")
    /\ IF ssl \in live THEN live' = live \ {ssl} /\ Proceeds
       ELSE Undefined("free", UNCHANGED live)
    /\ UNCHANGED <<running, client, cut, opened, net, next, main, recv, snd, lock>>

ClearSession(t) ==
    /\ close[t] = "null"
    /\ ssl' = 0
    /\ CloseGoto(t, "socket")
    /\ UNCHANGED <<running, connected, fd, handle, resources, net, next, main, recv, snd, lock>>
    /\ Proceeds

\* The context and the socket go; the close returns to its caller.
CloseSocket(t) ==
    /\ close[t] = "socket"
    /\ cut' = cut \union ({fd} \ {0})
    /\ fd' = 0
    /\ CloseGoto(t, "none")
    /\ net' = IF t = Net THEN next ELSE net
    /\ main' = IF t = Main THEN "joining" ELSE main
    /\ UNCHANGED <<running, connected, ssl, handle, live, opened, next, recv, snd, lock>>
    /\ Proceeds

------------------------------------------------------------------------------
(* The network thread: workcard_cloud_network_main and xn_ws_client_connect. *)

NetGoto(label) == net' = label /\ UNCHANGED <<next, close>>

NetCloses(label) == /\ net' = "closing" /\ next' = label
                    /\ CloseGoto(Net, "flag")

NetOnly == UNCHANGED <<running, client, resources, main, recv, snd, lock>> /\ Proceeds

\* xn_ws_client_connect first closes what is left of the last connection.
NetTop == /\ net = "top"
          /\ IF running THEN NetCloses("tcp") ELSE NetGoto("done")
          /\ NetOnly

ConnectsTcp == /\ net = "tcp" /\ opened < MaxConns
               /\ opened' = opened + 1 /\ fd' = opened'
               /\ NetGoto("tls")
               /\ UNCHANGED <<running, connected, ssl, handle, live, cut, main, recv, snd, lock>>
               /\ Proceeds

TcpFails == net = "tcp" /\ NetGoto("top") /\ NetOnly

CreatesSession == /\ net = "tls"
                  /\ ssl' = opened /\ live' = live \union {opened}
                  /\ NetGoto("handshake")
                  /\ UNCHANGED <<running, connected, fd, handle, cut, opened, main, recv, snd,
                                 lock>>
                  /\ Proceeds

\* SSL_connect and the upgrade on a session nobody has freed, over its socket.
ShakesHands == /\ net = "handshake" /\ ssl \in live /\ fd \notin cut \union {0}
               /\ NetGoto("publish")
               /\ NetOnly

\* The session of a failed connect stays open (seeded fault).
ConnectFailsOpen == /\ net \in {"tls", "handshake"} /\ (net = "handshake" => ssl \in live)
                    /\ NetGoto("top")
                    /\ NetOnly

\* Any later step of the connect fails, at once if the socket is gone.
ConnectFails == /\ net \in {"tls", "handshake"} /\ (net = "handshake" => ssl \in live)
                /\ NetCloses("top")
                /\ NetOnly

HandshakeOnFreed == /\ net = "handshake" /\ ssl \notin live
                    /\ Undefined("handshake", NetCloses("top"))
                    /\ UNCHANGED <<running, client, resources, main, recv, snd, lock>>

Publishes == /\ net = "publish"
             /\ connected' = TRUE
             /\ NetGoto("spawn")
             /\ UNCHANGED <<running, fd, ssl, handle, resources, main, recv, snd, lock>>
             /\ Proceeds

SpawnsReceiver == /\ net = "spawn"
                  /\ handle' = opened /\ recv' = [recv EXCEPT ![opened] = "test"]
                  /\ NetGoto("auth")
                  /\ UNCHANGED <<running, connected, fd, ssl, resources, main, snd, lock>>
                  /\ Proceeds

SpawnFails == net = "spawn" /\ NetCloses("top") /\ NetOnly

\* The session ends when the connection is lost, a stop or a reconnection is
\* requested, or the authentication fails.
LeavesSession == /\ net = "session" /\ snd[Net] = "idle"
                 /\ NetCloses("top")
                 /\ NetOnly

------------------------------------------------------------------------------
(* xn_ws_send_frame, in every thread that sends.                            *)

SndGoto(t, label) == snd' = [snd EXCEPT ![t] = label]

SenderRest == UNCHANGED <<running, fd, ssl, handle, live, opened, next, main, close>>
SendOnly == SenderRest /\ UNCHANGED net

\* The thread is where the code calls it; the frame is built.  The authentication
\* is sent unasked, a heartbeat while the loop condition holds.
MaySend(t) == \/ t = Net /\ (net = "auth" \/ (net = "session" /\ running /\ connected))
              \/ t = Media /\ connected /\ main # "stopped"
              \/ t \in Conn /\ recv[t] = "pong"

BuildsFrame(t) == /\ snd[t] = "idle" /\ MaySend(t)
                  /\ SndGoto(t, "built")
                  /\ net' = IF t = Net THEN "session" ELSE net
                  /\ SenderRest /\ UNCHANGED <<connected, cut, recv, lock>> /\ Proceeds

\* The connection is tested once more under send_mutex.
Locks(t) == /\ snd[t] = "built" /\ lock = None
            /\ IF connected THEN lock' = t /\ SndGoto(t, "writing")
                            ELSE lock' = lock /\ SndGoto(t, "failed")
            /\ SendOnly /\ UNCHANGED <<connected, cut, recv>> /\ Proceeds

\* A receiver that has answered a Ping reads on, whatever the result.
AfterSend(t) == recv' = IF t \in Conn THEN [recv EXCEPT ![t] = "test"] ELSE recv

Writes(t) == /\ snd[t] = "writing" /\ ssl \in live /\ ssl \notin cut
             /\ SndGoto(t, "idle") /\ lock' = None /\ AfterSend(t)
             /\ SendOnly /\ UNCHANGED <<connected, cut>> /\ Proceeds

WriteFails(t) == /\ snd[t] = "writing" /\ ssl \in live
                 /\ SndGoto(t, "failed") /\ lock' = None
                 /\ SendOnly /\ UNCHANGED <<connected, cut, recv>> /\ Proceeds

WritesFreed(t) == /\ snd[t] = "writing" /\ ssl \notin live
                  /\ Undefined("write", SndGoto(t, "failed") /\ lock' = None)
                  /\ SendOnly /\ UNCHANGED <<connected, cut, recv>>

MarksLost(t) == /\ snd[t] = "failed"
                /\ connected' = FALSE
                /\ SndGoto(t, "marked")
                /\ SendOnly /\ UNCHANGED <<cut, recv, lock>> /\ Proceeds

\* The socket of the moment is shut down, not that of the failed write.
ShutsDown(t) == /\ snd[t] = "marked"
                /\ cut' = cut \union ({fd} \ {0})
                /\ SndGoto(t, "idle") /\ AfterSend(t)
                /\ SendOnly /\ UNCHANGED <<connected, lock>> /\ Proceeds

------------------------------------------------------------------------------
(* xn_ws_receiver_main.                                                     *)

RecvGoto(c, label) == recv' = [recv EXCEPT ![c] = label]

RecvOnly == UNCHANGED <<running, fd, ssl, handle, resources, net, next, main, snd, lock, close>>

TestsConnected(c) == /\ recv[c] = "test"
                     /\ RecvGoto(c, IF connected THEN "read" ELSE "ending")
                     /\ RecvOnly /\ UNCHANGED connected /\ Proceeds

\* A frame is handled; a Ping is answered first.
ReadsFrame(c) == /\ recv[c] = "read" /\ ssl \in live /\ ssl \notin cut
                 /\ RecvGoto(c, "test") \/ RecvGoto(c, "pong")
                 /\ RecvOnly /\ UNCHANGED connected /\ Proceeds

\* The socket is shut down, the peer closes, or the frame is not accepted.
ReadEnds(c) == /\ recv[c] = "read" /\ ssl \in live
               /\ RecvGoto(c, "ending")
               /\ RecvOnly /\ UNCHANGED connected /\ Proceeds

ReadsFreed(c) == /\ recv[c] = "read" /\ ssl \notin live
                 /\ Undefined("read", RecvGoto(c, "ending"))
                 /\ RecvOnly /\ UNCHANGED connected

EndsReceiving(c) == /\ recv[c] = "ending"
                    /\ connected' = FALSE
                    /\ RecvGoto(c, "done")
                    /\ RecvOnly /\ Proceeds

------------------------------------------------------------------------------
(* workcard_cloud_demo_stop in the main thread.                             *)

\* The network thread is not told to stop (seeded fault).
StopCloses == /\ main = "running"
              /\ main' = "closing"
              /\ CloseGoto(Main, "flag")
              /\ UNCHANGED <<running, client, resources, net, next, recv, snd, lock>>
              /\ Proceeds

RequestsStop == /\ main = "running"
                /\ running' = FALSE
                /\ main' = "closing"
                /\ CloseGoto(Main, "flag")
                /\ UNCHANGED <<client, resources, net, next, recv, snd, lock>>
                /\ Proceeds

\* Network thread and media sender are joined.
Stops == /\ main = "joining" /\ net = "done" /\ snd[Media] = "idle"
         /\ main' = "stopped"
         /\ UNCHANGED <<running, client, resources, net, next, recv, snd, lock, close>>
         /\ Proceeds

------------------------------------------------------------------------------
CloseStep(t) == \/ ClearFlag(t) \/ ShutDown(t) \/ TestHandle(t) \/ CallJoin(t) \/ JoinTwice(t)
                \/ Joined(t) \/ TestSession(t) \/ FreeSession(t) \/ ClearSession(t)
                \/ CloseSocket(t)

NetStep == \/ NetTop \/ ConnectsTcp \/ TcpFails \/ CreatesSession \/ ShakesHands
           \/ ConnectFails \/ HandshakeOnFreed \/ Publishes \/ SpawnsReceiver \/ SpawnFails
           \/ LeavesSession

SendStep(t) == \/ Locks(t) \/ Writes(t) \/ WriteFails(t) \/ WritesFreed(t) \/ MarksLost(t)
               \/ ShutsDown(t)

RecvStep(c) == \/ TestsConnected(c) \/ ReadsFrame(c) \/ ReadEnds(c) \/ ReadsFreed(c)
               \/ EndsReceiving(c)

Next == \/ \E t \in Closer : CloseStep(t)
        \/ NetStep \/ RequestsStop \/ Stops
        \/ \E t \in Sender : BuildsFrame(t) \/ SendStep(t)
        \/ \E c \in Conn : RecvStep(c)

Spec == Init /\ [][Next]_vars

\* Every thread runs: the steps of a connect and SSL_write return within their
\* time limits, SSL_read when its socket is shut down.  A receiver sends its Pong
\* and the network thread its first message without waiting for anything else.
\* A thread that waits for send_mutex gets it in the end: the others come back for
\* it at the pace of the camera and the heartbeat.
FairSpec == /\ Spec
            /\ \A t \in Closer : WF_vars(CloseStep(t))
            /\ WF_vars(NetStep) /\ WF_vars(Stops)
            /\ \A t \in Sender : WF_vars(SendStep(t)) /\ SF_vars(Locks(t))
            /\ \A t \in Sender \ {Media} : WF_vars(BuildsFrame(t))
            /\ \A c \in Conn : /\ WF_vars(TestsConnected(c))
                               /\ WF_vars(EndsReceiving(c))
                               /\ WF_vars(ssl \in cut \union {0} /\ RecvStep(c))

------------------------------------------------------------------------------
(* Properties.                                                              *)

\* Until a stop is requested the network thread is the only closer: no receiver
\* outlives its TLS session and none is freed twice, over any number of
\* connections.  What remains is the write of a sender that tested the
\* connection before the close (websocket_client.c:619-622, 939-980).
OneCloserIsSafe == main = "running" => misuse \subseteq {"write"}

\* When stop returns, everything of every connection has been released and every
\* receiver has ended, also where two closes ran into each other or a connect
\* succeeded under the stop (cloud_demo.c:745-778).
StopReleasesAll == main = "stopped" => /\ live = {} /\ fd = 0 /\ ssl = 0 /\ ~connected
                                       /\ \A c \in Conn : recv[c] \in {"none", "done", "joined"}

\* A close that waits for a receiver waits for one that will end: its socket has
\* been shut down, by whichever close, or the network thread has still to pass the
\* shutdown of its own close.  SSL_read has no time limit (websocket_client.c:655,
\* 939-966).
JoinEnds == (\E t \in Closer : close[t] = "joining") =>
                \E c \in Conn : /\ recv[c] \notin {"none", "joined"}
                               /\ \/ c \in cut
                                  \/ net \in {"auth", "session"}
                                  \/ close[Net] \in {"flag", "shutdown"}

\* A stop returns, unless an undefined call ended the process: no close waits for
\* a receiver that waits for it, and no sender keeps the mutex.
StopReturns == main = "closing" ~> (main = "stopped" \/ crashed)
==============================================================================
