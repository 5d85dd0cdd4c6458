------------------------------ MODULE WsProofs ------------------------------
(***************************************************************************)
(* Proofs about WsClient, for any number of connections.  Until a stop is  *)
(* requested the network thread is the only closer.  RunningInv says what  *)
(* each stage of its connect and of its close still holds: whoever may use *)
(* the session finds it allocated, and the receiver of the connection, as  *)
(* long as it has not been joined, is the one the handle names.  StopInv   *)
(* says what is left of that once two threads close at the same time.      *)
(*                                                                         *)
(* Proofs about WsReceiver, for any byte size and any frames: what the     *)
(* card writes reads back as it was (FrameShape, ParsesBuilt), and         *)
(* StreamInv says which byte of which frame the receiver is at.            *)
(***************************************************************************)
EXTENDS WsClient, WsReceiver, SequenceTheorems, TLAPS

Active == {"test", "read", "pong", "ending"}

\* The main thread has not begun to close, and the network thread closes where
\* its control point says so.
ClosersInv == /\ close[Main] = "none"
              /\ (net = "closing") <=> (close[Net] # "none")

\* A receiver that has not been joined is the one of the handle.
ReceiverInv ==
    /\ \A c \in Conn : recv[c] \in Active \union {"done"} => handle = c
    /\ handle # 0 => \/ net \in {"auth", "session"}
                     \/ close[Net] \in {"flag", "shutdown", "join", "call", "joining"}
    /\ close[Net] \in {"call", "joining"} => handle # 0
    /\ handle # 0 => recv[handle] \notin {"none", "joined"}

\* The session is allocated wherever it may be used.
SessionInv ==
    /\ net \in {"handshake", "publish", "spawn", "auth", "session"} => ssl # 0
    /\ handle # 0 => ssl # 0
    /\ ssl # 0 /\ close[Net] # "null" => ssl \in live
    /\ close[Net] = "freeing" => ssl # 0
    /\ net \in {"top", "tcp", "tls", "done"} \/ close[Net] = "socket" => ssl = 0

\* A connect that has a socket has its number.
OpenedInv == net \in {"tls", "handshake", "publish", "spawn"} => opened # 0

\* A receiver that answers a Ping is not waiting for anything else.
PongInv == \A c \in Conn : snd[c] # "idle" => recv[c] = "pong"

RunningInv == /\ ClosersInv /\ ReceiverInv /\ SessionInv /\ PongInv
              /\ misuse \subseteq {"write"}

\* A connection has not been begun, or everything of the last one has been closed.
Closed == net \in {"top", "tcp", "done"} \/ (net = "closing" /\ next = "tcp")

\* A receiver that has not been joined.
Unjoined(c) == recv[c] \in Active \union {"done"}

\* How far the threads have come.
PhaseInv == /\ running <=> main = "running"
            /\ main = "closing" <=> close[Main] # "none"
            /\ net = "closing" <=> close[Net] # "none"
            /\ ~(close[Main] = "joining" /\ close[Net] = "joining")
            /\ main = "stopped" => net = "done"
            /\ PongInv

\* There is one receiver at most, and none when a connection is begun.  Whoever
\* closes finds it by the handle, or the other closer is waiting for it.
OneReceiverInv ==
    /\ \A c, d \in Conn : Unjoined(c) /\ Unjoined(d) => c = d
    /\ \A c \in Conn : Unjoined(c) => handle = c \/ \E t \in Closer : close[t] = "joining"
    /\ handle # 0 => \/ net \in {"auth", "session"}
                     \/ /\ close[Net] \in {"flag", "shutdown", "join", "call", "joining"}
                        /\ next = "top"
    /\ \/ net \in {"tcp", "tls", "handshake", "publish", "spawn"}
       \/ net = "closing" /\ next = "tcp"
       => \A c \in Conn : ~Unjoined(c)
    /\ \A c \in Conn : recv[c] \in Active =>
          \/ net \in {"auth", "session"} \/ close[Main] = "joining"
          \/ close[Net] \in {"flag", "shutdown", "join", "call", "joining"}
    /\ close[Main] \in {"call", "joining"} =>
          net \in {"auth", "session", "top", "done"} \/ (net = "closing" /\ next = "top")

\* One session is allocated at most, which ssl names, and the network thread comes
\* out of its close without one, whichever thread has freed it.
ReleaseInv ==
    /\ live \subseteq {ssl} \ {0}
    /\ Closed \/ net = "tls" \/ close[Net] = "socket" => ssl = 0
    /\ close[Main] \in {"freeing", "null"} => ~Closed \/ net \in {"top", "done"}
    /\ close[Main] \in {"freeing", "null"} => net # "tls"
    /\ \A t \in Closer : close[t] = "null" => live = {}
    /\ Closed => fd = 0
    /\ \/ Closed \/ net \in {"tls", "handshake", "publish"}
       \/ net = "closing" /\ close[Net] # "flag"
       => ~connected

\* The socket of the last connection is in fd or has been shut down; the receiver
\* is of that connection, and whoever waits for it has or will have it shut down.
JoinInv ==
    /\ fd \in {0, opened}
    /\ fd = 0 /\ opened # 0 => opened \in cut
    /\ \A c \in Conn : Unjoined(c) => /\ c = opened
                                      /\ \/ c \in cut \/ net \in {"auth", "session"}
                                         \/ close[Net] \in {"flag", "shutdown"}
    /\ handle # 0 => Unjoined(handle)
    /\ \A t \in Closer : close[t] = "joining" => opened # 0 /\ Unjoined(opened)

StopInv == PhaseInv /\ OneReceiverInv /\ ReleaseInv /\ JoinInv

IInv == TypeOK /\ OpenedInv /\ StopInv /\ (main = "running" => RunningInv)

\* Every other number of a socket, a session or a receiver is a connection.
LEMMA ConnPositive == \A n \in 0 .. MaxConns : n # 0 => n \in Conn
  BY WsAssumption DEF Conn

\* Connections are positive numbers; 0 stands for none.
LEMMA ConnNat == Conn \subseteq Nat /\ 0 \notin Conn /\ Conn \subseteq 0 .. MaxConns
  BY WsAssumption DEF Conn

\* The initial state satisfies the inductive invariant.
LEMMA InitIInv == Init => IInv
<1> SUFFICES ASSUME Init PROVE IInv
  OBVIOUS
<1>1. TypeOK
  <2>1. recv \in [Conn -> {"none", "test", "read", "pong", "ending", "done", "joined"}]
    BY DEF Init
  <2>2. snd \in [Sender -> {"idle", "built", "writing", "failed", "marked"}]
    BY DEF Init
  <2>3. close \in [Closer -> {"none", "flag", "shutdown", "join", "call", "joining",
                              "free", "freeing", "null", "socket"}]
    BY DEF Init
  <2>4. fd \in 0 .. MaxConns /\ ssl \in 0 .. MaxConns /\ handle \in 0 .. MaxConns
    BY WsAssumption DEF Init
  <2>5. lock \in Sender \union {None} /\ opened \in 0 .. MaxConns
    BY WsAssumption DEF Init
  <2> QED BY <2>1, <2>2, <2>3, <2>4, <2>5 DEF Init, TypeOK
<1>2. OpenedInv BY DEF Init, OpenedInv
<1>4. StopInv
  BY WsAssumption, ConnNat
     DEF Init, StopInv, PhaseInv, OneReceiverInv, ReleaseInv, JoinInv, PongInv, Closed, Unjoined, Active,
         Closer, Sender
<1>3. RunningInv
  BY WsAssumption, ConnNat
     DEF Init, RunningInv, ClosersInv, ReceiverInv, SessionInv, PongInv, Active, Closer, Sender
<1> QED BY <1>1, <1>2, <1>3, <1>4 DEF IInv

\* Types and the number of sockets are kept by every step, also after a stop.
LEMMA StepType == TypeOK /\ OpenedInv /\ [Next]_vars => TypeOK' /\ OpenedInv'
<1> SUFFICES ASSUME TypeOK, OpenedInv, [Next]_vars PROVE TypeOK' /\ OpenedInv'
  OBVIOUS
<1> USE WsAssumption, ConnNat
    DEF TypeOK, OpenedInv, client, resources, fault, Proceeds, Undefined, CloseGoto, NetGoto, NetCloses,
        NetOnly, SndGoto, SenderRest, SendOnly, RecvGoto, RecvOnly, Closer, Sender
<1>1. ASSUME NEW t \in Closer, CloseStep(t) PROVE TypeOK' /\ OpenedInv'
  <2>1. CASE ClearFlag(t)    BY <2>1, ZenonT(30) DEF ClearFlag
  <2>2. CASE ShutDown(t)     BY <2>2 DEF ShutDown, Conn
  <2>3. CASE TestHandle(t)   BY <2>3 DEF TestHandle
  <2>4. CASE CallJoin(t)     BY <2>4 DEF CallJoin
  <2>5. CASE JoinTwice(t)    BY <2>5 DEF JoinTwice
  <2>6. CASE Joined(t)       BY <2>6 DEF Joined
  <2>7. CASE TestSession(t)  BY <2>7 DEF TestSession
  <2>8. CASE FreeSession(t)
    <3>1. live' \subseteq Conn /\ misuse' \subseteq misuse \union {"free"}
      BY <2>8 DEF FreeSession
    <3>2. crashed' \in BOOLEAN
      BY <2>8, Zenon DEF FreeSession
    <3> QED BY <2>8, <3>1, <3>2 DEF FreeSession
  <2>9. CASE ClearSession(t) BY <2>9 DEF ClearSession
  <2>10. CASE CloseSocket(t) BY <2>10 DEF CloseSocket, Conn
  <2> QED BY <1>1, <2>1, <2>2, <2>3, <2>4, <2>5, <2>6, <2>7, <2>8, <2>9, <2>10 DEF CloseStep
<1>2. ASSUME NetStep PROVE TypeOK' /\ OpenedInv'
  <2>1. CASE NetTop           BY <2>1 DEF NetTop
  <2>2. CASE ConnectsTcp      BY <2>2 DEF ConnectsTcp
  <2>3. CASE TcpFails         BY <2>3 DEF TcpFails
  <2>4. CASE CreatesSession   BY <2>4 DEF CreatesSession, Conn
  <2>5. CASE ShakesHands      BY <2>5 DEF ShakesHands
  <2>6. CASE ConnectFails     BY <2>6 DEF ConnectFails
  <2>7. CASE HandshakeOnFreed BY <2>7 DEF HandshakeOnFreed
  <2>8. CASE Publishes        BY <2>8 DEF Publishes
  <2>9. CASE SpawnsReceiver   BY <2>9 DEF SpawnsReceiver
  <2>10. CASE SpawnFails      BY <2>10 DEF SpawnFails
  <2>11. CASE LeavesSession   BY <2>11 DEF LeavesSession
  <2> QED BY <1>2, <2>1, <2>2, <2>3, <2>4, <2>5, <2>6, <2>7, <2>8, <2>9, <2>10, <2>11
          DEF NetStep
<1>3. CASE RequestsStop BY <1>3 DEF RequestsStop
<1>4. CASE Stops        BY <1>4 DEF Stops
<1>5. ASSUME NEW t \in Sender, BuildsFrame(t) \/ SendStep(t) PROVE TypeOK' /\ OpenedInv'
  <2>1. CASE BuildsFrame(t) BY <2>1 DEF BuildsFrame
  <2>2. CASE Locks(t)       BY <2>2 DEF Locks
  <2>3. CASE Writes(t)      BY <2>3 DEF Writes, AfterSend
  <2>4. CASE WriteFails(t)  BY <2>4 DEF WriteFails
  <2>5. CASE WritesFreed(t) BY <2>5 DEF WritesFreed
  <2>6. CASE MarksLost(t)   BY <2>6, ZenonT(30) DEF MarksLost
  <2>7. CASE ShutsDown(t)   BY <2>7 DEF ShutsDown, AfterSend, Conn
  <2> QED BY <1>5, <2>1, <2>2, <2>3, <2>4, <2>5, <2>6, <2>7 DEF SendStep
<1>6. ASSUME NEW c \in Conn, RecvStep(c) PROVE TypeOK' /\ OpenedInv'
  <2>1. CASE TestsConnected(c) BY <2>1 DEF TestsConnected
  <2>2. CASE ReadsFrame(c)     BY <2>2 DEF ReadsFrame
  <2>3. CASE ReadEnds(c)       BY <2>3 DEF ReadEnds
  <2>4. CASE ReadsFreed(c)     BY <2>4 DEF ReadsFreed
  <2>5. CASE EndsReceiving(c)  BY <2>5, ZenonT(30) DEF EndsReceiving
  <2> QED BY <1>6, <2>1, <2>2, <2>3, <2>4, <2>5 DEF RecvStep
<1>7. CASE UNCHANGED vars BY <1>7 DEF vars
<1> QED BY <1>1, <1>2, <1>3, <1>4, <1>5, <1>6, <1>7 DEF Next

\* The main thread never takes a stop back.
LEMMA StaysStopping == [Next]_vars /\ main' = "running" => main = "running"
<1> SUFFICES ASSUME [Next]_vars, main' = "running" PROVE main = "running"
  OBVIOUS
<1> USE DEF Proceeds, NetOnly, SenderRest, SendOnly, RecvOnly
<1>1. ASSUME NEW t \in Closer, CloseStep(t) PROVE main = "running"
  BY <1>1 DEF CloseStep, ClearFlag, ShutDown, TestHandle, CallJoin, JoinTwice, Joined,
              TestSession, FreeSession, ClearSession, CloseSocket
<1>2. ASSUME NetStep PROVE main = "running"
  BY <1>2 DEF NetStep, NetTop, ConnectsTcp, TcpFails, CreatesSession, ShakesHands, ConnectFails,
              HandshakeOnFreed, Publishes, SpawnsReceiver, SpawnFails, LeavesSession
<1>3. CASE RequestsStop BY <1>3 DEF RequestsStop
<1>4. CASE Stops        BY <1>4 DEF Stops
<1>5. ASSUME NEW t \in Sender, BuildsFrame(t) \/ SendStep(t) PROVE main = "running"
  BY <1>5 DEF BuildsFrame, SendStep, Locks, Writes, WriteFails, WritesFreed, MarksLost, ShutsDown
<1>6. ASSUME NEW c \in Conn, RecvStep(c) PROVE main = "running"
  BY <1>6 DEF RecvStep, TestsConnected, ReadsFrame, ReadEnds, ReadsFreed, EndsReceiving
<1>7. CASE UNCHANGED vars BY <1>7 DEF vars
<1> QED BY <1>1, <1>2, <1>3, <1>4, <1>5, <1>6, <1>7 DEF Next

\* As long as no stop is requested every step keeps what the single closer relies on.
LEMMA StepRunning == IInv /\ [Next]_vars /\ main' = "running" => RunningInv'
<1> SUFFICES ASSUME TypeOK, OpenedInv, RunningInv, main = "running", [Next]_vars,
                    main' = "running"
             PROVE RunningInv'
  <2>1. ASSUME [Next]_vars, main' = "running", main # "running" PROVE FALSE
    BY <2>1, StaysStopping
  <2> QED BY <2>1 DEF IInv
<1> USE WsAssumption, ConnNat
    DEF TypeOK, OpenedInv, RunningInv, ClosersInv, ReceiverInv, SessionInv, PongInv, Active, client, resources, fault, Proceeds, Undefined, CloseGoto, NetGoto, NetCloses,
        NetOnly, SndGoto, SenderRest, SendOnly, RecvGoto, RecvOnly, Closer, Sender
<1>1. ASSUME NEW t \in Closer, CloseStep(t) PROVE RunningInv'
  <2>1. CASE ClearFlag(t)    BY <2>1 DEF ClearFlag
  <2>2. CASE ShutDown(t)     BY <2>2 DEF ShutDown, Conn
  <2>3. CASE TestHandle(t)   BY <2>3 DEF TestHandle
  <2>4. CASE CallJoin(t)     BY <2>4 DEF CallJoin
  <2>5. CASE JoinTwice(t)    BY <2>5 DEF JoinTwice
  <2>6. CASE Joined(t)       BY <2>6 DEF Joined
  <2>7. CASE TestSession(t)  BY <2>7 DEF TestSession
  <2>8. CASE FreeSession(t)  BY <2>8 DEF FreeSession
  <2>9. CASE ClearSession(t) BY <2>9 DEF ClearSession
  <2>10. CASE CloseSocket(t) BY <2>10 DEF CloseSocket, Conn
  <2> QED BY <1>1, <2>1, <2>2, <2>3, <2>4, <2>5, <2>6, <2>7, <2>8, <2>9, <2>10 DEF CloseStep
<1>2. ASSUME NetStep PROVE RunningInv'
  <2>1. CASE NetTop           BY <2>1 DEF NetTop
  <2>2. CASE ConnectsTcp      BY <2>2 DEF ConnectsTcp
  <2>3. CASE TcpFails         BY <2>3 DEF TcpFails
  <2>4. CASE CreatesSession   BY <2>4 DEF CreatesSession, Conn
  <2>5. CASE ShakesHands      BY <2>5 DEF ShakesHands
  <2>6. CASE ConnectFails     BY <2>6 DEF ConnectFails
  <2>7. CASE HandshakeOnFreed BY <2>7 DEF HandshakeOnFreed
  <2>8. CASE Publishes        BY <2>8 DEF Publishes
  <2>9. CASE SpawnsReceiver
    <3>1. opened \in Conn /\ handle = 0 /\ handle' = opened
      BY <2>9 DEF SpawnsReceiver, Conn
    <3>2. \A c \in Conn : recv[c] \notin Active \union {"done"} /\ snd[c] = "idle"
      BY <3>1
    <3>3. \A c \in Conn : recv'[c] = IF c = opened THEN "test" ELSE recv[c]
      BY <2>9, <3>1 DEF SpawnsReceiver
    <3> QED BY <2>9, <3>1, <3>2, <3>3 DEF SpawnsReceiver
  <2>10. CASE SpawnFails      BY <2>10 DEF SpawnFails
  <2>11. CASE LeavesSession   BY <2>11 DEF LeavesSession
  <2> QED BY <1>2, <2>1, <2>2, <2>3, <2>4, <2>5, <2>6, <2>7, <2>8, <2>9, <2>10, <2>11
          DEF NetStep
<1>3. CASE RequestsStop BY <1>3 DEF RequestsStop
<1>4. CASE Stops        BY <1>4 DEF Stops
<1>5. ASSUME NEW t \in Sender, BuildsFrame(t) \/ SendStep(t) PROVE RunningInv'
  <2>1. CASE BuildsFrame(t) BY <2>1 DEF BuildsFrame, MaySend
  <2>2. CASE Locks(t)       BY <2>2 DEF Locks
  <2>3. CASE Writes(t)      BY <2>3 DEF Writes, AfterSend
  <2>4. CASE WriteFails(t)  BY <2>4 DEF WriteFails
  <2>5. CASE WritesFreed(t) BY <2>5 DEF WritesFreed
  <2>6. CASE MarksLost(t)   BY <2>6 DEF MarksLost
  <2>7. CASE ShutsDown(t)   BY <2>7 DEF ShutsDown, AfterSend, Conn
  <2> QED BY <1>5, <2>1, <2>2, <2>3, <2>4, <2>5, <2>6, <2>7 DEF SendStep
<1>6. ASSUME NEW c \in Conn, RecvStep(c) PROVE RunningInv'
  <2>1. CASE TestsConnected(c) BY <2>1 DEF TestsConnected
  <2>2. CASE ReadsFrame(c)     BY <2>2 DEF ReadsFrame
  <2>3. CASE ReadEnds(c)       BY <2>3 DEF ReadEnds
  <2>4. CASE ReadsFreed(c)     BY <2>4 DEF ReadsFreed
  <2>5. CASE EndsReceiving(c)  BY <2>5 DEF EndsReceiving
  <2> QED BY <1>6, <2>1, <2>2, <2>3, <2>4, <2>5 DEF RecvStep
<1>7. CASE UNCHANGED vars BY <1>7 DEF vars
<1> QED BY <1>1, <1>2, <1>3, <1>4, <1>5, <1>6, <1>7 DEF Next

\* Every step keeps the phases of the threads.
LEMMA StepPhase == TypeOK /\ OpenedInv /\ StopInv /\ [Next]_vars => PhaseInv'
<1> SUFFICES ASSUME TypeOK, OpenedInv, StopInv, [Next]_vars PROVE PhaseInv'
  OBVIOUS
<1> USE WsAssumption, ConnNat
    DEF TypeOK, StopInv, PhaseInv, OneReceiverInv, Unjoined, Active, PongInv, client, resources, fault, Proceeds,
        Undefined, CloseGoto, NetGoto, NetCloses, NetOnly, SndGoto, SenderRest, SendOnly,
        RecvGoto, RecvOnly, Closer, Sender
<1>1. ASSUME NEW t \in Closer, CloseStep(t) PROVE PhaseInv'
  <2>1. CASE ClearFlag(t)    BY <2>1 DEF ClearFlag
  <2>2. CASE ShutDown(t)     BY <2>2 DEF ShutDown
  <2>3. CASE TestHandle(t)   BY <2>3 DEF TestHandle
  <2>4. CASE CallJoin(t)     BY <2>4 DEF CallJoin
  <2>5. CASE JoinTwice(t)    BY <2>5 DEF JoinTwice
  <2>6. CASE Joined(t)       BY <2>6 DEF Joined
  <2>7. CASE TestSession(t)  BY <2>7 DEF TestSession
  <2>8. CASE FreeSession(t)  BY <2>8 DEF FreeSession
  <2>9. CASE ClearSession(t) BY <2>9 DEF ClearSession
  <2>10. CASE CloseSocket(t) BY <2>10 DEF CloseSocket
  <2> QED BY <1>1, <2>1, <2>2, <2>3, <2>4, <2>5, <2>6, <2>7, <2>8, <2>9, <2>10 DEF CloseStep
<1>2. ASSUME NetStep PROVE PhaseInv'
  <2>1. CASE NetTop           BY <2>1 DEF NetTop
  <2>2. CASE ConnectsTcp      BY <2>2 DEF ConnectsTcp
  <2>3. CASE TcpFails         BY <2>3 DEF TcpFails
  <2>4. CASE CreatesSession   BY <2>4 DEF CreatesSession
  <2>5. CASE ShakesHands      BY <2>5 DEF ShakesHands
  <2>6. CASE ConnectFails     BY <2>6 DEF ConnectFails
  <2>7. CASE HandshakeOnFreed BY <2>7 DEF HandshakeOnFreed
  <2>8. CASE Publishes        BY <2>8 DEF Publishes
  <2>9. CASE SpawnsReceiver   BY <2>9 DEF SpawnsReceiver
  <2>10. CASE SpawnFails      BY <2>10 DEF SpawnFails
  <2>11. CASE LeavesSession   BY <2>11 DEF LeavesSession
  <2> QED BY <1>2, <2>1, <2>2, <2>3, <2>4, <2>5, <2>6, <2>7, <2>8, <2>9, <2>10, <2>11
          DEF NetStep
<1>3. CASE RequestsStop BY <1>3 DEF RequestsStop
<1>4. CASE Stops        BY <1>4 DEF Stops
<1>5. ASSUME NEW t \in Sender, BuildsFrame(t) \/ SendStep(t) PROVE PhaseInv'
  <2>1. CASE BuildsFrame(t) BY <2>1 DEF BuildsFrame, MaySend
  <2>2. CASE Locks(t)       BY <2>2 DEF Locks
  <2>3. CASE Writes(t)      BY <2>3 DEF Writes, AfterSend
  <2>4. CASE WriteFails(t)  BY <2>4 DEF WriteFails
  <2>5. CASE WritesFreed(t) BY <2>5 DEF WritesFreed
  <2>6. CASE MarksLost(t)   BY <2>6 DEF MarksLost
  <2>7. CASE ShutsDown(t)   BY <2>7 DEF ShutsDown, AfterSend
  <2> QED BY <1>5, <2>1, <2>2, <2>3, <2>4, <2>5, <2>6, <2>7 DEF SendStep
<1>6. ASSUME NEW c \in Conn, RecvStep(c) PROVE PhaseInv'
  <2>1. CASE TestsConnected(c) BY <2>1 DEF TestsConnected
  <2>2. CASE ReadsFrame(c)     BY <2>2 DEF ReadsFrame
  <2>3. CASE ReadEnds(c)       BY <2>3 DEF ReadEnds
  <2>4. CASE ReadsFreed(c)     BY <2>4 DEF ReadsFreed
  <2>5. CASE EndsReceiving(c)  BY <2>5 DEF EndsReceiving
  <2> QED BY <1>6, <2>1, <2>2, <2>3, <2>4, <2>5 DEF RecvStep
<1>7. CASE UNCHANGED vars BY <1>7 DEF vars
<1> QED BY <1>1, <1>2, <1>3, <1>4, <1>5, <1>6, <1>7 DEF Next

\* No step leaves a receiver behind that a closer cannot find.
LEMMA StepReceiver == TypeOK /\ OpenedInv /\ StopInv /\ [Next]_vars => OneReceiverInv'
<1> SUFFICES ASSUME TypeOK, OpenedInv, StopInv, [Next]_vars PROVE OneReceiverInv'
  OBVIOUS
<1> USE WsAssumption, ConnNat
    DEF TypeOK, OpenedInv, StopInv, PhaseInv, OneReceiverInv, Unjoined, Active, PongInv, client, resources, fault, Proceeds,
        Undefined, CloseGoto, NetGoto, NetCloses, NetOnly, SndGoto, SenderRest, SendOnly,
        RecvGoto, RecvOnly, Closer, Sender
<1>1. ASSUME NEW t \in Closer, CloseStep(t) PROVE OneReceiverInv'
  <2>1. CASE ClearFlag(t)    BY <2>1 DEF ClearFlag
  <2>2. CASE ShutDown(t)     BY <2>2 DEF ShutDown
  <2>3. CASE TestHandle(t)   BY <2>3 DEF TestHandle
  <2>4. CASE CallJoin(t)     BY <2>4 DEF CallJoin
  <2>5. CASE JoinTwice(t)    BY <2>5 DEF JoinTwice
  <2>6. CASE Joined(t)       BY <2>6 DEF Joined
  <2>7. CASE TestSession(t)  BY <2>7 DEF TestSession
  <2>8. CASE FreeSession(t)  BY <2>8 DEF FreeSession
  <2>9. CASE ClearSession(t) BY <2>9 DEF ClearSession
  <2>10. CASE CloseSocket(t) BY <2>10 DEF CloseSocket
  <2> QED BY <1>1, <2>1, <2>2, <2>3, <2>4, <2>5, <2>6, <2>7, <2>8, <2>9, <2>10 DEF CloseStep
<1>2. ASSUME NetStep PROVE OneReceiverInv'
  <2>1. CASE NetTop           BY <2>1 DEF NetTop
  <2>2. CASE ConnectsTcp      BY <2>2 DEF ConnectsTcp
  <2>3. CASE TcpFails         BY <2>3 DEF TcpFails
  <2>4. CASE CreatesSession   BY <2>4 DEF CreatesSession
  <2>5. CASE ShakesHands      BY <2>5 DEF ShakesHands
  <2>6. CASE ConnectFails     BY <2>6 DEF ConnectFails
  <2>7. CASE HandshakeOnFreed BY <2>7 DEF HandshakeOnFreed
  <2>8. CASE Publishes        BY <2>8 DEF Publishes
  <2>9. CASE SpawnsReceiver   BY <2>9 DEF SpawnsReceiver
  <2>10. CASE SpawnFails      BY <2>10 DEF SpawnFails
  <2>11. CASE LeavesSession   BY <2>11 DEF LeavesSession
  <2> QED BY <1>2, <2>1, <2>2, <2>3, <2>4, <2>5, <2>6, <2>7, <2>8, <2>9, <2>10, <2>11
          DEF NetStep
<1>3. CASE RequestsStop BY <1>3 DEF RequestsStop
<1>4. CASE Stops        BY <1>4 DEF Stops
<1>5. ASSUME NEW t \in Sender, BuildsFrame(t) \/ SendStep(t) PROVE OneReceiverInv'
  <2>1. CASE BuildsFrame(t) BY <2>1 DEF BuildsFrame, MaySend
  <2>2. CASE Locks(t)       BY <2>2 DEF Locks
  <2>3. CASE Writes(t)      BY <2>3 DEF Writes, AfterSend
  <2>4. CASE WriteFails(t)  BY <2>4 DEF WriteFails
  <2>5. CASE WritesFreed(t) BY <2>5 DEF WritesFreed
  <2>6. CASE MarksLost(t)   BY <2>6 DEF MarksLost
  <2>7. CASE ShutsDown(t)   BY <2>7 DEF ShutsDown, AfterSend
  <2> QED BY <1>5, <2>1, <2>2, <2>3, <2>4, <2>5, <2>6, <2>7 DEF SendStep
<1>6. ASSUME NEW c \in Conn, RecvStep(c) PROVE OneReceiverInv'
  <2>1. CASE TestsConnected(c) BY <2>1 DEF TestsConnected
  <2>2. CASE ReadsFrame(c)     BY <2>2 DEF ReadsFrame
  <2>3. CASE ReadEnds(c)       BY <2>3 DEF ReadEnds
  <2>4. CASE ReadsFreed(c)     BY <2>4 DEF ReadsFreed
  <2>5. CASE EndsReceiving(c)  BY <2>5 DEF EndsReceiving
  <2> QED BY <1>6, <2>1, <2>2, <2>3, <2>4, <2>5 DEF RecvStep
<1>7. CASE UNCHANGED vars BY <1>7 DEF vars
<1> QED BY <1>1, <1>2, <1>3, <1>4, <1>5, <1>6, <1>7 DEF Next

\* No step leaves a session, a socket or the flag of a closed connection behind.
LEMMA StepRelease == TypeOK /\ OpenedInv /\ StopInv /\ [Next]_vars => ReleaseInv'
<1> SUFFICES ASSUME TypeOK, OpenedInv, StopInv, [Next]_vars PROVE ReleaseInv'
  OBVIOUS
<1> USE WsAssumption, ConnNat
    DEF TypeOK, OpenedInv, StopInv, PhaseInv, ReleaseInv, Closed, client, resources, fault, Proceeds,
        Undefined, CloseGoto, NetGoto, NetCloses, NetOnly, SndGoto, SenderRest, SendOnly,
        RecvGoto, RecvOnly, Closer, Sender
<1>1. ASSUME NEW t \in Closer, CloseStep(t) PROVE ReleaseInv'
  <2>1. CASE ClearFlag(t)    BY <2>1 DEF ClearFlag
  <2>2. CASE ShutDown(t)     BY <2>2 DEF ShutDown
  <2>3. CASE TestHandle(t)   BY <2>3 DEF TestHandle
  <2>4. CASE CallJoin(t)     BY <2>4 DEF CallJoin
  <2>5. CASE JoinTwice(t)    BY <2>5 DEF JoinTwice
  <2>6. CASE Joined(t)       BY <2>6 DEF Joined
  <2>7. CASE TestSession(t)  BY <2>7 DEF TestSession
  <2>8. CASE FreeSession(t)
    <3>1. live' = {}
      <4>1. CASE ssl \in live /\ live' = live \ {ssl} BY <4>1
      <4>2. CASE ssl \notin live /\ live' = live
        BY <4>2
      <4> QED BY <2>8, <4>1, <4>2 DEF FreeSession
    <3> QED BY <2>8, <3>1 DEF FreeSession
  <2>9. CASE ClearSession(t) BY <2>9 DEF ClearSession
  <2>10. CASE CloseSocket(t) BY <2>10 DEF CloseSocket
  <2> QED BY <1>1, <2>1, <2>2, <2>3, <2>4, <2>5, <2>6, <2>7, <2>8, <2>9, <2>10 DEF CloseStep
<1>2. ASSUME NetStep PROVE ReleaseInv'
  <2>1. CASE NetTop           BY <2>1 DEF NetTop
  <2>2. CASE ConnectsTcp      BY <2>2 DEF ConnectsTcp
  <2>3. CASE TcpFails         BY <2>3 DEF TcpFails
  <2>4. CASE CreatesSession   BY <2>4 DEF CreatesSession
  <2>5. CASE ShakesHands      BY <2>5 DEF ShakesHands
  <2>6. CASE ConnectFails     BY <2>6 DEF ConnectFails
  <2>7. CASE HandshakeOnFreed BY <2>7 DEF HandshakeOnFreed
  <2>8. CASE Publishes        BY <2>8 DEF Publishes
  <2>9. CASE SpawnsReceiver   BY <2>9 DEF SpawnsReceiver
  <2>10. CASE SpawnFails      BY <2>10 DEF SpawnFails
  <2>11. CASE LeavesSession   BY <2>11 DEF LeavesSession
  <2> QED BY <1>2, <2>1, <2>2, <2>3, <2>4, <2>5, <2>6, <2>7, <2>8, <2>9, <2>10, <2>11
          DEF NetStep
<1>3. CASE RequestsStop BY <1>3 DEF RequestsStop
<1>4. CASE Stops        BY <1>4 DEF Stops
<1>5. ASSUME NEW t \in Sender, BuildsFrame(t) \/ SendStep(t) PROVE ReleaseInv'
  <2>1. CASE BuildsFrame(t) BY <2>1 DEF BuildsFrame, MaySend
  <2>2. CASE Locks(t)       BY <2>2 DEF Locks
  <2>3. CASE Writes(t)      BY <2>3 DEF Writes, AfterSend
  <2>4. CASE WriteFails(t)  BY <2>4 DEF WriteFails
  <2>5. CASE WritesFreed(t) BY <2>5 DEF WritesFreed
  <2>6. CASE MarksLost(t)   BY <2>6 DEF MarksLost
  <2>7. CASE ShutsDown(t)   BY <2>7 DEF ShutsDown, AfterSend
  <2> QED BY <1>5, <2>1, <2>2, <2>3, <2>4, <2>5, <2>6, <2>7 DEF SendStep
<1>6. ASSUME NEW c \in Conn, RecvStep(c) PROVE ReleaseInv'
  <2>1. CASE TestsConnected(c) BY <2>1 DEF TestsConnected
  <2>2. CASE ReadsFrame(c)     BY <2>2 DEF ReadsFrame
  <2>3. CASE ReadEnds(c)       BY <2>3 DEF ReadEnds
  <2>4. CASE ReadsFreed(c)     BY <2>4 DEF ReadsFreed
  <2>5. CASE EndsReceiving(c)  BY <2>5 DEF EndsReceiving
  <2> QED BY <1>6, <2>1, <2>2, <2>3, <2>4, <2>5 DEF RecvStep
<1>7. CASE UNCHANGED vars BY <1>7 DEF vars
<1> QED BY <1>1, <1>2, <1>3, <1>4, <1>5, <1>6, <1>7 DEF Next

\* No step makes a closer wait for a receiver that nobody ends.
LEMMA StepJoin == TypeOK /\ OpenedInv /\ StopInv /\ [Next]_vars => JoinInv'
<1> SUFFICES ASSUME TypeOK, OpenedInv, StopInv, [Next]_vars PROVE JoinInv'
  OBVIOUS
<1> USE WsAssumption, ConnNat, ConnPositive
    DEF TypeOK, OpenedInv, StopInv, PhaseInv, OneReceiverInv, JoinInv, PongInv, Unjoined, Active, client, resources, fault, Proceeds,
        Undefined, CloseGoto, NetGoto, NetCloses, NetOnly, SndGoto, SenderRest, SendOnly,
        RecvGoto, RecvOnly, Closer, Sender
<1>1. ASSUME NEW t \in Closer, CloseStep(t) PROVE JoinInv'
  <2>1. CASE ClearFlag(t)    BY <2>1 DEF ClearFlag
  <2>2. CASE ShutDown(t)     BY <2>2 DEF ShutDown
  <2>3. CASE TestHandle(t)   BY <2>3 DEF TestHandle
  <2>4. CASE CallJoin(t)     BY <2>4 DEF CallJoin
  <2>5. CASE JoinTwice(t)    BY <2>5 DEF JoinTwice
  <2>6. CASE Joined(t)       BY <2>6 DEF Joined
  <2>7. CASE TestSession(t)  BY <2>7 DEF TestSession
  <2>8. CASE FreeSession(t)  BY <2>8 DEF FreeSession
  <2>9. CASE ClearSession(t) BY <2>9 DEF ClearSession
  <2>10. CASE CloseSocket(t) BY <2>10 DEF CloseSocket
  <2> QED BY <1>1, <2>1, <2>2, <2>3, <2>4, <2>5, <2>6, <2>7, <2>8, <2>9, <2>10 DEF CloseStep
<1>2. ASSUME NetStep PROVE JoinInv'
  <2>1. CASE NetTop           BY <2>1 DEF NetTop
  <2>2. CASE ConnectsTcp      BY <2>2 DEF ConnectsTcp
  <2>3. CASE TcpFails         BY <2>3 DEF TcpFails
  <2>4. CASE CreatesSession   BY <2>4 DEF CreatesSession
  <2>5. CASE ShakesHands      BY <2>5 DEF ShakesHands
  <2>6. CASE ConnectFails     BY <2>6 DEF ConnectFails
  <2>7. CASE HandshakeOnFreed BY <2>7 DEF HandshakeOnFreed
  <2>8. CASE Publishes        BY <2>8 DEF Publishes
  <2>9. CASE SpawnsReceiver   BY <2>9 DEF SpawnsReceiver
  <2>10. CASE SpawnFails      BY <2>10 DEF SpawnFails
  <2>11. CASE LeavesSession   BY <2>11 DEF LeavesSession
  <2> QED BY <1>2, <2>1, <2>2, <2>3, <2>4, <2>5, <2>6, <2>7, <2>8, <2>9, <2>10, <2>11
          DEF NetStep
<1>3. CASE RequestsStop BY <1>3 DEF RequestsStop
<1>4. CASE Stops        BY <1>4 DEF Stops
<1>5. ASSUME NEW t \in Sender, BuildsFrame(t) \/ SendStep(t) PROVE JoinInv'
  <2>1. CASE BuildsFrame(t) BY <2>1 DEF BuildsFrame, MaySend
  <2>2. CASE Locks(t)       BY <2>2 DEF Locks
  <2>3. CASE Writes(t)    BY <2>3 DEF Writes, AfterSend
  <2>4. CASE WriteFails(t)  BY <2>4 DEF WriteFails
  <2>5. CASE WritesFreed(t) BY <2>5 DEF WritesFreed
  <2>6. CASE MarksLost(t)   BY <2>6 DEF MarksLost
  <2>7. CASE ShutsDown(t) BY <2>7 DEF ShutsDown, AfterSend
  <2> QED BY <1>5, <2>1, <2>2, <2>3, <2>4, <2>5, <2>6, <2>7 DEF SendStep
<1>6. ASSUME NEW c \in Conn, RecvStep(c) PROVE JoinInv'
  <2>1. CASE TestsConnected(c) BY <2>1 DEF TestsConnected
  <2>2. CASE ReadsFrame(c)     BY <2>2 DEF ReadsFrame
  <2>3. CASE ReadEnds(c)       BY <2>3 DEF ReadEnds
  <2>4. CASE ReadsFreed(c)     BY <2>4 DEF ReadsFreed
  <2>5. CASE EndsReceiving(c)  BY <2>5 DEF EndsReceiving
  <2> QED BY <1>6, <2>1, <2>2, <2>3, <2>4, <2>5 DEF RecvStep
<1>7. CASE UNCHANGED vars BY <1>7 DEF vars
<1> QED BY <1>1, <1>2, <1>3, <1>4, <1>5, <1>6, <1>7 DEF Next

\* The invariant holds in every reachable state.
THEOREM Invariant == Spec => []IInv
<1>1. IInv /\ [Next]_vars => IInv'
  BY StepType, StepPhase, StepReceiver, StepRelease, StepJoin, StepRunning DEF IInv, StopInv
<1> QED BY InitIInv, <1>1, PTL DEF Spec

\* Every variable keeps its type (the state of websocket_client.c and the threads
\* that share it).
THEOREM TypeCorrect == Spec => []TypeOK
<1>1. IInv => TypeOK BY DEF IInv
<1> QED BY <1>1, Invariant, PTL

\* As long as the network thread is the only closer, over any number of
\* connections and failed connects: no receiver reads or is joined after its
\* session was freed, no handshake runs on a freed session and none is freed twice.
THEOREM OneCloser == Spec => []OneCloserIsSafe
<1>1. IInv => OneCloserIsSafe BY DEF IInv, RunningInv, OneCloserIsSafe
<1> QED BY <1>1, Invariant, PTL

\* No close waits for a receiver whose socket stays open, over any number of
\* connections, closes that meet and undefined calls that return.
THEOREM NoIdleJoin == Spec => []JoinEnds
<1>1. IInv => JoinEnds
  BY ConnPositive DEF IInv, TypeOK, StopInv, JoinInv, Unjoined, Active, JoinEnds
<1> QED BY <1>1, Invariant, PTL

\* When stop returns nothing is left of any connection, also where its close and
\* that of the network thread ran into each other, where an undefined call
\* returned, or where a connect succeeded under the stop.
THEOREM Released == Spec => []StopReleasesAll
<1>1. IInv => StopReleasesAll
  BY WsAssumption, ConnNat
     DEF IInv, TypeOK, StopInv, PhaseInv, OneReceiverInv, ReleaseInv, Closed, Unjoined, Active,
         StopReleasesAll, Closer
<1> QED BY <1>1, Invariant, PTL

------------------------------------------------------------------------------
(* WsReceiver: numbers, and where bytes stand in a sequence.                *)

\* What a number leaves after a division.
LEMMA DivMod ==
    ASSUME NEW n \in Nat, NEW m \in Nat, m > 0
    PROVE  /\ n \div m \in Nat /\ n % m \in 0 .. m - 1
           /\ n = (n \div m) * m + (n % m)
           /\ n < m => n % m = n /\ n \div m = 0
OBVIOUS

\* A bound on a number bounds the quotient.
LEMMA DivBound ==
    ASSUME NEW n \in Nat, NEW m \in Nat, NEW k \in Nat, m > 0, n < k * m
    PROVE  n \div m < k
OBVIOUS

\* Quotient and remainder are determined by the number.
LEMMA Split ==
    ASSUME NEW m \in Nat, NEW h \in Nat, NEW l \in Nat, m > 0, l < m
    PROVE  (h * m + l) \div m = h /\ (h * m + l) % m = l
OBVIOUS

\* The sizes of bytes and half bytes.
LEMMA BaseFacts ==
    /\ Base \in Nat /\ Base >= 8 /\ High \in Nat /\ High >= 4 /\ Base = 2 * High
    /\ Direct \in Nat /\ Direct = High - 3
    /\ Wide \in Nat /\ Wide = Base * Base /\ Wide >= 64 /\ Wide > Direct + 2
    /\ Wide * Wide \in Nat /\ Wide * Wide >= 64
BY WireAssumption DEF High, Direct, Wide

\* The bytes w stand in b from i on, as far as b goes.
At(b, i, w) == \A j \in 1 .. Len(w) : i + j - 1 \in 1 .. Len(b) => b[i + j - 1] = w[j]

\* Two strings in a row stand one after the other.
LEMMA AtConcat ==
    ASSUME NEW b, NEW i \in Nat, NEW u \in Bytes, NEW v \in Bytes
    PROVE  At(b, i, u \o v) <=> At(b, i, u) /\ At(b, i + Len(u), v)
<1> DEFINE w == u \o v
<1>1. /\ w \in Bytes /\ Len(w) = Len(u) + Len(v)
      /\ \A j \in 1 .. Len(u) : w[j] = u[j]
      /\ \A j \in 1 .. Len(v) : w[Len(u) + j] = v[j]
  BY ConcatProperties DEF Bytes
<1>2. ASSUME At(b, i, w) PROVE At(b, i, u) /\ At(b, i + Len(u), v)
  <2>1. At(b, i, u)
    BY <1>1, <1>2 DEF At, Bytes
  <2>2. ASSUME NEW j \in 1 .. Len(v), i + Len(u) + j - 1 \in 1 .. Len(b)
        PROVE  b[i + Len(u) + j - 1] = v[j]
    <3>1. Len(u) + j \in 1 .. Len(w) /\ i + (Len(u) + j) - 1 = i + Len(u) + j - 1
      BY <1>1 DEF Bytes
    <3> QED BY <1>1, <1>2, <2>2, <3>1 DEF At
  <2> QED BY <2>1, <2>2 DEF At
<1>3. ASSUME At(b, i, u), At(b, i + Len(u), v) PROVE At(b, i, w)
  <2> SUFFICES ASSUME NEW j \in 1 .. Len(w), i + j - 1 \in 1 .. Len(b)
               PROVE  b[i + j - 1] = w[j]
    BY DEF At
  <2>1. CASE j <= Len(u)
    BY <1>1, <1>3, <2>1 DEF At, Bytes
  <2>2. CASE j > Len(u)
    <3> DEFINE k == j - Len(u)
    <3>1. Len(u) \in Nat /\ Len(v) \in Nat
      BY DEF Bytes
    <3>2. k \in 1 .. Len(v) /\ j = Len(u) + k /\ i + Len(u) + k - 1 = i + j - 1
      BY <1>1, <2>2, <3>1
    <3> QED BY <1>1, <1>3, <3>2 DEF At
  <2> QED BY <1>1, <2>1, <2>2 DEF Bytes
<1> QED BY <1>2, <1>3

\* Bytes that stand at the beginning of a string of the same length are the string.
LEMMA AtWhole ==
    ASSUME NEW b \in Bytes, NEW w \in Bytes, Len(b) = Len(w), At(b, 1, w)
    PROVE  b = w
<1>1. ASSUME NEW j \in 1 .. Len(b) PROVE b[j] = w[j]
  <2>1. 1 + j - 1 = j /\ j \in 1 .. Len(w)
    BY DEF Bytes
  <2> QED BY <2>1 DEF At
<1> QED BY <1>1, SeqEqual DEF Bytes

\* A string stands at its own beginning.
LEMMA AtSelf == ASSUME NEW w \in Bytes PROVE At(w, 1, w)
  BY DEF At, Bytes

\* Two strings joined, byte by byte.
LEMMA Joined2 ==
    ASSUME NEW u \in Bytes, NEW v \in Bytes
    PROVE  u \o v \in Bytes /\ Len(u \o v) = Len(u) + Len(v) /\ Len(u) \in Nat /\ Len(v) \in Nat
BY ConcatProperties DEF Bytes

\* A piece of a string, byte by byte.
LEMMA Piece ==
    ASSUME NEW b \in Bytes, NEW i \in Nat, NEW k \in Nat, i > 0, k <= Len(b), i <= k + 1
    PROVE  /\ SubSeq(b, i, k) \in Bytes /\ Len(SubSeq(b, i, k)) = k - i + 1
           /\ \A j \in 1 .. k - i + 1 : SubSeq(b, i, k)[j] = b[i + j - 1]
<1>1. \A j \in i .. k : b[j] \in Byte
  BY ElementOfSeq DEF Bytes
<1>2. /\ SubSeq(b, i, k) \in Seq(Byte)
      /\ Len(SubSeq(b, i, k)) = IF i <= k THEN k - i + 1 ELSE 0
      /\ \A j \in 1 .. k - i + 1 : SubSeq(b, i, k)[j] = b[i + j - 1]
  BY <1>1, SubSeqProperties
<1> QED BY <1>2 DEF Bytes

\* What is cut out is what stands there.
LEMMA AtSubSeq ==
    ASSUME NEW b \in Bytes, NEW i \in Nat, NEW k \in Nat, NEW w \in Bytes,
           At(b, i, w), i > 0, k = i + Len(w) - 1, k <= Len(b)
    PROVE  SubSeq(b, i, k) = w
<1> DEFINE s == SubSeq(b, i, k)
<1>0. Len(w) \in Nat
  BY DEF Bytes
<1>1. s \in Bytes /\ Len(s) = Len(w) /\ \A j \in 1 .. Len(w) : s[j] = b[i + j - 1]
  <2>1. i <= k + 1 /\ k - i + 1 = Len(w)
    BY <1>0
  <2>2. /\ SubSeq(b, i, k) \in Bytes /\ Len(SubSeq(b, i, k)) = k - i + 1
        /\ \A j \in 1 .. k - i + 1 : SubSeq(b, i, k)[j] = b[i + j - 1]
    BY <2>1, Piece
  <2> QED BY <2>1, <2>2
<1>2. ASSUME NEW j \in 1 .. Len(w) PROVE s[j] = w[j]
  <2>1. i + j - 1 \in 1 .. Len(b)
    BY <1>0 DEF Bytes
  <2> QED BY <1>1, <2>1 DEF At
<1> QED BY <1>1, <1>2, SeqEqual DEF Bytes

\* Numbers of two bytes: what is written is read back, and what is read is written.
LEMMA Two ==
    /\ \A n \in Nat : /\ PutU16(n) \in Bytes /\ Len(PutU16(n)) = 2
                      /\ n < Wide => U16(PutU16(n), 1) = n
    /\ \A x, y \in Byte : x * Base + y \in 0 .. Wide - 1 /\ PutU16(x * Base + y) = <<x, y>>
<1> USE BaseFacts
<1>1. ASSUME NEW n \in Nat
      PROVE  /\ PutU16(n) \in Bytes /\ Len(PutU16(n)) = 2
             /\ n < Wide => U16(PutU16(n), 1) = n
  <2>1. (n \div Base) % Base \in Byte /\ n % Base \in Byte
    BY DivMod DEF Byte
  <2>2. ASSUME n < Wide PROVE U16(PutU16(n), 1) = n
    <3>0. n < Base * Base
      BY <2>2
    <3>1. n \div Base < Base /\ n \div Base \in Nat /\ n = (n \div Base) * Base + (n % Base)
      <4>1. n \div Base < Base
        BY <3>0, DivBound
      <4>2. n \div Base \in Nat
        BY DivMod
      <4>3. n = (n \div Base) * Base + (n % Base)
        BY DivMod
      <4> QED BY <4>1, <4>2, <4>3
    <3>2. (n \div Base) % Base = n \div Base
      BY <3>1, DivMod
    <3> QED BY <3>1, <3>2 DEF U16, PutU16
  <2> QED BY <2>1, <2>2 DEF PutU16, Bytes
<1>2. ASSUME NEW x \in Byte, NEW y \in Byte
      PROVE  x * Base + y \in 0 .. Wide - 1 /\ PutU16(x * Base + y) = <<x, y>>
  <2>1. x * Base <= (Base - 1) * Base
    BY DEF Byte
  <2>2. x * Base + y \in 0 .. Wide - 1
    BY <2>1 DEF Byte
  <2>3. (x * Base + y) \div Base = x /\ (x * Base + y) % Base = y /\ x % Base = x
    BY Split, DivMod DEF Byte
  <2> QED BY <2>2, <2>3 DEF PutU16
<1> QED BY <1>1, <1>2

\* Numbers of four bytes, likewise.
LEMMA Four ==
    /\ \A n \in Nat : /\ PutU32(n) \in Bytes /\ Len(PutU32(n)) = 4
                      /\ n < Wide * Wide => U32(PutU32(n), 1) = n
    /\ \A b \in Bytes : Len(b) = 4 => /\ U32(b, 1) \in 0 .. Wide * Wide - 1
                                     /\ PutU32(U32(b, 1)) = b
<1> USE BaseFacts
<1>1. ASSUME NEW n \in Nat
      PROVE  /\ PutU32(n) \in Bytes /\ Len(PutU32(n)) = 4
             /\ n < Wide * Wide => U32(PutU32(n), 1) = n
  <2> DEFINE h == n \div Wide
             l == n % Wide
  <2>1. h \in Nat /\ l \in Nat /\ l < Wide /\ n = h * Wide + l
    BY DivMod
  <2>2. /\ PutU16(h) \in Bytes /\ Len(PutU16(h)) = 2
        /\ PutU16(l) \in Bytes /\ Len(PutU16(l)) = 2 /\ U16(PutU16(l), 1) = l
    BY <2>1, Two
  <2>3. /\ PutU32(n) \in Bytes /\ Len(PutU32(n)) = 4
        /\ PutU32(n)[1] = PutU16(h)[1] /\ PutU32(n)[2] = PutU16(h)[2]
        /\ PutU32(n)[3] = PutU16(l)[1] /\ PutU32(n)[4] = PutU16(l)[2]
    <3>1. PutU32(n) = PutU16(h) \o PutU16(l)
      BY DEF PutU32
    <3> HIDE DEF h, l
    <3>2. /\ PutU32(n) \in Bytes /\ Len(PutU32(n)) = 4
          /\ \A i \in 1 .. 4 : PutU32(n)[i] = IF i <= 2 THEN PutU16(h)[i] ELSE PutU16(l)[i - 2]
      <4> DEFINE u == PutU16(h)
                 v == PutU16(l)
      <4>1. u \in Seq(Byte) /\ v \in Seq(Byte) /\ Len(u) = 2 /\ Len(v) = 2
        BY <2>2 DEF Bytes
      <4> HIDE DEF u, v
      <4>2. /\ u \o v \in Seq(Byte) /\ Len(u \o v) = 4
            /\ \A i \in 1 .. 4 : (u \o v)[i] = IF i <= 2 THEN u[i] ELSE v[i - 2]
        <5>1. /\ u \o v \in Seq(Byte) /\ Len(u \o v) = Len(u) + Len(v)
              /\ \A i \in 1 .. Len(u) + Len(v) :
                    (u \o v)[i] = IF i <= Len(u) THEN u[i] ELSE v[i - Len(u)]
          BY <4>1, ConcatProperties
        <5> QED BY <4>1, <5>1
      <4> QED BY <3>1, <4>2 DEF u, v, Bytes
    <3> QED BY <3>2
  <2>4. ASSUME n < Wide * Wide PROVE U32(PutU32(n), 1) = n
    <3>1. h < Wide
      BY <2>4, DivBound
    <3>2. U16(PutU16(h), 1) = h
      BY <2>1, <3>1, Two
    <3> QED BY <2>1, <2>2, <2>3, <3>2 DEF U32, U16
  <2> QED BY <2>3, <2>4
<1>2. ASSUME NEW b \in Bytes, Len(b) = 4
      PROVE  U32(b, 1) \in 0 .. Wide * Wide - 1 /\ PutU32(U32(b, 1)) = b
  <2> DEFINE h == U16(b, 1)
             l == U16(b, 3)
  <2>1. b[1] \in Byte /\ b[2] \in Byte /\ b[3] \in Byte /\ b[4] \in Byte
    <3>1. \A i \in 1 .. Len(b) : b[i] \in Byte
      BY ElementOfSeq DEF Bytes
    <3> QED BY <1>2, <3>1
  <2>2. /\ h \in 0 .. Wide - 1 /\ PutU16(h) = <<b[1], b[2]>>
        /\ l \in 0 .. Wide - 1 /\ PutU16(l) = <<b[3], b[4]>>
    BY <2>1, Two DEF U16
  <2>3. h * Wide <= (Wide - 1) * Wide
    BY <2>2
  <2>4. U32(b, 1) = h * Wide + l /\ U32(b, 1) \in 0 .. Wide * Wide - 1
    BY <2>2, <2>3 DEF U32
  <2>5. U32(b, 1) \div Wide = h /\ U32(b, 1) % Wide = l
    <3> HIDE DEF h, l
    <3> QED BY <2>2, <2>4, Split
  <2>6. PutU32(U32(b, 1)) = <<b[1], b[2]>> \o <<b[3], b[4]>>
    BY <2>2, <2>5 DEF PutU32
  <2>7. <<b[1], b[2]>> \o <<b[3], b[4]>> = b
    BY <1>2, <2>1, ConcatProperties, SeqEqual DEF Bytes
  <2> QED BY <2>4, <2>6, <2>7
<1> QED BY <1>1, <1>2

\* A number at a place in a string is the number of the bytes cut out there.
LEMMA NumberAt ==
    ASSUME NEW b \in Bytes, NEW i \in Nat, NEW k \in Nat, i > 0, k <= Len(b)
    PROVE  /\ k = i + 3 => U32(SubSeq(b, i, k), 1) = U32(b, i)
           /\ k = i + 7 => U64(SubSeq(b, i, k), 1) = U64(b, i)
<1> DEFINE s == SubSeq(b, i, k)
<1>1. ASSUME i <= k PROVE \A j \in 0 .. k - i : s[1 + j] = b[i + j]
  <2>1. i <= k + 1
    BY <1>1
  <2>2. \A j \in 1 .. k - i + 1 : s[j] = b[i + j - 1]
    BY <2>1, Piece
  <2> SUFFICES ASSUME NEW j \in 0 .. k - i PROVE s[1 + j] = b[i + j]
    OBVIOUS
  <2>3. 1 + j \in 1 .. k - i + 1 /\ i + (1 + j) - 1 = i + j
    OBVIOUS
  <2> QED BY <2>2, <2>3
<1> HIDE DEF s
<1>2. ASSUME k = i + 3 PROVE U32(s, 1) = U32(b, i)
  <2>1. s[1] = b[i] /\ s[2] = b[i + 1] /\ s[3] = b[i + 2] /\ s[4] = b[i + 3]
    BY <1>1, <1>2
  <2>2. U16(s, 1) = U16(b, i) /\ U16(s, 3) = U16(b, i + 2)
    <3>1. (i + 2) + 1 = i + 3
      OBVIOUS
    <3> QED BY <2>1, <3>1 DEF U16
  <2> QED BY <2>2 DEF U32
<1>3. ASSUME k = i + 7 PROVE U64(s, 1) = U64(b, i)
  <2>1. /\ s[1] = b[i] /\ s[2] = b[i + 1] /\ s[3] = b[i + 2] /\ s[4] = b[i + 3]
        /\ s[5] = b[i + 4] /\ s[6] = b[i + 5] /\ s[7] = b[i + 6] /\ s[8] = b[i + 7]
    BY <1>1, <1>3
  <2>2. /\ U16(s, 1) = U16(b, i) /\ U16(s, 3) = U16(b, i + 2)
        /\ U16(s, 5) = U16(b, i + 4) /\ U16(s, 7) = U16(b, (i + 4) + 2)
    <3>1. (i + 2) + 1 = i + 3 /\ (i + 4) + 1 = i + 5 /\ (i + 4) + 2 = i + 6 /\ (i + 6) + 1 = i + 7
      OBVIOUS
    <3> QED BY <2>1, <3>1 DEF U16
  <2>3. U32(s, 1) = U32(b, i) /\ U32(s, 5) = U32(b, i + 4)
    BY <2>2 DEF U32
  <2> QED BY <2>3 DEF U64
<1> QED BY <1>2, <1>3 DEF s

\* Numbers of eight bytes: what is written is read back, and what is read is written.
LEMMA Eight ==
    /\ \A n \in Nat : /\ PutU64(n) \in Bytes /\ Len(PutU64(n)) = 8
                      /\ n < (Wide * Wide) * (Wide * Wide) => U64(PutU64(n), 1) = n
    /\ \A b \in Bytes : Len(b) = 8 => /\ U64(b, 1) \in 0 .. (Wide * Wide) * (Wide * Wide) - 1
                                     /\ PutU64(U64(b, 1)) = b
<1> DEFINE W == Wide * Wide
<1>0. W \in Nat /\ W > 0
  BY BaseFacts
<1>1. ASSUME NEW n \in Nat
      PROVE  /\ PutU64(n) \in Bytes /\ Len(PutU64(n)) = 8
             /\ n < W * W => U64(PutU64(n), 1) = n
  <2> DEFINE h == n \div W
             l == n % W
             u == PutU32(h)
             v == PutU32(l)
             b == u \o v
  <2>1. h \in Nat /\ l \in Nat /\ l < W /\ n = h * W + l
    <3> HIDE DEF W
    <3> QED BY <1>0, DivMod
  <2>2. PutU64(n) = b
    BY DEF PutU64
  <2>3. u \in Bytes /\ Len(u) = 4 /\ v \in Bytes /\ Len(v) = 4 /\ U32(v, 1) = l
    <3> HIDE DEF h, l
    <3> QED BY <2>1, Four
  <2>4. b \in Bytes /\ Len(b) = 8 /\ At(b, 1, u) /\ At(b, 5, v)
    <3> HIDE DEF u, v
    <3>1. b \in Bytes /\ Len(b) = 8
      <4>1. u \o v \in Bytes /\ Len(u \o v) = Len(u) + Len(v)
        BY <2>3, Joined2
      <4> QED BY <2>3, <4>1
    <3>2. At(b, 1, b)
      BY <3>1, AtSelf
    <3>3. 1 + Len(u) = 5
      BY <2>3
    <3> QED BY <2>3, <3>1, <3>2, <3>3, AtConcat
  <2>5. SubSeq(b, 1, 4) = u /\ SubSeq(b, 5, 8) = v
    <3> HIDE DEF u, v, b
    <3>1. /\ 1 \in Nat /\ 4 \in Nat /\ 1 > 0 /\ 4 = 1 + Len(u) - 1
          /\ 5 \in Nat /\ 8 \in Nat /\ 5 > 0 /\ 8 = 5 + Len(v) - 1
      BY <2>3
    <3>2. 4 <= Len(b) /\ 8 <= Len(b)
      BY <2>4
    <3>3. SubSeq(b, 1, 4) = u
      BY <2>3, <2>4, <3>1, <3>2, AtSubSeq
    <3>4. SubSeq(b, 5, 8) = v
      BY <2>3, <2>4, <3>1, <3>2, AtSubSeq
    <3> QED BY <3>3, <3>4
  <2>6. U32(b, 1) = U32(u, 1) /\ U32(b, 5) = U32(v, 1)
    <3> HIDE DEF u, v, b
    <3>1. /\ 1 \in Nat /\ 4 \in Nat /\ 1 > 0 /\ 4 = 1 + 3 /\ 4 <= Len(b)
          /\ 5 \in Nat /\ 8 \in Nat /\ 5 > 0 /\ 8 = 5 + 3 /\ 8 <= Len(b)
      BY <2>4
    <3>2. U32(SubSeq(b, 1, 4), 1) = U32(b, 1) /\ U32(SubSeq(b, 5, 8), 1) = U32(b, 5)
      BY <2>4, <3>1, NumberAt
    <3> QED BY <2>5, <3>2
  <2>7. ASSUME n < W * W PROVE U64(b, 1) = n
    <3>1. h < W
      <4> HIDE DEF W
      <4> QED BY <2>7, <1>0, DivBound
    <3>2. U32(u, 1) = h
      <4> HIDE DEF h
      <4> QED BY <2>1, <3>1, Four
    <3>3. U64(b, 1) = U32(b, 1) * W + U32(b, 5)
      BY DEF U64
    <3> HIDE DEF W, h, l, u, v, b
    <3> QED BY <2>1, <2>3, <2>6, <3>2, <3>3
  <2> HIDE DEF b
  <2> QED BY <2>2, <2>4, <2>7
<1>2. ASSUME NEW b \in Bytes, Len(b) = 8
      PROVE  U64(b, 1) \in 0 .. W * W - 1 /\ PutU64(U64(b, 1)) = b
  <2> DEFINE u == SubSeq(b, 1, 4)
             v == SubSeq(b, 5, 8)
             h == U32(b, 1)
             l == U32(b, 5)
  <2>1. /\ u \in Bytes /\ Len(u) = 4 /\ U32(u, 1) = h
        /\ v \in Bytes /\ Len(v) = 4 /\ U32(v, 1) = l
    <3>1. /\ 1 \in Nat /\ 4 \in Nat /\ 1 > 0 /\ 4 = 1 + 3 /\ 4 <= Len(b) /\ 1 <= 4 + 1
          /\ 5 \in Nat /\ 8 \in Nat /\ 5 > 0 /\ 8 = 5 + 3 /\ 8 <= Len(b) /\ 5 <= 8 + 1
      BY <1>2
    <3>2. /\ u \in Bytes /\ Len(u) = 4 - 1 + 1
          /\ v \in Bytes /\ Len(v) = 8 - 5 + 1
      BY <1>2, <3>1, Piece
    <3>3. U32(u, 1) = h /\ U32(v, 1) = l
      BY <1>2, <3>1, NumberAt
    <3> QED BY <3>2, <3>3
  <2>2. h \in 0 .. W - 1 /\ PutU32(h) = u /\ l \in 0 .. W - 1 /\ PutU32(l) = v
    <3> HIDE DEF u, v, h, l
    <3> QED BY <2>1, Four
  <2>3. U64(b, 1) = h * W + l
    BY DEF U64
  <2>4. U64(b, 1) \in 0 .. W * W - 1 /\ U64(b, 1) \div W = h /\ U64(b, 1) % W = l
    <3> HIDE DEF W, h, l
    <3>1. h * W <= (W - 1) * W
      BY <1>0, <2>2
    <3> QED BY <1>0, <2>2, <2>3, <3>1, Split
  <2>5. PutU64(U64(b, 1)) = u \o v
    <3> HIDE DEF h, l, u, v
    <3> QED BY <2>2, <2>4 DEF PutU64
  <2>6. u \o v = b
    <3>1. /\ 1 \in 1 .. Len(b) + 1 /\ 4 \in 1 - 1 .. Len(b) /\ 8 \in 4 .. Len(b)
      BY <1>2
    <3>2. SubSeq(b, 1, 4) \o SubSeq(b, 4 + 1, 8) = SubSeq(b, 1, 8)
      BY <3>1, ConcatAdjacentSubSeq DEF Bytes
    <3> QED BY <1>2, <3>2, SubSeqFull DEF Bytes
  <2> QED BY <2>4, <2>5, <2>6
<1> QED BY <1>1, <1>2

------------------------------------------------------------------------------
(* The parts of a frame on the wire.                                        *)

HasKey(f) == f.final /\ f.key # << >>
Code(f) == LengthField(Len(f.payload))[1]
Rest(n) == Tail(LengthField(n))
More(f) == Rest(Len(f.payload))
HeadOf(f) == <<(IF f.final THEN High ELSE 0) + f.opcode, (IF HasKey(f) THEN High ELSE 0) + Code(f)>>
KeyOf(f) == IF HasKey(f) THEN f.key ELSE << >>
DataOf(f) == IF HasKey(f) THEN Masked(f.key, f.payload) ELSE f.payload

\* The bytes after the first of a length: two, eight or none, as the first says.
LEMMA LengthShape ==
    ASSUME NEW n \in Nat, n < (Wide * Wide) * (Wide * Wide)
    PROVE  /\ LengthField(n) \in Bytes /\ LengthField(n)[1] \in 0 .. High - 1
           /\ LengthField(n) = <<LengthField(n)[1]>> \o Rest(n)
           /\ Rest(n) \in Bytes
           /\ \/ LengthField(n)[1] = Direct + 1 /\ Len(Rest(n)) = 2 /\ U16(Rest(n), 1) = n
              \/ LengthField(n)[1] = Direct + 2 /\ Len(Rest(n)) = 8 /\ U64(Rest(n), 1) = n
              \/ LengthField(n)[1] = n /\ n <= Direct /\ Len(Rest(n)) = 0
<1>1. ASSUME NEW x \in 0 .. High - 1, NEW w \in Bytes
      PROVE  <<x>> \o w \in Bytes /\ (<<x>> \o w)[1] = x /\ Tail(<<x>> \o w) = w
  <2>1. x \in Byte /\ <<x>> \in Seq(Byte) /\ Len(<<x>>) = 1
    BY BaseFacts DEF Byte
  <2>2. /\ <<x>> \o w \in Seq(Byte) /\ Len(<<x>> \o w) = 1 + Len(w)
        /\ (<<x>> \o w)[1] = x /\ \A i \in 1 .. Len(w) : (<<x>> \o w)[i + 1] = w[i]
    BY <2>1, ConcatProperties DEF Bytes
  <2>3. <<x>> \o w # << >>
    BY <2>2 DEF Bytes
  <2>4. /\ Tail(<<x>> \o w) \in Seq(Byte) /\ Len(Tail(<<x>> \o w)) = Len(w)
        /\ \A i \in 1 .. Len(Tail(<<x>> \o w)) : Tail(<<x>> \o w)[i] = (<<x>> \o w)[i + 1]
    BY <2>2, <2>3, HeadTailProperties DEF Bytes
  <2> QED BY <2>2, <2>4, SeqEqual DEF Bytes
<1>2. CASE n <= Direct
  <2>1. n \in 0 .. High - 1 /\ << >> \in Bytes /\ Len(<< >>) = 0
    BY <1>2, BaseFacts DEF Bytes
  <2>2. LengthField(n) = <<n>> \o << >>
    <3>1. <<n>> \in Seq(Nat)
      OBVIOUS
    <3>2. <<n>> \o << >> = <<n>>
      BY <3>1, ConcatEmptySeq
    <3> QED BY <1>2, <3>2 DEF LengthField
  <2>3. LengthField(n) \in Bytes /\ LengthField(n)[1] = n /\ Rest(n) = << >>
    BY <1>1, <2>1, <2>2 DEF Rest
  <2> QED BY <1>2, <2>1, <2>2, <2>3
<1>3. CASE n > Direct /\ n < Wide
  <2>1. Direct + 1 \in 0 .. High - 1 /\ ~(n <= Direct)
    BY <1>3, BaseFacts
  <2>2. PutU16(n) \in Bytes /\ Len(PutU16(n)) = 2 /\ U16(PutU16(n), 1) = n
    BY <1>3, Two
  <2>3. LengthField(n) = <<Direct + 1>> \o PutU16(n)
    BY <1>3, <2>1 DEF LengthField
  <2>4. LengthField(n) \in Bytes /\ LengthField(n)[1] = Direct + 1 /\ Rest(n) = PutU16(n)
    BY <1>1, <2>1, <2>2, <2>3 DEF Rest
  <2> QED BY <2>1, <2>2, <2>3, <2>4
<1>4. CASE n >= Wide
  <2>1. Direct + 2 \in 0 .. High - 1 /\ ~(n <= Direct) /\ ~(n < Wide)
    BY <1>4, BaseFacts
  <2>2. PutU64(n) \in Bytes /\ Len(PutU64(n)) = 8 /\ U64(PutU64(n), 1) = n
    BY Eight
  <2>3. LengthField(n) = <<Direct + 2>> \o PutU64(n)
    BY <2>1 DEF LengthField
  <2>4. /\ <<Direct + 2>> \o PutU64(n) \in Bytes
        /\ (<<Direct + 2>> \o PutU64(n))[1] = Direct + 2
        /\ Tail(<<Direct + 2>> \o PutU64(n)) = PutU64(n)
    BY <1>1, <2>1, <2>2
  <2>5. LengthField(n) \in Bytes /\ LengthField(n)[1] = Direct + 2 /\ Rest(n) = PutU64(n)
    BY <2>3, <2>4 DEF Rest
  <2> QED BY <2>1, <2>2, <2>3, <2>5
<1> QED BY <1>2, <1>3, <1>4, BaseFacts

\* Masking keeps the length and undoes itself.
LEMMA MaskTwice ==
    ASSUME NEW key \in Bytes, Len(key) = 4, NEW data \in Bytes
    PROVE  /\ Masked(key, data) \in Bytes /\ Len(Masked(key, data)) = Len(data)
           /\ Masked(key, Masked(key, data)) = data
<1> DEFINE k(i) == key[((i - 1) % 4) + 1]
           m == Masked(key, data)
<1>1. \A i \in 1 .. Len(data) : k(i) \in Byte /\ data[i] \in Byte
  <2>1. \A i \in 1 .. Len(data) : ((i - 1) % 4) + 1 \in 1 .. Len(key)
    BY DEF Bytes
  <2> QED BY <2>1, ElementOfSeq DEF Bytes
<1>2. \A i \in 1 .. Len(data) : /\ ByteXor(data[i], k(i)) \in Byte
                               /\ ByteXor(ByteXor(data[i], k(i)), k(i)) = data[i]
  BY <1>1, WireAssumption
<1>3. m \in Bytes /\ Len(m) = Len(data) /\ \A i \in 1 .. Len(data) : m[i] = ByteXor(data[i], k(i))
  <2>1. m = [i \in 1 .. Len(data) |-> ByteXor(data[i], k(i))]
    BY DEF Masked
  <2> QED BY <1>2, <2>1 DEF Bytes
<1>4. /\ Masked(key, m) \in Bytes /\ Len(Masked(key, m)) = Len(data)
      /\ \A i \in 1 .. Len(data) : Masked(key, m)[i] = data[i]
  <2>1. Masked(key, m) = [i \in 1 .. Len(data) |-> ByteXor(m[i], k(i))]
    BY <1>3 DEF Masked
  <2> HIDE DEF m, k
  <2>2. \A i \in 1 .. Len(data) : ByteXor(m[i], k(i)) = data[i]
    BY <1>2, <1>3
  <2> QED BY <1>1, <2>1, <2>2 DEF Bytes
<1> HIDE DEF m
<1> QED BY <1>3, <1>4, SeqEqual DEF Bytes, m

\* The first two bytes say whether the frame is final, what it is, whether it is
\* masked, and how its length is written.
LEMMA HeadShape ==
    ASSUME NEW f, IsFrame(f)
    PROVE  /\ HeadOf(f) \in Bytes /\ Len(HeadOf(f)) = 2
           /\ HeadOf(f)[1] >= High <=> f.final
           /\ HeadOf(f)[1] % High = f.opcode
           /\ HeadOf(f)[2] >= High <=> HasKey(f)
           /\ HeadOf(f)[2] % High = Code(f)
           /\ Code(f) \in 0 .. High - 1
<1> DEFINE b1 == (IF f.final THEN High ELSE 0) + f.opcode
           b2 == (IF HasKey(f) THEN High ELSE 0) + Code(f)
<1>1. Code(f) \in 0 .. High - 1
  <2>1. Len(f.payload) \in Nat
    BY DEF IsFrame, Bytes
  <2> QED BY <2>1, LengthShape DEF IsFrame, Code
<1>2. f.opcode \in 0 .. High - 1
  BY DEF IsFrame
<1>3. /\ \A x \in 0 .. High - 1 : x % High = x /\ (High + x) % High = x
      /\ \A x \in 0 .. High - 1 : x \in Byte /\ High + x \in Byte
  <2>1. \A x \in 0 .. High - 1 : (1 * High + x) % High = x /\ (0 * High + x) % High = x
    BY BaseFacts, Split
  <2> QED BY <2>1, BaseFacts DEF Byte
<1>4. b1 \in Byte /\ b1 % High = f.opcode /\ (b1 >= High <=> f.final)
  <2>1. f.final \in BOOLEAN
    BY DEF IsFrame
  <2>2. f.opcode \in Nat /\ 0 + f.opcode = f.opcode /\ High + f.opcode >= High /\ f.opcode < High
    BY <1>2, BaseFacts
  <2>3. CASE f.final
    <3>1. b1 = High + f.opcode
      BY <2>3
    <3> QED BY <1>2, <1>3, <2>2, <2>3, <3>1
  <2>4. CASE ~f.final
    <3>1. b1 = f.opcode
      BY <2>2, <2>4
    <3> QED BY <1>2, <1>3, <2>2, <2>4, <3>1, BaseFacts
  <2> QED BY <2>1, <2>3, <2>4
<1>5. b2 \in Byte /\ b2 % High = Code(f) /\ (b2 >= High <=> HasKey(f))
  <2>1. HasKey(f) \in BOOLEAN
    BY DEF HasKey
  <2>2. Code(f) \in Nat /\ 0 + Code(f) = Code(f) /\ High + Code(f) >= High /\ Code(f) < High
    BY <1>1, BaseFacts
  <2>3. CASE HasKey(f)
    <3>1. b2 = High + Code(f)
      BY <2>3
    <3> QED BY <1>1, <1>3, <2>2, <2>3, <3>1
  <2>4. CASE ~HasKey(f)
    <3>1. b2 = Code(f)
      BY <2>2, <2>4
    <3> QED BY <1>1, <1>3, <2>2, <2>4, <3>1, BaseFacts
  <2> QED BY <2>1, <2>3, <2>4
<1>6. HeadOf(f) = <<b1, b2>>
  BY DEF HeadOf
<1> HIDE DEF b1, b2
<1> QED BY <1>1, <1>4, <1>5, <1>6 DEF Bytes

\* The other parts, and the frame they make up.
LEMMA FrameShape ==
    ASSUME NEW f, IsFrame(f)
    PROVE  /\ More(f) \in Bytes /\ KeyOf(f) \in Bytes /\ DataOf(f) \in Bytes
           /\ Len(KeyOf(f)) = IF HasKey(f) THEN 4 ELSE 0
           /\ Len(DataOf(f)) = Len(f.payload)
           /\ \/ Code(f) = Direct + 1 /\ Len(More(f)) = 2 /\ U16(More(f), 1) = Len(f.payload)
              \/ Code(f) = Direct + 2 /\ Len(More(f)) = 8 /\ U64(More(f), 1) = Len(f.payload)
              \/ Code(f) = Len(f.payload) /\ Code(f) <= Direct /\ Len(More(f)) = 0
           /\ Encoded(f) \in Bytes
           /\ Encoded(f) = ((HeadOf(f) \o More(f)) \o KeyOf(f)) \o DataOf(f)
           /\ Len(Encoded(f)) = 2 + Len(More(f)) + Len(KeyOf(f)) + Len(DataOf(f))
<1> DEFINE field == LengthField(Len(f.payload))
           b1 == (IF f.final THEN High ELSE 0) + f.opcode
<1>1. f.payload \in Bytes /\ f.key \in Bytes /\ Len(f.payload) \in Nat /\ Len(f.key) \in {0, 4}
  BY DEF IsFrame, Bytes
<1>2. /\ More(f) \in Bytes /\ field = <<Code(f)>> \o More(f) /\ Code(f) \in 0 .. High - 1
      /\ \/ Code(f) = Direct + 1 /\ Len(More(f)) = 2 /\ U16(More(f), 1) = Len(f.payload)
         \/ Code(f) = Direct + 2 /\ Len(More(f)) = 8 /\ U64(More(f), 1) = Len(f.payload)
         \/ Code(f) = Len(f.payload) /\ Code(f) <= Direct /\ Len(More(f)) = 0
  <2>1. Len(f.payload) < (Wide * Wide) * (Wide * Wide)
    BY DEF IsFrame
  <2> QED BY <1>1, <2>1, LengthShape DEF Code, More
<1>3. /\ KeyOf(f) \in Bytes /\ Len(KeyOf(f)) = IF HasKey(f) THEN 4 ELSE 0
      /\ DataOf(f) \in Bytes /\ Len(DataOf(f)) = Len(f.payload)
  <2>1. CASE HasKey(f)
    <3>1. Len(f.key) = 4
      BY <1>1, <2>1 DEF HasKey, Bytes
    <3> QED BY <1>1, <2>1, <3>1, MaskTwice DEF KeyOf, DataOf
  <2>2. CASE ~HasKey(f)
    BY <1>1, <2>2 DEF KeyOf, DataOf, Bytes
  <2> QED BY <2>1, <2>2
<1>4. HeadOf(f) \in Bytes /\ Len(HeadOf(f)) = 2
  BY HeadShape
<1>5. /\ ((HeadOf(f) \o More(f)) \o KeyOf(f)) \o DataOf(f) \in Bytes
      /\ Len(((HeadOf(f) \o More(f)) \o KeyOf(f)) \o DataOf(f))
            = 2 + Len(More(f)) + Len(KeyOf(f)) + Len(DataOf(f))
  <2>1. HeadOf(f) \o More(f) \in Bytes /\ Len(HeadOf(f) \o More(f)) = 2 + Len(More(f))
    BY <1>2, <1>4, Joined2
  <2>2. /\ (HeadOf(f) \o More(f)) \o KeyOf(f) \in Bytes
        /\ Len((HeadOf(f) \o More(f)) \o KeyOf(f)) = Len(HeadOf(f) \o More(f)) + Len(KeyOf(f))
    BY <1>3, <2>1, Joined2
  <2>3. /\ ((HeadOf(f) \o More(f)) \o KeyOf(f)) \o DataOf(f) \in Bytes
        /\ Len(((HeadOf(f) \o More(f)) \o KeyOf(f)) \o DataOf(f))
              = Len((HeadOf(f) \o More(f)) \o KeyOf(f)) + Len(DataOf(f))
    BY <1>3, <2>2, Joined2
  <2> QED BY <2>1, <2>2, <2>3
<1>6. Encoded(f) = ((HeadOf(f) \o More(f)) \o KeyOf(f)) \o DataOf(f)
  <2>1. CASE HasKey(f)
    <3>1. HeadOf(f) = <<High + f.opcode, High + field[1]>>
      BY <2>1 DEF HeadOf, HasKey, Code
    <3> QED BY <2>1, <3>1 DEF Encoded, SendFrame, HasKey, KeyOf, DataOf, More, Rest
  <2>2. CASE ~HasKey(f)
    <3>1. Encoded(f) = (<<b1>> \o field) \o f.payload
      BY <2>2 DEF Encoded, HasKey
    <3>2. HeadOf(f) = <<b1, Code(f)>>
      <4>1. 0 + Code(f) = Code(f)
        BY <1>2, BaseFacts
      <4> QED BY <2>2, <4>1 DEF HeadOf
    <3>3. b1 \in Byte /\ Code(f) \in Byte
      BY <1>4, <3>2, ElementOfSeq DEF Bytes
    <3> HIDE DEF b1, field
    <3>4. <<b1>> \in Seq(Byte) /\ <<Code(f)>> \in Seq(Byte) /\ <<b1>> \o <<Code(f)>> = HeadOf(f)
      <4>1. <<b1>> \in Seq(Byte) /\ Append(<<b1>>, Code(f)) = <<b1>> \o <<Code(f)>>
        BY <3>3, AppendIsConcat
      <4>2. <<b1>> \in Seq(Byte) /\ <<Code(f)>> \in Seq(Byte) /\ <<b1, Code(f)>> \in Seq(Byte)
        BY <3>3
      <4>3. Append(<<b1>>, Code(f)) = <<b1, Code(f)>>
        <5> DEFINE t == Append(<<b1>>, Code(f))
        <5>1. /\ t \in Seq(Byte) /\ Len(t) = Len(<<b1>>) + 1 /\ t[Len(<<b1>>) + 1] = Code(f)
              /\ \A j \in 1 .. Len(<<b1>>) : t[j] = <<b1>>[j]
          BY <3>3, <4>2, AppendProperties
        <5>2. Len(<<b1>>) = 1 /\ Len(<<b1, Code(f)>>) = 2 /\ <<b1>>[1] = b1
          OBVIOUS
        <5>3. Len(t) = 2 /\ t[1] = b1 /\ t[2] = Code(f)
          BY <5>1, <5>2
        <5> HIDE DEF t
        <5>4. \A j \in 1 .. Len(t) : t[j] = <<b1, Code(f)>>[j]
          BY <5>3
        <5> QED BY <4>2, <5>1, <5>2, <5>3, <5>4, SeqEqual DEF t
      <4> QED BY <3>2, <4>1, <4>2, <4>3
    <3>5. <<b1>> \o field = HeadOf(f) \o More(f)
      <4>1. More(f) \in Seq(Byte)
        BY <1>2 DEF Bytes
      <4>2. (<<b1>> \o <<Code(f)>>) \o More(f) = <<b1>> \o (<<Code(f)>> \o More(f))
        BY <3>4, <4>1, ConcatAssociative
      <4> QED BY <1>2, <3>4, <4>2
    <3>6. (HeadOf(f) \o More(f)) \o KeyOf(f) = HeadOf(f) \o More(f)
      <4>1. HeadOf(f) \o More(f) \in Seq(Byte)
        BY <1>2, <1>4, Joined2 DEF Bytes
      <4> QED BY <2>2, <4>1, ConcatEmptySeq DEF KeyOf
    <3> QED BY <2>2, <3>1, <3>5, <3>6 DEF DataOf
  <2> QED BY <2>1, <2>2
<1> QED BY <1>2, <1>3, <1>5, <1>6

\* A frame stands somewhere when its parts stand there one after the other.
LEMMA FrameAt ==
    ASSUME NEW b, NEW i \in Nat, NEW f, IsFrame(f), At(b, i, Encoded(f))
    PROVE  /\ At(b, i, HeadOf(f))
           /\ At(b, i + 2, More(f))
           /\ At(b, i + 2 + Len(More(f)), KeyOf(f))
           /\ At(b, i + 2 + Len(More(f)) + Len(KeyOf(f)), DataOf(f))
<1> DEFINE u == HeadOf(f)
           v == u \o More(f)
           w == v \o KeyOf(f)
<1>1. /\ u \in Bytes /\ Len(u) = 2 /\ More(f) \in Bytes /\ KeyOf(f) \in Bytes /\ DataOf(f) \in Bytes
      /\ Encoded(f) = w \o DataOf(f)
  BY HeadShape, FrameShape
<1>2. v \in Bytes /\ Len(v) = 2 + Len(More(f))
  <2>1. v \in Bytes /\ Len(v) = Len(u) + Len(More(f))
    BY <1>1, Joined2
  <2> QED BY <1>1, <2>1
<1> HIDE DEF u, v
<1>3. w \in Bytes /\ Len(w) = Len(v) + Len(KeyOf(f))
  BY <1>1, <1>2, Joined2
<1> HIDE DEF w
<1>4. At(b, i, w) /\ At(b, i + Len(w), DataOf(f))
  <2>1. At(b, i, w \o DataOf(f))
    BY <1>1
  <2>2. w \in Bytes /\ DataOf(f) \in Bytes
    BY <1>1, <1>3
  <2> QED BY <2>1, <2>2, AtConcat
<1>5. At(b, i, v) /\ At(b, i + Len(v), KeyOf(f))
  BY <1>1, <1>2, <1>4, AtConcat DEF w
<1>6. At(b, i, u) /\ At(b, i + Len(u), More(f))
  BY <1>1, <1>5, AtConcat DEF v
<1>7. /\ Len(More(f)) \in Nat /\ Len(KeyOf(f)) \in Nat /\ i + Len(u) = i + 2
      /\ i + Len(v) = i + 2 + Len(More(f)) /\ i + Len(w) = i + 2 + Len(More(f)) + Len(KeyOf(f))
  BY <1>1, <1>2, <1>3 DEF Bytes
<1> QED BY <1>4, <1>5, <1>6, <1>7 DEF u

------------------------------------------------------------------------------
(* The parts of a media packet.                                             *)

TypeBytes(p) == <<1, p.type, p.flags, 0>>

\* A packet stands somewhere when its fields stand there one after the other.
LEMMA PacketShape ==
    ASSUME NEW p \in Packet
    PROVE  /\ Build(p) \in Bytes /\ Len(Build(p)) = HeaderBytes + Len(p.payload)
           /\ \A b : At(b, 1, Build(p)) <=> /\ At(b, 1, Magic) /\ At(b, 5, TypeBytes(p))
                                           /\ At(b, 9, PutU32(p.sequence))
                                           /\ At(b, 13, PutU64(p.timestamp))
                                           /\ At(b, 21, PutU32(Len(p.payload)))
                                           /\ At(b, 25, p.payload)
<1> DEFINE c1 == Magic \o TypeBytes(p)
           c2 == c1 \o PutU32(p.sequence)
           c3 == c2 \o PutU64(p.timestamp)
           c4 == c3 \o PutU32(Len(p.payload))
           c5 == c4 \o p.payload
<1>1. /\ Magic \in Bytes /\ Len(Magic) = 4
      /\ TypeBytes(p) \in Bytes /\ Len(TypeBytes(p)) = 4
      /\ PutU32(p.sequence) \in Bytes /\ Len(PutU32(p.sequence)) = 4
      /\ PutU64(p.timestamp) \in Bytes /\ Len(PutU64(p.timestamp)) = 8
      /\ p.payload \in Bytes /\ Len(p.payload) \in Nat
      /\ PutU32(Len(p.payload)) \in Bytes /\ Len(PutU32(Len(p.payload))) = 4
  <2>1. /\ p.type \in Byte /\ p.flags \in Byte /\ p.sequence \in Nat /\ p.timestamp \in Nat
        /\ p.payload \in Bytes /\ Len(p.payload) \in Nat
    BY DEF Packet, Bytes
  <2>2. TypeBytes(p) \in Bytes /\ Len(TypeBytes(p)) = 4
    <3>1. 0 \in Byte /\ 1 \in Byte
      BY BaseFacts DEF Byte
    <3> QED BY <2>1, <3>1 DEF TypeBytes, Bytes
  <2> QED BY <2>1, <2>2, Four, Eight, WireAssumption
<1>2. Build(p) = c5
  BY DEF Build, TypeBytes
<1>3. c1 \in Bytes /\ Len(c1) = 8 /\ \A b : At(b, 1, c1) <=> At(b, 1, Magic) /\ At(b, 5, TypeBytes(p))
  <2>1. c1 \in Bytes /\ Len(c1) = Len(Magic) + Len(TypeBytes(p))
    BY <1>1, Joined2
  <2>2. 1 + Len(Magic) = 5 /\ Len(c1) = 8
    BY <1>1, <2>1
  <2>3. \A b : At(b, 1, c1) <=> At(b, 1, Magic) /\ At(b, 1 + Len(Magic), TypeBytes(p))
    BY <1>1, AtConcat
  <2> QED BY <2>1, <2>2, <2>3
<1> HIDE DEF c1
<1>4. c2 \in Bytes /\ Len(c2) = 12 /\ \A b : At(b, 1, c2) <=> At(b, 1, c1) /\ At(b, 9, PutU32(p.sequence))
  <2>1. c2 \in Bytes /\ Len(c2) = Len(c1) + Len(PutU32(p.sequence))
    BY <1>1, <1>3, Joined2
  <2>2. 1 + Len(c1) = 9 /\ Len(c2) = 12
    BY <1>1, <1>3, <2>1
  <2>3. \A b : At(b, 1, c2) <=> At(b, 1, c1) /\ At(b, 1 + Len(c1), PutU32(p.sequence))
    BY <1>1, <1>3, AtConcat
  <2> QED BY <2>1, <2>2, <2>3
<1> HIDE DEF c2
<1>5. c3 \in Bytes /\ Len(c3) = 20 /\ \A b : At(b, 1, c3) <=> At(b, 1, c2) /\ At(b, 13, PutU64(p.timestamp))
  <2>1. c3 \in Bytes /\ Len(c3) = Len(c2) + Len(PutU64(p.timestamp))
    BY <1>1, <1>4, Joined2
  <2>2. 1 + Len(c2) = 13 /\ Len(c3) = 20
    BY <1>1, <1>4, <2>1
  <2>3. \A b : At(b, 1, c3) <=> At(b, 1, c2) /\ At(b, 1 + Len(c2), PutU64(p.timestamp))
    BY <1>1, <1>4, AtConcat
  <2> QED BY <2>1, <2>2, <2>3
<1> HIDE DEF c3
<1>6. c4 \in Bytes /\ Len(c4) = 24 /\ \A b : At(b, 1, c4) <=> At(b, 1, c3) /\ At(b, 21, PutU32(Len(p.payload)))
  <2>1. c4 \in Bytes /\ Len(c4) = Len(c3) + Len(PutU32(Len(p.payload)))
    BY <1>1, <1>5, Joined2
  <2>2. 1 + Len(c3) = 21 /\ Len(c4) = 24
    BY <1>1, <1>5, <2>1
  <2>3. \A b : At(b, 1, c4) <=> At(b, 1, c3) /\ At(b, 1 + Len(c3), PutU32(Len(p.payload)))
    BY <1>1, <1>5, AtConcat
  <2> QED BY <2>1, <2>2, <2>3
<1> HIDE DEF c4
<1>7. /\ c5 \in Bytes /\ Len(c5) = 24 + Len(p.payload)
      /\ \A b : At(b, 1, c5) <=> At(b, 1, c4) /\ At(b, 25, p.payload)
  <2>1. c5 \in Bytes /\ Len(c5) = Len(c4) + Len(p.payload)
    BY <1>1, <1>6, Joined2
  <2>2. 1 + Len(c4) = 25 /\ Len(c5) = 24 + Len(p.payload)
    BY <1>1, <1>6, <2>1
  <2>3. \A b : At(b, 1, c5) <=> At(b, 1, c4) /\ At(b, 1 + Len(c4), p.payload)
    BY <1>1, <1>6, AtConcat
  <2> QED BY <2>1, <2>2, <2>3
<1> HIDE DEF c5
<1>8. HeaderBytes = 24
  BY DEF HeaderBytes
<1> QED BY <1>2, <1>3, <1>4, <1>5, <1>6, <1>7, <1>8

\* A packet that was built is accepted, and read as it was built.
THEOREM ParsesBuilt ==
    ASSUME NEW p \in Packet
    PROVE  WellFormed(Build(p)) /\ View(Build(p)) = p
<1> DEFINE b == Build(p)
<1>1. b \in Bytes /\ Len(b) = 24 + Len(p.payload) /\ Len(p.payload) \in Nat
  BY PacketShape DEF HeaderBytes, Packet, Bytes
<1>2. /\ At(b, 1, Magic) /\ At(b, 5, TypeBytes(p)) /\ At(b, 9, PutU32(p.sequence))
      /\ At(b, 13, PutU64(p.timestamp)) /\ At(b, 21, PutU32(Len(p.payload)))
      /\ At(b, 25, p.payload)
  BY <1>1, AtSelf, PacketShape
<1>3. /\ p.sequence \in Nat /\ p.sequence < Wide * Wide /\ p.payload \in Bytes
      /\ p.timestamp \in Nat /\ p.timestamp < (Wide * Wide) * (Wide * Wide)
      /\ Len(p.payload) < Wide * Wide /\ Magic \in Bytes /\ Len(Magic) = 4
  BY WireAssumption DEF Packet
<1> HIDE DEF b
<1>4. b[5] = 1 /\ b[6] = p.type /\ b[7] = p.flags
  <2>1. /\ Len(TypeBytes(p)) = 4
        /\ TypeBytes(p)[1] = 1 /\ TypeBytes(p)[2] = p.type /\ TypeBytes(p)[3] = p.flags
    BY DEF TypeBytes
  <2>2. /\ 5 + 1 - 1 = 5 /\ 5 + 2 - 1 = 6 /\ 5 + 3 - 1 = 7
        /\ 5 \in 1 .. Len(b) /\ 6 \in 1 .. Len(b) /\ 7 \in 1 .. Len(b)
    BY <1>1
  <2>3. \A j \in 1 .. 3 : 5 + j - 1 \in 1 .. Len(b) => b[5 + j - 1] = TypeBytes(p)[j]
    BY <1>2, <2>1 DEF At
  <2>4. /\ b[5 + 1 - 1] = TypeBytes(p)[1] /\ b[5 + 2 - 1] = TypeBytes(p)[2]
        /\ b[5 + 3 - 1] = TypeBytes(p)[3]
    BY <2>2, <2>3
  <2> QED BY <2>1, <2>2, <2>4
<1>5. SubSeq(b, 1, 4) = Magic
  <2>1. 1 \in Nat /\ 4 \in Nat /\ 1 > 0 /\ 4 = 1 + Len(Magic) - 1 /\ 4 <= Len(b)
    BY <1>1, <1>3
  <2> QED BY <1>1, <1>2, <1>3, <2>1, AtSubSeq
<1>6. U32(b, 9) = p.sequence
  <2>1. /\ PutU32(p.sequence) \in Bytes /\ Len(PutU32(p.sequence)) = 4
        /\ U32(PutU32(p.sequence), 1) = p.sequence
    BY <1>3, Four
  <2>2. /\ 9 \in Nat /\ 12 \in Nat /\ 9 > 0 /\ 12 = 9 + 3 /\ 12 <= Len(b)
        /\ 12 = 9 + Len(PutU32(p.sequence)) - 1
    BY <1>1, <2>1
  <2>3. SubSeq(b, 9, 12) = PutU32(p.sequence)
    BY <1>1, <1>2, <2>1, <2>2, AtSubSeq
  <2>4. U32(SubSeq(b, 9, 12), 1) = U32(b, 9)
    BY <1>1, <2>2, NumberAt
  <2> QED BY <2>1, <2>3, <2>4
<1>7. U64(b, 13) = p.timestamp
  <2>1. /\ PutU64(p.timestamp) \in Bytes /\ Len(PutU64(p.timestamp)) = 8
        /\ U64(PutU64(p.timestamp), 1) = p.timestamp
    BY <1>3, Eight
  <2>2. /\ 13 \in Nat /\ 20 \in Nat /\ 13 > 0 /\ 20 = 13 + 7 /\ 20 <= Len(b)
        /\ 20 = 13 + Len(PutU64(p.timestamp)) - 1
    BY <1>1, <2>1
  <2>3. SubSeq(b, 13, 20) = PutU64(p.timestamp)
    BY <1>1, <1>2, <2>1, <2>2, AtSubSeq
  <2>4. U64(SubSeq(b, 13, 20), 1) = U64(b, 13)
    BY <1>1, <2>2, NumberAt
  <2> QED BY <2>1, <2>3, <2>4
<1>8. U32(b, 21) = Len(p.payload)
  <2>1. /\ PutU32(Len(p.payload)) \in Bytes /\ Len(PutU32(Len(p.payload))) = 4
        /\ U32(PutU32(Len(p.payload)), 1) = Len(p.payload)
    BY <1>1, <1>3, Four
  <2>2. /\ 21 \in Nat /\ 24 \in Nat /\ 21 > 0 /\ 24 = 21 + 3 /\ 24 <= Len(b)
        /\ 24 = 21 + Len(PutU32(Len(p.payload))) - 1
    BY <1>1, <2>1
  <2>3. SubSeq(b, 21, 24) = PutU32(Len(p.payload))
    BY <1>1, <1>2, <2>1, <2>2, AtSubSeq
  <2>4. U32(SubSeq(b, 21, 24), 1) = U32(b, 21)
    BY <1>1, <2>2, NumberAt
  <2> QED BY <2>1, <2>3, <2>4
<1>9. SubSeq(b, 25, Len(b)) = p.payload
  <2>1. 25 \in Nat /\ Len(b) \in Nat /\ 25 > 0 /\ Len(b) = 25 + Len(p.payload) - 1 /\ Len(b) <= Len(b)
    BY <1>1
  <2> QED BY <1>1, <1>2, <1>3, <2>1, AtSubSeq
<1>10. WellFormed(b)
  <2>1. Len(b) >= 24 /\ U32(b, 21) = Len(b) - 24
    BY <1>1, <1>8
  <2> QED BY <1>4, <1>5, <2>1 DEF WellFormed, HasHeader, HeaderBytes
<1>11. View(b) = p
  <2>1. /\ View(b).type = p.type /\ View(b).flags = p.flags /\ View(b).sequence = p.sequence
        /\ View(b).timestamp = p.timestamp /\ View(b).payload = p.payload
    <3>1. HeaderBytes + 1 = 25
      BY DEF HeaderBytes
    <3> QED BY <1>4, <1>6, <1>7, <1>9, <3>1 DEF View
  <2> QED BY <2>1 DEF View, Packet
<1> QED BY <1>10, <1>11 DEF b

\* Bytes that are accepted are, but for the reserved one, those of the packet they
\* are read as.
THEOREM BuildsParsed ==
    ASSUME NEW b \in Bytes, WellFormed(b)
    PROVE  View(b) \in Packet /\ [b EXCEPT ![8] = 0] = Build(View(b))
<1> DEFINE p == View(b)
           c == [b EXCEPT ![8] = 0]
           body == SubSeq(b, 25, Len(b))
<1>1. /\ Len(b) \in Nat /\ Len(b) >= 24 /\ SubSeq(b, 1, 4) = Magic /\ b[5] = 1
      /\ U32(b, 21) = Len(b) - 24
  BY DEF WellFormed, HasHeader, HeaderBytes, Bytes
<1>2. \A j \in 1 .. Len(b) : b[j] \in Byte
  BY ElementOfSeq DEF Bytes
<1>3. body \in Bytes /\ Len(body) = Len(b) - 24 /\ \A j \in 1 .. Len(body) : body[j] = b[24 + j]
  <2>1. /\ 25 \in Nat /\ 25 > 0 /\ Len(b) \in Nat /\ Len(b) <= Len(b) /\ 25 <= Len(b) + 1
        /\ Len(b) - 25 + 1 = Len(b) - 24
    BY <1>1
  <2>2. /\ body \in Bytes /\ Len(body) = Len(b) - 25 + 1
        /\ \A j \in 1 .. Len(b) - 25 + 1 : body[j] = b[25 + j - 1]
    BY <2>1, Piece
  <2>3. \A j \in 1 .. Len(b) - 24 : 25 + j - 1 = 24 + j
    BY <1>1
  <2> QED BY <2>1, <2>2, <2>3
<1>4. /\ p.type = b[6] /\ p.flags = b[7] /\ p.sequence = U32(b, 9) /\ p.timestamp = U64(b, 13)
      /\ p.payload = body
  <2>1. HeaderBytes + 1 = 25
    BY DEF HeaderBytes
  <2> QED BY <2>1 DEF View
<1>5. ASSUME NEW i \in {9, 21}
      PROVE  /\ U32(b, i) \in 0 .. Wide * Wide - 1 /\ Len(PutU32(U32(b, i))) = 4
             /\ \A j \in 1 .. 4 : PutU32(U32(b, i))[j] = b[i + j - 1]
  <2> DEFINE s == SubSeq(b, i, i + 3)
  <2>1. /\ i \in Nat /\ i > 0 /\ i + 3 \in Nat /\ i + 3 <= Len(b) /\ i <= (i + 3) + 1
        /\ (i + 3) - i + 1 = 4
    BY <1>1
  <2>2. /\ s \in Bytes /\ Len(s) = (i + 3) - i + 1
        /\ \A j \in 1 .. (i + 3) - i + 1 : s[j] = b[i + j - 1]
    BY <2>1, Piece
  <2>3. U32(s, 1) = U32(b, i)
    BY <2>1, NumberAt
  <2> HIDE DEF s
  <2>4. U32(s, 1) \in 0 .. Wide * Wide - 1 /\ PutU32(U32(s, 1)) = s
    BY <2>1, <2>2, Four
  <2> QED BY <2>1, <2>2, <2>3, <2>4
<1>6. /\ U64(b, 13) \in 0 .. (Wide * Wide) * (Wide * Wide) - 1 /\ Len(PutU64(U64(b, 13))) = 8
      /\ \A j \in 1 .. 8 : PutU64(U64(b, 13))[j] = b[13 + j - 1]
  <2> DEFINE s == SubSeq(b, 13, 20)
  <2>1. /\ 13 \in Nat /\ 13 > 0 /\ 20 \in Nat /\ 20 <= Len(b) /\ 13 <= 20 + 1
        /\ 20 - 13 + 1 = 8 /\ 20 = 13 + 7
    BY <1>1
  <2>2. /\ s \in Bytes /\ Len(s) = 20 - 13 + 1
        /\ \A j \in 1 .. 20 - 13 + 1 : s[j] = b[13 + j - 1]
    BY <2>1, Piece
  <2>3. U64(s, 1) = U64(b, 13)
    BY <2>1, NumberAt
  <2> HIDE DEF s
  <2>4. U64(s, 1) \in 0 .. (Wide * Wide) * (Wide * Wide) - 1 /\ PutU64(U64(s, 1)) = s
    BY <2>1, <2>2, Eight
  <2> QED BY <2>1, <2>2, <2>3, <2>4
<1>7. /\ U32(b, 9) \in Nat /\ U32(b, 9) < Wide * Wide
      /\ U64(b, 13) \in Nat /\ U64(b, 13) < (Wide * Wide) * (Wide * Wide)
      /\ Len(body) < Wide * Wide
  <2>1. \A m \in Nat : \A n \in 0 .. m - 1 : n \in Nat /\ n < m
    OBVIOUS
  <2>2. Wide * Wide \in Nat /\ (Wide * Wide) * (Wide * Wide) \in Nat
    BY BaseFacts
  <2>3. Len(body) = U32(b, 21)
    BY <1>1, <1>3
  <2> HIDE DEF body
  <2> QED BY <1>5, <1>6, <2>1, <2>2, <2>3
<1>8. p \in Packet
  <2>1. b[6] \in Byte /\ b[7] \in Byte
    BY <1>1, <1>2
  <2>2. p = [type |-> b[6], flags |-> b[7], sequence |-> U32(b, 9), timestamp |-> U64(b, 13),
             payload |-> body]
    BY DEF View, HeaderBytes
  <2> HIDE DEF p, body
  <2> QED BY <1>3, <1>4, <1>7, <2>1, <2>2 DEF Packet
<1>9. /\ c \in Bytes /\ Len(c) = Len(b) /\ c[8] = 0
      /\ \A j \in 1 .. Len(b) : j # 8 => c[j] = b[j]
  <2>1. 8 \in 1 .. Len(b) /\ 0 \in Byte
    BY <1>1, BaseFacts DEF Byte
  <2>2. /\ c \in Seq(Byte) /\ Len(c) = Len(b)
        /\ \A j \in 1 .. Len(b) : c[j] = IF j = 8 THEN 0 ELSE b[j]
    BY <2>1, ExceptSeq DEF Bytes
  <2> QED BY <2>1, <2>2 DEF Bytes
<1> HIDE DEF c, p, body
<1>10. At(c, 1, Magic) /\ At(c, 5, TypeBytes(p))
  <2>1. \A j \in 1 .. 4 : Magic[j] = b[j]
    <3>1. /\ 1 \in Nat /\ 1 > 0 /\ 4 \in Nat /\ 4 <= Len(b) /\ 1 <= 4 + 1 /\ 4 - 1 + 1 = 4
      BY <1>1
    <3>2. \A j \in 1 .. 4 - 1 + 1 : SubSeq(b, 1, 4)[j] = b[1 + j - 1]
      BY <3>1, Piece
    <3> QED BY <1>1, <3>1, <3>2
  <2>2. ASSUME NEW j \in 1 .. 4 PROVE c[1 + j - 1] = Magic[j]
    <3>1. 1 + j - 1 = j /\ j \in 1 .. Len(b) /\ j # 8
      BY <1>1
    <3> QED BY <1>9, <2>1, <3>1
  <2>3. ASSUME NEW j \in 1 .. 4 PROVE c[5 + j - 1] = TypeBytes(p)[j]
    <3>1. c[5] = 1 /\ c[6] = p.type /\ c[7] = p.flags /\ c[8] = 0
      BY <1>1, <1>4, <1>9
    <3>2. /\ TypeBytes(p)[1] = 1 /\ TypeBytes(p)[2] = p.type /\ TypeBytes(p)[3] = p.flags
          /\ TypeBytes(p)[4] = 0
      BY DEF TypeBytes
    <3>3. 5 + j - 1 = 4 + j /\ (j = 1 \/ j = 2 \/ j = 3 \/ j = 4)
      OBVIOUS
    <3> QED BY <3>1, <3>2, <3>3
  <2>4. Len(Magic) = 4 /\ Len(TypeBytes(p)) = 4
    BY WireAssumption DEF TypeBytes
  <2> QED BY <2>2, <2>3, <2>4 DEF At
<1>11. At(c, 9, PutU32(p.sequence)) /\ At(c, 13, PutU64(p.timestamp))
  <2>1. ASSUME NEW j \in 1 .. 4 PROVE c[9 + j - 1] = PutU32(U32(b, 9))[j]
    <3>1. 9 + j - 1 \in 1 .. Len(b) /\ 9 + j - 1 # 8
      BY <1>1
    <3> QED BY <1>5, <1>9, <3>1
  <2>2. ASSUME NEW j \in 1 .. 8 PROVE c[13 + j - 1] = PutU64(U64(b, 13))[j]
    <3>1. 13 + j - 1 \in 1 .. Len(b) /\ 13 + j - 1 # 8
      BY <1>1
    <3> QED BY <1>6, <1>9, <3>1
  <2>3. Len(PutU32(U32(b, 9))) = 4 /\ Len(PutU64(U64(b, 13))) = 8
    BY <1>5, <1>6
  <2> QED BY <1>4, <2>1, <2>2, <2>3 DEF At
<1>12. At(c, 21, PutU32(Len(p.payload))) /\ At(c, 25, p.payload)
  <2>1. ASSUME NEW j \in 1 .. 4 PROVE c[21 + j - 1] = PutU32(U32(b, 21))[j]
    <3>1. 21 + j - 1 \in 1 .. Len(b) /\ 21 + j - 1 # 8
      BY <1>1
    <3> QED BY <1>5, <1>9, <3>1
  <2>2. ASSUME NEW j \in 1 .. Len(body) PROVE c[25 + j - 1] = body[j]
    <3>1. 25 + j - 1 = 24 + j /\ 24 + j \in 1 .. Len(b) /\ 24 + j # 8
      BY <1>1, <1>3
    <3> QED BY <1>3, <1>9, <3>1
  <2>3. Len(PutU32(U32(b, 21))) = 4 /\ Len(p.payload) = U32(b, 21)
    BY <1>1, <1>3, <1>4, <1>5
  <2> QED BY <1>4, <2>1, <2>2, <2>3 DEF At
<1>13. At(c, 1, Build(p)) /\ Build(p) \in Bytes /\ Len(Build(p)) = Len(c)
  <2>1. HeaderBytes + Len(p.payload) = Len(c)
    BY <1>1, <1>3, <1>4, <1>9 DEF HeaderBytes
  <2> QED BY <1>8, <1>10, <1>11, <1>12, <2>1, PacketShape
<1>14. c = Build(p)
  BY <1>9, <1>13, AtWhole
<1> QED BY <1>8, <1>14 DEF c, p

------------------------------------------------------------------------------
(* The receiver.                                                            *)

\* The frame the receiver is at.
Current == sent[Len(handled) + 1]

\* The frames sent stand in the stream one after the other, as far as it came.
Layout ==
    /\ Len(border) = Len(sent)
    /\ \A k \in 1 .. Len(sent) : /\ End(k) = End(k - 1) + Len(Encoded(sent[k]))
                                 /\ At(stream, End(k - 1) + 1, Encoded(sent[k]))
                                 /\ ~lost => End(k) <= Len(stream)
    /\ Len(stream) <= End(Len(sent))
    /\ ~lost => Len(stream) = End(Len(sent))

\* What the receiver has read of the current frame.
Position ==
    /\ Len(handled) <= Len(sent)
    /\ stage = "header" => taken = End(Len(handled))
    /\ stage \in {"length", "mask", "payload", "handle"} =>
          Len(handled) < Len(sent) /\ head = HeadOf(Current)
    /\ stage = "length" => taken = End(Len(handled)) + 2
    /\ stage \in {"mask", "payload", "handle"} =>
          Current.final /\ length = Len(Current.payload) /\ length <= Wide
    /\ stage = "mask" => taken = End(Len(handled)) + 2 + Len(More(Current))
    /\ stage = "payload" => /\ taken = End(Len(handled)) + 2 + Len(More(Current)) + Len(KeyOf(Current))
                            /\ HasKey(Current) => mask = KeyOf(Current)
    /\ stage = "handle" => /\ taken = End(Len(handled) + 1) /\ payload = Current.payload
                           /\ Current.opcode # Close
    /\ stage = "ended" /\ ~lost => Len(handled) < Len(sent) /\ ~Accepted(Current)

\* What has become of the frames before it.
History ==
    \A k \in 1 .. Len(handled) :
        /\ Accepted(sent[k])
        /\ handled[k] = Outcome(sent[k])

StreamInv == StreamTypeOK /\ Layout /\ Position /\ History

\* The initial state satisfies the inductive invariant.
LEMMA InitStreamInv == StreamInit => StreamInv
<1> SUFFICES ASSUME StreamInit PROVE StreamInv
  OBVIOUS
<1>1. StreamTypeOK
  <2>1. \A S : << >> \in Seq(S)
    BY EmptySeq
  <2>2. 0 \in 0 .. Len(<< >>) /\ 0 \in Nat
    BY EmptySeq
  <2> QED BY <2>1, <2>2 DEF StreamInit, StreamTypeOK, Bytes
<1>2. Layout /\ Position /\ History
  BY DEF StreamInit, Layout, Position, History, End
<1> QED BY <1>1, <1>2 DEF StreamInv

\* What every step needs to know of the variables.
LEMMA Facts ==
    ASSUME StreamTypeOK, Layout, Position
    PROVE  /\ stream \in Bytes /\ Len(stream) \in Nat /\ taken \in Nat /\ taken <= Len(stream)
           /\ Len(sent) \in Nat /\ Len(handled) \in Nat /\ Len(handled) <= Len(sent)
           /\ \A k \in 1 .. Len(sent) : sent[k] \in ServerFrames /\ IsFrame(sent[k])
           /\ \A k \in 0 .. Len(sent) : End(k) \in Nat
<1>1. \A k \in 1 .. Len(sent) : sent[k] \in ServerFrames
  BY ElementOfSeq DEF StreamTypeOK
<1>2. \A k \in 0 .. Len(sent) : End(k) \in Nat
  <2>1. \A k \in 1 .. Len(border) : border[k] \in Nat
    BY ElementOfSeq DEF StreamTypeOK
  <2> QED BY <2>1 DEF StreamTypeOK, Layout, End
<1>3. \A k \in 1 .. Len(sent) : IsFrame(sent[k])
  BY <1>1, WireAssumption
<1>4. /\ stream \in Bytes /\ Len(stream) \in Nat /\ taken \in Nat /\ taken <= Len(stream)
      /\ Len(sent) \in Nat /\ Len(handled) \in Nat /\ Len(handled) <= Len(sent)
  BY DEF StreamTypeOK, Position, Bytes
<1> QED BY <1>1, <1>2, <1>3, <1>4

\* A frame more is sent.
LEMMA StepSends == StreamInv /\ Sends => StreamInv'
<1> SUFFICES ASSUME StreamInv, Sends PROVE StreamInv'
  OBVIOUS
<1> USE DEF StreamInv
<1>0. PICK L \in Nat : L = Len(sent)
  BY Facts
<1>1. PICK f \in ServerFrames : sent' = Append(sent, f) /\ stream' = stream \o Encoded(f)
  BY DEF Sends
<1>2. /\ ~lost /\ lost' = lost /\ border' = Append(border, Len(stream')) /\ taken' = taken
      /\ stage' = stage /\ head' = head /\ length' = length /\ mask' = mask
      /\ payload' = payload /\ handled' = handled
  BY DEF Sends, frame
<1>3. /\ IsFrame(f) /\ Encoded(f) \in Bytes /\ Len(Encoded(f)) \in Nat
  BY WireAssumption, FrameShape DEF Bytes
<1>4. /\ L \in Nat /\ Len(sent') = L + 1 /\ sent' \in Seq(ServerFrames) /\ sent'[L + 1] = f
      /\ \A k \in 1 .. L : sent'[k] = sent[k]
  BY <1>0, <1>1, AppendProperties DEF StreamTypeOK
<1>5. /\ stream' \in Bytes /\ Len(stream') = Len(stream) + Len(Encoded(f))
      /\ Len(stream) \in Nat /\ Len(stream') \in Nat
      /\ \A i \in 1 .. Len(stream) : stream'[i] = stream[i]
  <2>1. /\ stream' \in Bytes /\ Len(stream') = Len(stream) + Len(Encoded(f)) /\ Len(stream) \in Nat
    BY <1>1, <1>3, Facts, Joined2
  <2>2. \A i \in 1 .. Len(stream) : stream'[i] = stream[i]
    <3>1. \A i \in 1 .. Len(stream) + Len(Encoded(f)) :
            stream'[i] = IF i <= Len(stream) THEN stream[i] ELSE Encoded(f)[i - Len(stream)]
      BY <1>1, <1>3, Facts, ConcatProperties DEF Bytes
    <3> QED BY <1>3, <2>1, <3>1
  <2> QED BY <1>3, <2>1, <2>2
<1>6. /\ Len(border) = L /\ border' \in Seq(Nat) /\ Len(border') = L + 1
      /\ border'[L + 1] = Len(stream') /\ \A k \in 1 .. L : border'[k] = border[k]
  BY <1>0, <1>2, <1>5, AppendProperties DEF StreamTypeOK, Layout
<1>7. \A k \in 0 .. L : End(k)' = End(k) /\ End(k) \in Nat
  BY <1>0, <1>6, Facts DEF End
<1>8. End(L + 1)' = Len(stream')
  BY <1>4, <1>6 DEF End
<1>9. Len(stream) = End(L)
  BY <1>0, <1>2 DEF Layout
<1>10. StreamTypeOK'
  BY <1>2, <1>3, <1>4, <1>5, <1>6 DEF StreamTypeOK
<1>11. Layout'
  <2>1. ASSUME NEW k \in 1 .. L
        PROVE  /\ End(k)' = End(k - 1)' + Len(Encoded(sent'[k]))
               /\ At(stream', End(k - 1)' + 1, Encoded(sent'[k]))
               /\ End(k)' <= Len(stream')
    <3>1. /\ End(k) = End(k - 1) + Len(Encoded(sent[k])) /\ At(stream, End(k - 1) + 1, Encoded(sent[k]))
          /\ End(k) <= Len(stream)
      BY <1>0, <1>2 DEF Layout
    <3>2. k - 1 \in 0 .. L /\ k \in 0 .. L
      BY <1>4
    <3>3. Len(Encoded(sent[k])) \in Nat
      BY <1>0, Facts, FrameShape DEF Bytes
    <3>4. ASSUME NEW j \in 1 .. Len(Encoded(sent[k])), End(k - 1) + 1 + j - 1 \in 1 .. Len(stream')
          PROVE  stream'[End(k - 1) + 1 + j - 1] = Encoded(sent[k])[j]
      <4>1. End(k - 1) + 1 + j - 1 \in 1 .. Len(stream)
        BY <1>5, <1>7, <3>1, <3>2, <3>3, <3>4
      <4> QED BY <1>5, <3>1, <4>1 DEF At
    <3>5. At(stream', End(k - 1) + 1, Encoded(sent[k]))
      BY <3>4 DEF At
    <3>6. End(k) <= Len(stream')
      BY <1>3, <1>5, <1>7, <3>1, <3>2
    <3> QED BY <1>4, <1>7, <3>1, <3>2, <3>5, <3>6
  <2>2. /\ End(L + 1)' = End(L)' + Len(Encoded(sent'[L + 1]))
        /\ At(stream', End(L)' + 1, Encoded(sent'[L + 1]))
    <3>1. End(L)' = Len(stream)
      BY <1>4, <1>7, <1>9
    <3>2. At(stream', 1, stream')
      BY <1>5, AtSelf
    <3>3. At(stream', 1 + Len(stream), Encoded(f))
      BY <1>1, <1>3, <3>2, Facts, AtConcat
    <3>4. 1 + Len(stream) = Len(stream) + 1
      BY <1>5
    <3> QED BY <1>4, <1>5, <1>8, <3>1, <3>3, <3>4
  <2>3. ASSUME NEW k \in 1 .. Len(sent')
        PROVE  /\ End(k)' = End(k - 1)' + Len(Encoded(sent'[k]))
               /\ At(stream', End(k - 1)' + 1, Encoded(sent'[k]))
               /\ End(k)' <= Len(stream')
    <3>1. CASE k \in 1 .. L
      BY <2>1, <3>1
    <3>2. CASE k = L + 1
      <4>1. (L + 1) - 1 = L
        BY <1>4
      <4> QED BY <1>5, <1>8, <2>2, <3>2, <4>1
    <3> QED BY <1>4, <3>1, <3>2
  <2> QED BY <1>4, <1>5, <1>6, <1>8, <2>3 DEF Layout
<1>12. Position' /\ History'
  <2>1. Len(handled) \in Nat /\ Len(handled) <= L /\ Len(handled') = Len(handled)
    BY <1>0, <1>2, Facts
  <2>2. End(Len(handled))' = End(Len(handled))
    BY <1>2, <1>7, <2>1
  <2>3. Len(handled) < L => Current' = Current /\ End(Len(handled) + 1)' = End(Len(handled) + 1)
    BY <1>0, <1>2, <1>4, <1>7, <2>1 DEF Current
  <2>4. Position'
    BY <1>0, <1>2, <1>4, <2>1, <2>2, <2>3 DEF Position, Accepted
  <2>5. History'
    BY <1>0, <1>2, <1>4, <2>1 DEF History
  <2> QED BY <2>4, <2>5
<1> QED BY <1>10, <1>11, <1>12

\* The connection is cut.
LEMMA StepCut == StreamInv /\ Cut => StreamInv'
<1> SUFFICES ASSUME StreamInv, Cut PROVE StreamInv'
  OBVIOUS
<1> USE DEF StreamInv
<1>1. PICK k \in taken .. Len(stream) : stream' = SubSeq(stream, 1, k)
  BY DEF Cut
<1>2. /\ lost' = TRUE /\ border' = border /\ taken' = taken /\ sent' = sent
      /\ stage' = stage /\ head' = head /\ length' = length /\ mask' = mask
      /\ payload' = payload /\ handled' = handled
  BY DEF Cut, frame
<1>3. k \in Nat /\ taken <= k /\ k <= Len(stream) /\ Len(stream) \in Nat /\ stream \in Bytes
  BY <1>1, Facts
<1>4. stream' \in Bytes /\ Len(stream') = k /\ \A i \in 1 .. k : stream'[i] = stream[i]
  <2>1. 1 \in Nat /\ 1 > 0 /\ 1 <= k + 1 /\ k - 1 + 1 = k /\ \A i \in 1 .. k : 1 + i - 1 = i
    BY <1>3
  <2>2. /\ stream' \in Bytes /\ Len(stream') = k - 1 + 1
        /\ \A i \in 1 .. k - 1 + 1 : stream'[i] = stream[1 + i - 1]
    BY <1>1, <1>3, <2>1, Piece
  <2> QED BY <2>1, <2>2
<1>5. StreamTypeOK'
  BY <1>2, <1>3, <1>4, Facts DEF StreamTypeOK
<1>6. \A j : End(j)' = End(j)
  BY <1>2 DEF End
<1>7. Layout'
  <2>1. ASSUME NEW j \in 1 .. Len(sent) PROVE At(stream', End(j - 1) + 1, Encoded(sent[j]))
    <3>1. At(stream, End(j - 1) + 1, Encoded(sent[j]))
      BY DEF Layout
    <3>2. ASSUME NEW m \in 1 .. Len(Encoded(sent[j])),
                 End(j - 1) + 1 + m - 1 \in 1 .. Len(stream')
          PROVE  stream'[End(j - 1) + 1 + m - 1] = Encoded(sent[j])[m]
      <4>1. End(j - 1) + 1 + m - 1 \in 1 .. k
        BY <1>4, <3>2
      <4>2. End(j - 1) + 1 + m - 1 \in 1 .. Len(stream)
        BY <1>3, <4>1
      <4> QED BY <1>4, <3>1, <4>1, <4>2 DEF At
    <3> QED BY <3>2 DEF At
  <2>2. Len(stream') <= End(Len(sent))
    <3>1. Len(stream) <= End(Len(sent)) /\ End(Len(sent)) \in Nat
      BY Facts DEF Layout
    <3> QED BY <1>3, <1>4, <3>1
  <2> QED BY <1>2, <1>6, <2>1, <2>2 DEF Layout
<1>8. Position' /\ History'
  BY <1>2, <1>6 DEF Position, History, Current
<1> QED BY <1>5, <1>7, <1>8

\* What the receiver is asked for and gets, when the bytes w are next in the stream.
LEMMA ReadsNext ==
    ASSUME StreamTypeOK, Layout, Position, NEW label, ReadAll(label),
           NEW w \in Bytes, Len(w) = Needed, At(stream, taken + 1, w)
    PROVE  Read = w /\ taken' = taken + Len(w) /\ taken' \in 0 .. Len(stream')
<1>1. /\ taken + Needed <= Len(stream) /\ taken' = taken + Needed /\ stream' = stream
  BY Facts DEF ReadAll
<1>2. /\ taken + 1 \in Nat /\ taken + 1 > 0 /\ taken + Needed \in Nat /\ Len(w) \in Nat
      /\ taken + Needed = (taken + 1) + Len(w) - 1
  <2>1. Len(w) \in Nat /\ Needed \in Nat
    BY DEF Bytes
  <2>2. taken \in Nat
    BY Facts
  <2> HIDE DEF Needed
  <2> QED BY <2>1, <2>2
<1>3. SubSeq(stream, taken + 1, taken + Needed) = w
  BY <1>1, <1>2, Facts, AtSubSeq
<1> QED BY <1>1, <1>2, <1>3, Facts DEF Read

\* The parts of the current frame stand where the receiver is.
LEMMA CurrentAt ==
    ASSUME StreamTypeOK, Layout, Position, Len(handled) < Len(sent)
    PROVE  /\ IsFrame(Current) /\ End(Len(handled)) \in Nat
           /\ HeadOf(Current) \in Bytes /\ Len(HeadOf(Current)) = 2
           /\ More(Current) \in Bytes /\ Len(More(Current)) \in Nat
           /\ KeyOf(Current) \in Bytes /\ Len(KeyOf(Current)) \in Nat
           /\ DataOf(Current) \in Bytes /\ Len(DataOf(Current)) \in Nat
           /\ At(stream, End(Len(handled)) + 1, HeadOf(Current))
           /\ At(stream, End(Len(handled)) + 2 + 1, More(Current))
           /\ At(stream, End(Len(handled)) + 2 + Len(More(Current)) + 1, KeyOf(Current))
           /\ At(stream, End(Len(handled)) + 2 + Len(More(Current)) + Len(KeyOf(Current)) + 1,
                 DataOf(Current))
           /\ End(Len(handled) + 1)
                 = End(Len(handled)) + 2 + Len(More(Current)) + Len(KeyOf(Current)) + Len(DataOf(Current))
<1> DEFINE n == Len(handled)
           i == End(n) + 1
<1>1. n \in Nat /\ n + 1 \in 1 .. Len(sent) /\ (n + 1) - 1 = n /\ End(n) \in Nat
  BY Facts
<1>2. IsFrame(Current)
  BY <1>1, Facts DEF Current
<1>3. /\ HeadOf(Current) \in Bytes /\ Len(HeadOf(Current)) = 2
      /\ More(Current) \in Bytes /\ Len(More(Current)) \in Nat
      /\ KeyOf(Current) \in Bytes /\ Len(KeyOf(Current)) \in Nat
      /\ DataOf(Current) \in Bytes /\ Len(DataOf(Current)) \in Nat
  BY <1>2, HeadShape, FrameShape DEF Bytes
<1>4. /\ At(stream, i, Encoded(Current)) /\ End(n + 1) = End(n) + Len(Encoded(Current))
  BY <1>1 DEF Layout, Current
<1>5. /\ At(stream, i, HeadOf(Current)) /\ At(stream, i + 2, More(Current))
      /\ At(stream, i + 2 + Len(More(Current)), KeyOf(Current))
      /\ At(stream, i + 2 + Len(More(Current)) + Len(KeyOf(Current)), DataOf(Current))
  <2>1. i \in Nat
    BY <1>1
  <2> HIDE DEF i
  <2> QED BY <1>2, <1>4, <2>1, FrameAt
<1>6. /\ i + 2 = End(n) + 2 + 1 /\ i + 2 + Len(More(Current)) = End(n) + 2 + Len(More(Current)) + 1
      /\ i + 2 + Len(More(Current)) + Len(KeyOf(Current))
            = End(n) + 2 + Len(More(Current)) + Len(KeyOf(Current)) + 1
  <2>1. PICK e \in Nat : e = End(n)
    BY <1>1
  <2>2. PICK u \in Nat, v \in Nat : u = Len(More(Current)) /\ v = Len(KeyOf(Current))
    BY <1>3
  <2>3. /\ e + 1 + 2 = e + 2 + 1 /\ e + 1 + 2 + u = e + 2 + u + 1
        /\ e + 1 + 2 + u + v = e + 2 + u + v + 1
    OBVIOUS
  <2> QED BY <2>1, <2>2, <2>3
<1>7. Len(Encoded(Current)) = 2 + Len(More(Current)) + Len(KeyOf(Current)) + Len(DataOf(Current))
  BY <1>2, FrameShape
<1>8. End(n + 1) = End(n) + 2 + Len(More(Current)) + Len(KeyOf(Current)) + Len(DataOf(Current))
  BY <1>1, <1>3, <1>4, <1>7
<1> QED BY <1>1, <1>2, <1>3, <1>5, <1>6, <1>8

\* Steps that read leave the stream and the frames sent as they are.
LEMMA StaysLaidOut ==
    ASSUME Layout, UNCHANGED <<stream, lost, sent, border>>
    PROVE  Layout' /\ \A k : End(k)' = End(k)
<1>1. \A k : End(k)' = End(k)
  BY DEF End
<1> QED BY <1>1 DEF Layout

\* The head of a frame is read.
LEMMA StepReadsHeader == StreamInv /\ ReadsHeader => StreamInv'
<1> SUFFICES ASSUME StreamInv, ReadsHeader PROVE StreamInv'
  OBVIOUS
<1> USE DEF StreamInv
<1>1. /\ stage = "header" /\ ReadAll("header") /\ head' = Read /\ stage' = "length"
      /\ stream' = stream /\ lost' = lost /\ sent' = sent /\ border' = border
      /\ handled' = handled /\ length' = length /\ mask' = mask /\ payload' = payload
  BY DEF ReadsHeader, ReadAll
<1>2. Needed = 2 /\ taken = End(Len(handled))
  BY <1>1 DEF Needed, Position
<1>3. Len(handled) < Len(sent)
  <2>1. taken + 2 <= Len(stream) /\ Len(stream) <= End(Len(sent))
    BY <1>1, <1>2 DEF ReadAll, Layout
  <2>2. Len(handled) # Len(sent)
    BY <1>2, <2>1, Facts
  <2> QED BY <2>2, Facts
<1>4. Read = HeadOf(Current) /\ taken' = taken + 2 /\ taken' \in 0 .. Len(stream')
  BY <1>1, <1>2, <1>3, CurrentAt, ReadsNext
<1>5. HeadOf(Current) \in Bytes
  BY <1>3, CurrentAt
<1>6. StreamTypeOK'
  BY <1>1, <1>4, <1>5 DEF StreamTypeOK
<1>7. Layout' /\ \A k : End(k)' = End(k)
  BY <1>1, StaysLaidOut
<1>8. Position' /\ History'
  BY <1>1, <1>2, <1>3, <1>4, <1>7 DEF Position, History, Current
<1> QED BY <1>6, <1>7, <1>8

\* Its length is read: the frame is too long or a fragment, or goes on.
LEMMA StepReadsLength == StreamInv /\ ReadsLength => StreamInv'
<1> SUFFICES ASSUME StreamInv, ReadsLength PROVE StreamInv'
  OBVIOUS
<1> USE DEF StreamInv
<1>1. /\ stage = "length" /\ ReadAll("length") /\ head' = head
      /\ stream' = stream /\ lost' = lost /\ sent' = sent /\ border' = border
      /\ handled' = handled /\ mask' = mask /\ payload' = payload
  BY DEF ReadsLength, ReadAll
<1>2. Len(handled) < Len(sent) /\ head = HeadOf(Current) /\ taken = End(Len(handled)) + 2
  BY <1>1 DEF Position
<1>3. IsFrame(Current)
  BY <1>2, CurrentAt
<1>4. head[2] % High = Code(Current) /\ (IsFinal <=> Current.final)
  BY <1>2, <1>3, HeadShape DEF IsFinal
<1>5. /\ Needed = Len(More(Current))
      /\ \/ Needed = 2 /\ U16(More(Current), 1) = Len(Current.payload)
         \/ Needed = 8 /\ U64(More(Current), 1) = Len(Current.payload)
         \/ Needed = 0 /\ Code(Current) = Len(Current.payload)
  <2>1. \/ Code(Current) = Direct + 1 /\ Len(More(Current)) = 2 /\ U16(More(Current), 1) = Len(Current.payload)
        \/ Code(Current) = Direct + 2 /\ Len(More(Current)) = 8 /\ U64(More(Current), 1) = Len(Current.payload)
        \/ Code(Current) = Len(Current.payload) /\ Code(Current) <= Direct /\ Len(More(Current)) = 0
    BY <1>3, FrameShape
  <2>2. Needed = IF Code(Current) = Direct + 1 THEN 2 ELSE IF Code(Current) = Direct + 2 THEN 8 ELSE 0
    <3>1. Direct + 1 # Direct + 2
      BY BaseFacts
    <3> QED BY <1>1, <1>4, <3>1 DEF Needed, ExtensionBytes
  <2>3. /\ Direct + 1 # Direct + 2
        /\ Code(Current) <= Direct => Code(Current) # Direct + 1 /\ Code(Current) # Direct + 2
    <3>1. Code(Current) \in Nat
      BY <1>3, HeadShape, BaseFacts
    <3> QED BY <3>1, BaseFacts
  <2> QED BY <2>1, <2>2, <2>3
<1>6. /\ Read = More(Current) /\ taken' = taken + Len(More(Current))
      /\ taken' \in 0 .. Len(stream')
  <2>1. taken + 1 = End(Len(handled)) + 2 + 1
    BY <1>2
  <2> QED BY <1>1, <1>2, <1>5, <2>1, CurrentAt, ReadsNext
<1>7. length' = Len(Current.payload) /\ length' \in Nat
  <2>1. length' = CASE Needed = 0 -> head[2] % High
                    [] Needed = 2 -> U16(Read, 1)
                    [] Needed = 8 -> U64(Read, 1)
    BY DEF ReadsLength
  <2>2. Len(Current.payload) \in Nat
    BY <1>3 DEF IsFrame, Bytes
  <2>3. CASE Needed = 2 /\ U16(More(Current), 1) = Len(Current.payload)
    <3>1. length' = U16(Read, 1)
      BY <2>1, <2>3
    <3> QED BY <1>6, <2>2, <2>3, <3>1
  <2>4. CASE Needed = 8 /\ U64(More(Current), 1) = Len(Current.payload)
    <3>1. length' = U64(Read, 1)
      BY <2>1, <2>4
    <3> QED BY <1>6, <2>2, <2>4, <3>1
  <2>5. CASE Needed = 0 /\ Code(Current) = Len(Current.payload)
    <3>1. length' = head[2] % High
      BY <2>1, <2>5
    <3> QED BY <1>4, <2>2, <2>5, <3>1
  <2> QED BY <1>5, <2>3, <2>4, <2>5
<1>8. stage' = IF Current.final /\ length' <= Wide THEN "mask" ELSE "ended"
  BY <1>4 DEF ReadsLength
<1>9. StreamTypeOK'
  BY <1>1, <1>6, <1>7, <1>8 DEF StreamTypeOK
<1>10. Layout' /\ \A k : End(k)' = End(k)
  BY <1>1, StaysLaidOut
<1>11. History'
  BY <1>1 DEF History
<1>12. Position'
  <2>1. Current' = Current
    BY <1>1 DEF Current
  <2>2. CASE stage' = "mask"
    <3>1. Current.final /\ length' <= Wide
      BY <1>8, <2>2
    <3> QED BY <1>1, <1>2, <1>6, <1>7, <1>10, <2>1, <2>2, <3>1, Facts DEF Position
  <2>3. CASE stage' = "ended"
    <3>1. ~Accepted(Current)
      BY <1>7, <1>8, <2>3 DEF Accepted
    <3> QED BY <1>1, <1>2, <2>1, <2>3, <3>1, Facts DEF Position
  <2> QED BY <1>8, <2>2, <2>3
<1> QED BY <1>9, <1>10, <1>11, <1>12

\* The mask, if any, is read.
LEMMA StepReadsMask == StreamInv /\ ReadsMask => StreamInv'
<1> SUFFICES ASSUME StreamInv, ReadsMask PROVE StreamInv'
  OBVIOUS
<1> USE DEF StreamInv
<1>1. /\ stage = "mask" /\ ReadAll("mask") /\ head' = head /\ stage' = "payload"
      /\ stream' = stream /\ lost' = lost /\ sent' = sent /\ border' = border
      /\ handled' = handled /\ length' = length /\ payload' = payload
      /\ mask' = IF HasMask THEN Read ELSE <<0, 0, 0, 0>>
  BY DEF ReadsMask, ReadAll
<1>2. /\ Len(handled) < Len(sent) /\ head = HeadOf(Current)
      /\ taken = End(Len(handled)) + 2 + Len(More(Current))
      /\ Current.final /\ length = Len(Current.payload) /\ length <= Wide
  BY <1>1 DEF Position
<1>3. IsFrame(Current)
  BY <1>2, CurrentAt
<1>4. (HasMask <=> HasKey(Current)) /\ Needed = Len(KeyOf(Current))
  <2>1. HasMask <=> HasKey(Current)
    BY <1>2, <1>3, HeadShape DEF HasMask
  <2> QED BY <1>1, <1>3, <2>1, FrameShape DEF Needed
<1>5. /\ Read = KeyOf(Current) /\ taken' = taken + Len(KeyOf(Current))
      /\ taken' \in 0 .. Len(stream')
  <2>1. taken + 1 = End(Len(handled)) + 2 + Len(More(Current)) + 1
    BY <1>2
  <2> QED BY <1>1, <1>2, <1>4, <2>1, CurrentAt, ReadsNext
<1>6. mask' \in Bytes /\ (HasKey(Current) => mask' = KeyOf(Current))
  <2>1. KeyOf(Current) \in Bytes
    BY <1>2, CurrentAt
  <2>2. <<0, 0, 0, 0>> \in Bytes
    BY BaseFacts DEF Bytes, Byte
  <2> QED BY <1>1, <1>4, <1>5, <2>1, <2>2
<1>7. StreamTypeOK'
  BY <1>1, <1>5, <1>6 DEF StreamTypeOK
<1>8. Layout' /\ \A k : End(k)' = End(k)
  BY <1>1, StaysLaidOut
<1>9. Position' /\ History'
  <2>1. Current' = Current
    BY <1>1 DEF Current
  <2>2. Position'
    BY <1>1, <1>2, <1>5, <1>6, <1>8, <2>1, Facts DEF Position
  <2>3. History'
    BY <1>1 DEF History
  <2> QED BY <2>2, <2>3
<1> QED BY <1>7, <1>8, <1>9

\* The payload is read: the frame is whole, and the receiver at the next one.
LEMMA StepReadsPayload == StreamInv /\ ReadsPayload => StreamInv'
<1> SUFFICES ASSUME StreamInv, ReadsPayload PROVE StreamInv'
  OBVIOUS
<1> USE DEF StreamInv
<1>1. /\ stage = "payload" /\ ReadAll("payload") /\ head' = head
      /\ stage' = (IF Opcode = Close THEN "ended" ELSE "handle")
      /\ stream' = stream /\ lost' = lost /\ sent' = sent /\ border' = border
      /\ handled' = handled /\ length' = length /\ mask' = mask
      /\ payload' = IF HasMask THEN Masked(mask, Read) ELSE Read
  BY DEF ReadsPayload, ReadAll
<1>2. /\ Len(handled) < Len(sent) /\ head = HeadOf(Current)
      /\ taken = End(Len(handled)) + 2 + Len(More(Current)) + Len(KeyOf(Current))
      /\ HasKey(Current) => mask = KeyOf(Current)
      /\ Current.final /\ length = Len(Current.payload) /\ length <= Wide
  BY <1>1 DEF Position
<1>3. IsFrame(Current)
  BY <1>2, CurrentAt
<1>4. /\ HasMask <=> HasKey(Current)
      /\ Opcode = Current.opcode
      /\ Needed = Len(DataOf(Current))
  <2>1. (HasMask <=> HasKey(Current)) /\ Opcode = Current.opcode
    BY <1>2, <1>3, HeadShape DEF HasMask, Opcode
  <2>2. Needed = Len(DataOf(Current))
    BY <1>1, <1>2, <1>3, FrameShape DEF Needed
  <2> QED BY <2>1, <2>2
<1>5. /\ Read = DataOf(Current) /\ taken' = taken + Len(DataOf(Current))
      /\ taken' \in 0 .. Len(stream')
  <2>1. taken + 1 = End(Len(handled)) + 2 + Len(More(Current)) + Len(KeyOf(Current)) + 1
    BY <1>2
  <2> QED BY <1>1, <1>2, <1>4, <2>1, CurrentAt, ReadsNext
<1>6. taken' = End(Len(handled) + 1)
  BY <1>2, <1>5, CurrentAt
<1>7. payload' = Current.payload /\ payload' \in Bytes
  <2>1. Current.payload \in Bytes
    BY <1>3 DEF IsFrame
  <2>2. CASE HasKey(Current)
    <3>1. /\ Current.key \in Bytes /\ Len(Current.key) = 4 /\ mask = Current.key
          /\ DataOf(Current) = Masked(Current.key, Current.payload)
      BY <1>2, <1>3, <2>2, FrameShape DEF KeyOf, DataOf, IsFrame
    <3>2. payload' = Masked(Current.key, Masked(Current.key, Current.payload))
      BY <1>1, <1>4, <1>5, <2>2, <3>1
    <3> QED BY <2>1, <3>1, <3>2, MaskTwice
  <2>3. CASE ~HasKey(Current)
    BY <1>1, <1>4, <1>5, <2>1, <2>3 DEF DataOf
  <2> QED BY <2>2, <2>3
<1>8. StreamTypeOK'
  BY <1>1, <1>5, <1>7 DEF StreamTypeOK
<1>9. Layout' /\ \A k : End(k)' = End(k)
  BY <1>1, StaysLaidOut
<1>10. Position' /\ History'
  <2>1. Current' = Current
    BY <1>1 DEF Current
  <2>2. Current.opcode = Close => ~Accepted(Current)
    BY DEF Accepted
  <2>3. End(Len(handled))' = End(Len(handled)) /\ End(Len(handled) + 1)' = End(Len(handled) + 1)
    BY <1>1, <1>9
  <2>4. ASSUME stage' = "handle" PROVE Position'
    <3>1. Current.opcode # Close
      BY <1>1, <1>4, <2>4
    <3>2. taken' = End(Len(handled) + 1)'
      BY <1>6, <2>3
    <3>3. Len(handled) \in Nat /\ Len(handled) <= Len(sent)
      BY Facts
    <3> QED BY <1>1, <1>2, <1>7, <2>1, <2>4, <3>1, <3>2, <3>3 DEF Position
  <2>5. ASSUME stage' = "ended" PROVE Position'
    <3>1. ~Accepted(Current)
      BY <1>1, <1>4, <2>2, <2>5
    <3>2. ~Accepted(Current)' /\ Len(handled) <= Len(sent)
      BY <1>1, <2>1, <3>1, Facts DEF Accepted
    <3> QED BY <1>1, <1>2, <2>1, <2>5, <3>2 DEF Position
  <2>6. Position'
    BY <1>1, <2>4, <2>5
  <2>7. History'
    BY <1>1 DEF History
  <2> QED BY <2>6, <2>7
<1> QED BY <1>8, <1>9, <1>10

\* A frame is handled.
LEMMA StepHandles == StreamInv /\ Handles => StreamInv'
<1> SUFFICES ASSUME StreamInv, Handles PROVE StreamInv'
  OBVIOUS
<1> USE DEF StreamInv
<1> DEFINE entry == [opcode |-> Opcode, payload |-> payload,
                   sound |-> Played(Opcode, payload)]
<1>0. PICK n \in Nat : n = Len(handled)
  BY Facts
<1>1. /\ stage = "handle" /\ handled' = Append(handled, entry) /\ stage' = "header"
      /\ stream' = stream /\ taken' = taken /\ lost' = lost /\ sent' = sent /\ border' = border
      /\ head' = head /\ length' = length /\ mask' = mask /\ payload' = payload
  BY DEF Handles
<1>2. /\ n < Len(sent) /\ Current = sent[n + 1] /\ head = HeadOf(Current)
      /\ Current.final /\ length = Len(Current.payload) /\ length <= Wide
      /\ taken = End(n + 1) /\ payload = Current.payload /\ Current.opcode # Close
  BY <1>0, <1>1 DEF Position, Current
<1>3. IsFrame(Current)
  BY <1>0, <1>2, CurrentAt
<1>4. Opcode = Current.opcode /\ Opcode \in 0 .. High - 1 /\ payload \in Bytes
  <2>1. Opcode = Current.opcode
    BY <1>2, <1>3, HeadShape DEF Opcode
  <2> QED BY <1>2, <1>3, <2>1 DEF IsFrame
<1>5. Played(Opcode, payload) \in Packet \union {Silence}
  <2>1. WellFormed(payload) => View(payload) \in Packet
    BY <1>4, BuildsParsed
  <2> QED BY <2>1 DEF Played
<1>6. /\ entry \in [opcode : 0 .. High - 1, payload : Bytes, sound : Packet \union {Silence}]
      /\ entry = Outcome(sent[n + 1])
  BY <1>2, <1>4, <1>5 DEF Outcome
<1> HIDE DEF entry
<1>7. /\ handled' \in Seq([opcode : 0 .. High - 1, payload : Bytes, sound : Packet \union {Silence}])
      /\ Len(handled') = n + 1 /\ handled'[n + 1] = entry
      /\ \A k \in 1 .. n : handled'[k] = handled[k]
  BY <1>0, <1>1, <1>6, AppendProperties DEF StreamTypeOK
<1>8. StreamTypeOK'
  BY <1>1, <1>7 DEF StreamTypeOK
<1>9. Layout' /\ \A k : End(k)' = End(k)
  BY <1>1, StaysLaidOut
<1>10. Position'
  <2>1. End(Len(handled))' = End(n + 1)
    BY <1>7, <1>9
  <2>2. Len(handled') <= Len(sent') /\ taken' = End(Len(handled))'
    <3>1. Len(sent) \in Nat
      BY Facts
    <3> QED BY <1>1, <1>2, <1>7, <2>1, <3>1
  <2> QED BY <1>1, <2>2 DEF Position
<1>11. History'
  <2>1. ASSUME NEW k \in 1 .. n + 1
        PROVE  /\ Accepted(sent[k])
               /\ handled'[k] = Outcome(sent[k])
    <3>1. CASE k \in 1 .. n
      BY <1>0, <1>7, <3>1 DEF History
    <3>2. CASE k = n + 1
      BY <1>2, <1>6, <1>7, <3>2 DEF Accepted
    <3> QED BY <1>0, <3>1, <3>2
  <2> QED BY <1>1, <1>7, <2>1 DEF History
<1> QED BY <1>8, <1>9, <1>10, <1>11

\* The receiver ends without the connection.
LEMMA StepReadFails == StreamInv /\ ReadFails => StreamInv'
<1> SUFFICES ASSUME StreamInv, ReadFails PROVE StreamInv'
  OBVIOUS
<1>1. /\ lost /\ stage' = "ended" /\ stream' = stream /\ taken' = taken /\ lost' = lost
      /\ sent' = sent /\ border' = border /\ head' = head /\ length' = length /\ mask' = mask
      /\ payload' = payload /\ handled' = handled
  BY DEF ReadFails
<1>2. StreamTypeOK'
  BY <1>1 DEF StreamInv, StreamTypeOK
<1>3. Layout'
  BY <1>1, StaysLaidOut DEF StreamInv
<1>4. Position' /\ History'
  BY <1>1 DEF StreamInv, Position, History
<1> QED BY <1>2, <1>3, <1>4 DEF StreamInv

\* Every step preserves the inductive invariant.
LEMMA StepStreamInv == StreamInv /\ [StreamNext]_streamVars => StreamInv'
<1> SUFFICES ASSUME StreamInv, [StreamNext]_streamVars PROVE StreamInv'
  OBVIOUS
<1>1. CASE Sends
  BY <1>1, StepSends
<1>2. CASE Cut
  BY <1>2, StepCut
<1>3. CASE ReadsHeader
  BY <1>3, StepReadsHeader
<1>4. CASE ReadsLength
  BY <1>4, StepReadsLength
<1>5. CASE ReadsMask
  BY <1>5, StepReadsMask
<1>6. CASE ReadsPayload
  BY <1>6, StepReadsPayload
<1>7. CASE Handles
  BY <1>7, StepHandles
<1>8. CASE ReadFails
  BY <1>8, StepReadFails
<1>9. CASE UNCHANGED streamVars
  BY <1>9 DEF streamVars, frame, StreamInv, StreamTypeOK, Layout, Position, History, End, Current
<1> QED BY <1>1, <1>2, <1>3, <1>4, <1>5, <1>6, <1>7, <1>8, <1>9 DEF StreamNext, Receiver

\* The receiver knows its place in the stream at every moment.
THEOREM StreamInvariant == StreamSpec => []StreamInv
<1>1. StreamInit => StreamInv
  BY InitStreamInv
<1>2. StreamInv /\ [StreamNext]_streamVars => StreamInv'
  BY StepStreamInv
<1> QED BY <1>1, <1>2, PTL DEF StreamSpec

\* The variables keep their types.
THEOREM StreamTypeCorrect == StreamSpec => []StreamTypeOK
<1>1. StreamInv => StreamTypeOK
  BY DEF StreamInv
<1> QED BY <1>1, StreamInvariant, PTL

\* Whatever lengths and masks the frames have and wherever the connection is cut,
\* the receiver never loses the borders of the frames (websocket_client.c:644-753).
THEOREM KeepsInStep == StreamSpec => []InStep
<1>1. StreamInv => InStep
  <2> SUFFICES ASSUME StreamInv PROVE InStep
    OBVIOUS
  <2>1. PICK n \in Nat : n = Len(handled)
    BY Facts DEF StreamInv
  <2>2. /\ n <= Len(sent) /\ DOMAIN handled = 1 .. n /\ Len(sent) \in Nat
    BY <2>1, Facts DEF StreamInv, StreamTypeOK
  <2>3. \A k \in DOMAIN handled : /\ Accepted(sent[k])
                                  /\ handled[k].opcode = sent[k].opcode
                                  /\ handled[k].payload = sent[k].payload
    <3>1. \A k \in 1 .. n : /\ Accepted(sent[k])
                            /\ handled[k] = Outcome(sent[k])
      BY <2>1 DEF StreamInv, History
    <3> QED BY <2>2, <3>1 DEF Outcome
  <2>4. CASE stage \in {"header", "ended"}
    <3>1. n + 0 = n
      OBVIOUS
    <3> QED BY <2>1, <2>2, <2>3, <2>4, <3>1 DEF InStep, StreamInv, Position, Current
  <2>5. CASE stage \in {"length", "mask", "payload", "handle"}
    <3>1. n + 1 <= Len(sent) /\ stage \notin {"header", "ended"}
      BY <2>1, <2>2, <2>5 DEF StreamInv, Position
    <3>2. stage = "handle" => taken = End(n + 1)
      BY <2>1 DEF StreamInv, Position
    <3> QED BY <2>1, <2>3, <2>5, <3>1, <3>2 DEF InStep
  <2> QED BY <2>4, <2>5 DEF StreamInv, StreamTypeOK
<1> QED BY <1>1, StreamInvariant, PTL

\* The loudspeaker gets the packets the server built, whole and in order, and
\* nothing of any other frame (media_packet.c:57-169, cloud_demo.c:222-254).
THEOREM PlaysBuilt == StreamSpec => []OnlyBuiltPackets
<1>1. StreamInv => OnlyBuiltPackets
  <2> SUFFICES ASSUME StreamInv, NEW k \in DOMAIN handled
               PROVE  LET f == sent[k]
                          sound == handled[k].sound
                      IN  /\ f.packet # Silence => sound = f.packet
                          /\ sound # Silence => /\ f.opcode = Binary /\ sound.type = Intercom
                                                /\ [f.payload EXCEPT ![8] = 0] = Build(sound)
    BY DEF OnlyBuiltPackets
  <2>1. k \in 1 .. Len(handled) /\ k \in 1 .. Len(sent) /\ IsFrame(sent[k])
    BY Facts DEF StreamInv, StreamTypeOK
  <2> DEFINE sound == Played(sent[k].opcode, sent[k].payload)
  <2>2. handled[k].sound = sound
    <3>1. handled[k] = Outcome(sent[k])
      BY <2>1 DEF StreamInv, History
    <3> QED BY <3>1 DEF Outcome
  <2>3. ASSUME sent[k].packet # Silence
        PROVE  sound = sent[k].packet
    <3>1. /\ sent[k].packet \in Packet /\ sent[k].packet.type = Intercom
          /\ sent[k].opcode = Binary /\ sent[k].payload = Build(sent[k].packet)
      BY <2>1, <2>3 DEF IsFrame
    <3> QED BY <3>1, ParsesBuilt DEF Played
  <2>4. ASSUME sound # Silence
        PROVE  /\ sent[k].opcode = Binary /\ sound.type = Intercom
               /\ [sent[k].payload EXCEPT ![8] = 0] = Build(sound)
    <3>1. /\ sent[k].opcode = Binary /\ WellFormed(sent[k].payload)
          /\ View(sent[k].payload).type = Intercom /\ sound = View(sent[k].payload)
      BY <2>4 DEF Played
    <3>2. sent[k].payload \in Bytes
      BY <2>1 DEF IsFrame
    <3> QED BY <3>1, <3>2, BuildsParsed
  <2> QED BY <2>2, <2>3, <2>4
<1> QED BY <1>1, StreamInvariant, PTL

\* In each stage the receiver asks for the part of the current frame that is next.
LEMMA AsksForPart ==
    ASSUME StreamInv, stage \in {"length", "mask", "payload"}
    PROVE  /\ Len(handled) < Len(sent) /\ IsFrame(Current)
           /\ stage = "length" => Needed = Len(More(Current))
           /\ stage = "mask" => Needed = Len(KeyOf(Current))
           /\ stage = "payload" => Needed = Len(DataOf(Current))
<1> USE DEF StreamInv
<1>1. Len(handled) < Len(sent) /\ head = HeadOf(Current)
  BY DEF Position
<1>2. IsFrame(Current)
  BY <1>1, CurrentAt
<1>3. head[2] % High = Code(Current) /\ (HasMask <=> HasKey(Current))
  BY <1>1, <1>2, HeadShape DEF HasMask
<1>4. ASSUME stage = "length" PROVE Needed = Len(More(Current))
  <2>1. \/ Code(Current) = Direct + 1 /\ Len(More(Current)) = 2
        \/ Code(Current) = Direct + 2 /\ Len(More(Current)) = 8
        \/ Code(Current) <= Direct /\ Len(More(Current)) = 0
    BY <1>2, FrameShape
  <2>2. Direct + 1 # Direct + 2
    BY BaseFacts
  <2>3. Needed = IF Code(Current) = Direct + 1 THEN 2 ELSE IF Code(Current) = Direct + 2 THEN 8 ELSE 0
    BY <1>3, <1>4, <2>2 DEF Needed, ExtensionBytes
  <2>4. Code(Current) <= Direct => Code(Current) # Direct + 1 /\ Code(Current) # Direct + 2
    <3>1. Code(Current) \in Nat
      BY <1>2, HeadShape, BaseFacts
    <3> QED BY <3>1, BaseFacts
  <2> QED BY <2>1, <2>2, <2>3, <2>4
<1>5. ASSUME stage = "mask" PROVE Needed = Len(KeyOf(Current))
  BY <1>2, <1>3, <1>5, FrameShape DEF Needed
<1>6. ASSUME stage = "payload" PROVE Needed = Len(DataOf(Current))
  <2>1. length = Len(Current.payload)
    BY <1>6 DEF Position
  <2> QED BY <1>2, <1>6, <2>1, FrameShape DEF Needed
<1> QED BY <1>1, <1>2, <1>4, <1>5, <1>6

\* The bytes asked for within a frame.
NeverStarves == ~lost /\ stage \in {"length", "mask", "payload"} => Len(stream) >= taken + Needed

\* On a connection that stays up the receiver never waits within a frame that has
\* been sent: what it asks for belongs to that frame, whatever the length and the
\* mask.  This is the part of ReadsEverything that is no matter of fairness.
THEOREM AsksOnlyForSent == StreamSpec => []NeverStarves
<1>1. StreamInv => NeverStarves
  <2> SUFFICES ASSUME StreamInv, ~lost, stage \in {"length", "mask", "payload"}
               PROVE  Len(stream) >= taken + Needed
    BY DEF NeverStarves
  <2>1. /\ Len(handled) < Len(sent) /\ Len(handled) \in Nat /\ Len(sent) \in Nat
        /\ Len(stream) \in Nat
    BY AsksForPart, Facts DEF StreamInv
  <2>2. End(Len(handled) + 1) <= Len(stream)
    <3>1. Len(handled) + 1 \in 1 .. Len(sent)
      BY <2>1
    <3> QED BY <3>1 DEF StreamInv, Layout
  <2>3. /\ Len(More(Current)) \in Nat /\ Len(KeyOf(Current)) \in Nat /\ Len(DataOf(Current)) \in Nat
        /\ End(Len(handled)) \in Nat
        /\ End(Len(handled) + 1) = End(Len(handled)) + 2 + Len(More(Current)) + Len(KeyOf(Current))
                                      + Len(DataOf(Current))
    BY <2>1, CurrentAt DEF StreamInv
  <2> DEFINE a == End(Len(handled)) + 2
             u == Len(More(Current))
             v == Len(KeyOf(Current))
             w == Len(DataOf(Current))
  <2>4. /\ a \in Nat /\ u \in Nat /\ v \in Nat /\ w \in Nat /\ Len(stream) \in Nat
        /\ a + u + v + w <= Len(stream)
    BY <2>1, <2>2, <2>3
  <2>5. CASE stage = "length"
    <3>1. taken = a /\ Needed = u
      BY <2>5, AsksForPart DEF StreamInv, Position
    <3> HIDE DEF a, u, v, w
    <3> QED BY <2>4, <3>1
  <2>6. CASE stage = "mask"
    <3>1. taken = a + u /\ Needed = v
      BY <2>6, AsksForPart DEF StreamInv, Position
    <3> HIDE DEF a, u, v, w
    <3> QED BY <2>4, <3>1
  <2>7. CASE stage = "payload"
    <3>1. taken = a + u + v /\ Needed = w
      BY <2>7, AsksForPart DEF StreamInv, Position
    <3> HIDE DEF a, u, v, w
    <3> QED BY <2>4, <3>1
  <2> QED BY <2>5, <2>6, <2>7
<1> QED BY <1>1, StreamInvariant, PTL

------------------------------------------------------------------------------
(* The receiver implements a channel of whole frames.                       *)

\* What is handled is the current frame, one the device accepts.
LEMMA HandlesCurrent ==
    ASSUME StreamInv, Handles
    PROVE  /\ Len(handled) < Len(sent) /\ Accepted(Current)
           /\ handled' = Append(handled, Outcome(Current)) /\ sent' = sent
<1>1. /\ stage = "handle" /\ sent' = sent
      /\ handled' = Append(handled, [opcode |-> Opcode, payload |-> payload,
                                     sound |-> Played(Opcode, payload)])
  BY DEF Handles
<1>2. /\ Len(handled) < Len(sent) /\ head = HeadOf(Current) /\ Current.final
      /\ length = Len(Current.payload) /\ length <= Wide
      /\ payload = Current.payload /\ Current.opcode # Close
  BY <1>1 DEF StreamInv, Position
<1>3. IsFrame(Current)
  BY <1>2, CurrentAt DEF StreamInv
<1>4. Opcode = Current.opcode
  BY <1>2, <1>3, HeadShape DEF Opcode
<1> QED BY <1>1, <1>2, <1>4 DEF Accepted, Outcome

\* Sending a frame and handling one are the channel's steps, every other is a stutter.
LEMMA ChannelStep == StreamInv /\ [StreamNext]_streamVars => [Channel!Next]_(Channel!channel)
<1> SUFFICES ASSUME StreamInv, [StreamNext]_streamVars PROVE [Channel!Next]_(Channel!channel)
  OBVIOUS
<1> USE DEF Channel!Next, Channel!Send, Channel!Deliver, Channel!channel
<1>1. CASE Sends
  BY <1>1 DEF Sends, frame
<1>2. CASE Handles
  BY <1>2, HandlesCurrent DEF Current
<1>3. CASE UNCHANGED <<sent, handled>>
  BY <1>3
<1>4. CASE Cut \/ ReadsHeader \/ ReadsLength \/ ReadsMask \/ ReadsPayload \/ ReadFails
  BY <1>3, <1>4 DEF Cut, ReadsHeader, ReadsLength, ReadsMask, ReadsPayload, ReadFails, ReadAll, frame
<1>5. CASE UNCHANGED streamVars
  BY <1>3, <1>5 DEF streamVars, frame
<1> QED BY <1>1, <1>2, <1>4, <1>5 DEF StreamNext, Receiver

\* Through any split of the stream into reads and wherever it is cut, frames come out
\* one by one, in order and as they were sent (websocket_client.c:644-753).
THEOREM ImplementsChannel == StreamSpec => ChannelSpec
<1>1. StreamInit => Channel!Init
  BY DEF StreamInit, Channel!Init
<1> QED BY <1>1, StreamInvariant, ChannelStep, PTL DEF StreamSpec, ChannelSpec, Channel!Spec
==============================================================================
