-------------------------- MODULE MqttSessionProofs --------------------------
(***************************************************************************)
(* Proofs about MqttSession, for every bound on commands and faults.       *)
(***************************************************************************)
EXTENDS MqttSession, TLAPS

\* Between a failed report and the flush of the next session the connection is
\* given up, so that no action is carried out while a result is kept.
Accounting ==
    /\ ResultAccounted
    /\ deferred # 0 => deferred = executed
    /\ pc \in {"announce", "config", "desired", "wifi", "answer", "report"} => deferred = 0
    /\ pc \in {"serve", "state", "leave"} /\ deferred # 0 => ~connected

\* A connection the broker knows is covered by a will, and a connection that is
\* ended while it lives was abandoned, or carried the goodbye.
WillCovers ==
    /\ wire # "down" => will
    /\ wire = "up" /\ ~connected => abandoned
    /\ pc = "leave" /\ connected /\ wire = "up" => ~running \/ abandoned
    /\ pc = "bye" /\ connected /\ wire = "up" => presence = "offline" \/ abandoned
    /\ pc \in {"new", "idle", "done"} => ~connected /\ wire # "up"

IInv == TypeOK /\ Accounting /\ WillCovers /\ OnlineWhileServing /\ OfflineUnlessAbandoned

------------------------------------------------------------------------------
\* A failure over a live connection abandons it.
LEMMA LapseEffect ==
    ASSUME TypeOK, Lapse
    PROVE  /\ wire' = wire /\ cuts' = cuts /\ lapses' \in Nat
           /\ abandoned' \in BOOLEAN /\ (abandoned => abandoned')
           /\ connected /\ wire = "up" => abandoned'
  <1>1. abandoned' \in BOOLEAN /\ (abandoned => abandoned') /\ (connected /\ wire = "up" => abandoned')
    BY Zenon DEF Lapse
  <1> QED
    BY <1>1 DEF Lapse, TypeOK

\* What a publication can do to the state, whatever its content.
LEMMA PublishEffect ==
    ASSUME NEW p, NEW r, NEW ok \in BOOLEAN, TypeOK, Publish(p, r, ok)
    PROVE  /\ will' = will /\ queue' = queue /\ issued' = issued
           /\ cuts' \in Nat /\ lapses' \in Nat
           /\ abandoned' \in BOOLEAN /\ (abandoned => abandoned')
           /\ connected' \in BOOLEAN
           /\ wire' = wire \/ (wire = "up" /\ wire' = "cut")
           /\ ok => /\ connected /\ connected' /\ wire = "up" /\ wire' = "up"
                    /\ presence' = p /\ received' = r
           /\ ~ok => /\ ~connected'
                     /\ \/ wire = "up" /\ presence' = p /\ received' = r
                        \/ presence' = presence /\ received' = received
                     /\ wire' = "up" /\ connected => abandoned'
  <1> DEFINE Effect == /\ cuts' \in Nat /\ lapses' \in Nat
                       /\ abandoned' \in BOOLEAN /\ (abandoned => abandoned')
                       /\ wire' = wire \/ (wire = "up" /\ wire' = "cut")
  <1>1. connected' \in BOOLEAN
    <2>1. CASE Acknowledged
      BY <2>1, Zenon DEF Acknowledged, TypeOK
    <2>2. ASSUME NEW reached \in BOOLEAN, Failed(reached) PROVE connected' \in BOOLEAN
      BY <2>2, Zenon DEF Failed
    <2> QED
      BY <2>1, <2>2 DEF Publish
  <1>2. ASSUME NEW reached \in BOOLEAN, Failed(reached)
        PROVE  /\ Effect /\ ~connected'
               /\ reached => wire = "up"
               /\ wire' = "up" /\ connected => abandoned'
    <2>1. CASE /\ ~connected \/ wire # "up"
               /\ ~reached
               /\ UNCHANGED faults
      BY <1>2, <2>1 DEF Failed, faults, TypeOK
    <2>2. CASE connected /\ wire = "up" /\ Lapse
      BY <1>2, <2>2, LapseEffect DEF Failed, TypeOK
    <2>3. CASE /\ connected /\ wire = "up" /\ reached
               /\ cuts' = cuts + 1 /\ wire' = "cut"
               /\ UNCHANGED <<abandoned, lapses>>
      BY <1>2, <2>3 DEF Failed, TypeOK
    <2> QED
      BY <1>2, <2>1, <2>2, <2>3 DEF Failed
  <1>3. CASE ok /\ Acknowledged /\ presence' = p /\ received' = r
    BY <1>1, <1>3 DEF Publish, Acknowledged, faults, TypeOK
  <1>4. CASE ~ok /\ Failed(TRUE) /\ presence' = p /\ received' = r
    BY <1>1, <1>2, <1>4 DEF Publish
  <1>5. CASE ~ok /\ Failed(FALSE) /\ UNCHANGED <<presence, received>>
    BY <1>1, <1>2, <1>5 DEF Publish
  <1> QED
    BY <1>3, <1>4, <1>5 DEF Publish

\* A message that cannot be built changes nothing but what is thought of the connection.
LEMMA NotBuiltEffect ==
    ASSUME TypeOK, NotBuilt
    PROVE  /\ UNCHANGED <<connected, wire, presence, will, queue, received, issued, cuts>>
           /\ lapses' \in Nat /\ abandoned' \in BOOLEAN /\ (abandoned => abandoned')
           /\ connected /\ wire = "up" => abandoned'
  BY LapseEffect DEF NotBuilt, broker

\* The initial state satisfies the inductive invariant.
LEMMA InitInvariant == Init => IInv
  <1> SUFFICES ASSUME Init PROVE IInv
    OBVIOUS
  <1>1. /\ running \in BOOLEAN /\ connected \in BOOLEAN /\ will \in BOOLEAN
        /\ stalled \in BOOLEAN /\ abandoned \in BOOLEAN
    BY Zenon DEF Init
  <1> QED
    BY <1>1 DEF Init, IInv, TypeOK, Command, Waiting, Accounting, ResultAccounted, WillCovers,
                OnlineWhileServing, OfflineUnlessAbandoned

\* Every step preserves the invariant.
LEMMA NextInvariant == IInv /\ [Next]_vars => IInv'
  <1> SUFFICES ASSUME IInv, [Next]_vars PROVE IInv'
    OBVIOUS
  <1>0. TypeOK
    BY DEF IInv
  <1> USE DEF IInv, TypeOK, Waiting, Command, Accounting, ResultAccounted, WillCovers,
              OnlineWhileServing, OfflineUnlessAbandoned, thread, device, broker, faults, Goto
  <1>1. CASE Connect
    <2>1. connected' \in BOOLEAN /\ will' \in BOOLEAN /\ abandoned' \in BOOLEAN
      BY <1>1, Zenon DEF Connect
    <2> QED
      BY <1>1, <2>1 DEF Connect
  <1>2. CASE ConnectFails
    <2>1. will' \in BOOLEAN /\ abandoned' \in BOOLEAN
      BY <1>2, Zenon DEF ConnectFails, IInv, TypeOK
    <2> QED
      BY <1>2, <2>1 DEF ConnectFails, NextDelay
  <1>3. CASE Subscribe
    BY <1>0, <1>3, PublishEffect DEF Subscribe, PublishOther
  <1>4. CASE PublishPresence
    BY <1>0, <1>4, PublishEffect, NotBuiltEffect DEF PublishPresence
  <1>5. CASE FlushDeferred
    BY <1>0, <1>5, PublishEffect DEF FlushDeferred
  <1>6. CASE Announce
    BY <1>0, <1>6, PublishEffect, NotBuiltEffect DEF Announce, PublishOther
  <1>7. CASE ReportConfig
    BY <1>0, <1>7, PublishEffect DEF ReportConfig, PublishOther
  <1>8. CASE LeaveLoop
    BY <1>8 DEF LeaveLoop
  <1>9. CASE Yield
    <2>1. CASE UNCHANGED <<connected, broker, faults>> /\ Goto("desired")
      BY <1>9, <2>1 DEF Yield
    <2>2. CASE PublishOther(FALSE) /\ Goto("leave")
      <3>1. PICK ok \in BOOLEAN : ~ok /\ Publish(presence, received, ok)
        BY <2>2, Zenon DEF PublishOther
      <3>2. /\ ~connected' /\ connected' \in BOOLEAN
            /\ will' = will /\ queue' = queue /\ issued' = issued
            /\ cuts' \in Nat /\ lapses' \in Nat
            /\ abandoned' \in BOOLEAN /\ (abandoned => abandoned')
            /\ wire' = wire \/ (wire = "up" /\ wire' = "cut")
            /\ presence' = presence /\ received' = received
            /\ wire' = "up" /\ connected => abandoned'
        BY <1>0, <3>1, PublishEffect
      <3> QED
        BY <1>9, <2>2, <3>2 DEF Yield
    <2> QED
      BY <1>9, <2>1, <2>2 DEF Yield
  <1>10. CASE ProcessDesired
    BY <1>0, <1>10, PublishEffect DEF ProcessDesired, PublishOther
  <1>11. CASE NoCommand
    BY <1>11 DEF NoCommand
  <1>12. CASE TakeQuery
    BY <1>12 DEF TakeQuery
  <1>13. CASE Answer
    BY <1>0, <1>13, PublishEffect DEF Answer, PublishOther
  <1>14. CASE TakeAction
    BY <1>14 DEF TakeAction
  <1>15. CASE ReportAction
    BY <1>0, <1>15, PublishEffect DEF ReportAction
  <1>16. CASE PublishState
    BY <1>0, <1>16, PublishEffect, NotBuiltEffect DEF PublishState, PublishOther
  <1>17. CASE Leave
    BY <1>17 DEF Leave
  <1>18. CASE PublishOffline
    BY <1>0, <1>18, PublishEffect, NotBuiltEffect DEF PublishOffline
  <1>19. CASE Disconnect
    <2>1. connected' \in BOOLEAN /\ will' \in BOOLEAN
      BY <1>19, Zenon DEF Disconnect
    <2>2. /\ wire' # "up" /\ ~connected'
          /\ wire' # "down" => wire' = wire /\ will' = will
          /\ pc' \in {"idle", "done"} /\ delay' \in {1, 2, 4}
      BY <1>19 DEF Disconnect, NextDelay
    <2>3. ~abandoned' /\ wire' = "down" => presence' = "offline"
      BY <1>19 DEF Disconnect
    <2> QED
      BY <1>19, <2>1, <2>2, <2>3, ZenonT(30) DEF Disconnect
  <1>20. CASE ThreadEnds
    BY <1>20 DEF ThreadEnds
  <1>21. CASE Start
    <2>1. running' \in BOOLEAN
      BY <1>21, Zenon DEF Start
    <2> QED
      BY <1>21, <2>1 DEF Start
  <1>22. CASE Stop
    <2>1. running' \in BOOLEAN
      BY <1>22, Zenon DEF Stop
    <2> QED
      BY <1>22, <2>1 DEF Stop
  <1>23. ASSUME NEW c \in Command, Issue(c) PROVE IInv'
    BY <1>23 DEF Issue
  <1>24. CASE MessageArrived
    <2>1. slot' \in Command \union {"none"} /\ queue' \in Seq(Command)
      BY <1>24 DEF MessageArrived
    <2> QED
      BY <1>24, <2>1 DEF MessageArrived
  <1>25. CASE Cut
    BY <1>25 DEF Cut
  <1>26. CASE Stall
    <2>1. stalled' \in BOOLEAN
      BY <1>26, Zenon DEF Stall
    <2> QED
      BY <1>26, <2>1 DEF Stall
  <1>27. CASE StallEnds
    <2>1. stalled' \in BOOLEAN
      BY <1>27, Zenon DEF StallEnds
    <2> QED
      BY <1>27, <2>1 DEF StallEnds
  <1>28. CASE BrokerNotices
    <2>1. will' \in BOOLEAN
      BY <1>28, Zenon DEF BrokerNotices
    <2> QED
      BY <1>28, <2>1 DEF BrokerNotices
  <1>29. CASE UNCHANGED vars
    BY <1>29 DEF vars
  <1> QED
    BY <1>1, <1>2, <1>3, <1>4, <1>5, <1>6, <1>7, <1>8, <1>9, <1>10, <1>11, <1>12, <1>13, <1>14,
       <1>15, <1>16, <1>17, <1>18, <1>19, <1>20, <1>21, <1>22, <1>23, <1>24, <1>25, <1>26, <1>27,
       <1>28, <1>29
       DEF Next, ThreadStep

\* The inductive invariant of the MQTT thread.
THEOREM Invariant == Spec => []IInv
  <1>1. Init => IInv
    BY InitInvariant
  <1>2. IInv /\ [Next]_vars => IInv'
    BY NextInvariant
  <1> QED
    BY <1>1, <1>2, PTL DEF Spec

------------------------------------------------------------------------------
\* Every variable of the session keeps its type.
THEOREM TypeCorrect == Spec => []TypeOK
  BY Invariant, PTL DEF IInv

\* No result of a Wi-Fi action is lost or overwritten while the thread lives, except
\* those of mute actions, which have none.
THEOREM ResultsKept == Spec => []ResultAccounted
  <1>1. IInv => ResultAccounted
    BY DEF IInv, Accounting
  <1> QED
    BY <1>1, Invariant, PTL

\* A serving session shows the device as online.
THEOREM PresenceOnline == Spec => []OnlineWhileServing
  BY Invariant, PTL DEF IInv

\* The device is left online only by a connection it gave up itself while it lived.
THEOREM PresenceOffline == Spec => []OfflineUnlessAbandoned
  BY Invariant, PTL DEF IInv

\* The broker sees the results in the order of the actions.
THEOREM ResultOrder == Spec => ResultsInOrder
  <1>1. IInv /\ [Next]_vars => [received' \in {received, received + 1}]_vars
    <2> SUFFICES ASSUME IInv, [Next]_vars PROVE received' \in {received, received + 1}
      OBVIOUS
    <2>0. TypeOK /\ Accounting /\ received \in Nat /\ executed \in Nat
      BY DEF IInv, TypeOK
    <2> USE DEF device, broker, faults
    <2>1. CASE FlushDeferred
      BY <2>0, <2>1, PublishEffect DEF FlushDeferred, Accounting, ResultAccounted, TypeOK
    <2>2. CASE ReportAction
      BY <2>0, <2>2, PublishEffect DEF ReportAction, Accounting, ResultAccounted, TypeOK
    <2>3. CASE Subscribe \/ PublishPresence \/ Announce \/ ReportConfig \/ Yield \/ ProcessDesired
               \/ Answer \/ PublishState \/ PublishOffline
      BY <2>0, <2>3, PublishEffect, NotBuiltEffect DEF Subscribe, PublishPresence, Announce, ReportConfig, Yield,
         ProcessDesired, Answer, PublishState, PublishOffline, PublishOther
    <2>4. CASE \/ Connect \/ ConnectFails \/ LeaveLoop \/ NoCommand \/ TakeQuery \/ TakeAction
               \/ Leave \/ Disconnect \/ ThreadEnds \/ Start \/ Stop \/ MessageArrived \/ Cut
               \/ Stall \/ StallEnds \/ BrokerNotices \/ (\E c \in Command : Issue(c)) \/ UNCHANGED vars
      BY <2>0, <2>4 DEF Connect, ConnectFails, LeaveLoop, NoCommand, TakeQuery, TakeAction, Leave,
         Disconnect, ThreadEnds, Start, Stop, MessageArrived, Cut, Stall, StallEnds, BrokerNotices,
         Issue, vars
    <2> QED
      BY <2>1, <2>2, <2>3, <2>4 DEF Next, ThreadStep
  <1> QED
    BY <1>1, Invariant, PTL DEF Spec, ResultsInOrder
==============================================================================
