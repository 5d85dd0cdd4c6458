-------------------------- MODULE DesiredConfigProofs --------------------------
(***************************************************************************)
(* Proofs about DesiredConfig, for every bound on the revisions.           *)
(***************************************************************************)
EXTENDS DesiredConfig, TLAPS

\* Where process_desired stands fixes how the copies relate: up to the rename
\* memory and file agree, after it the file is one accepted revision ahead.
Progress ==
    /\ step \notin {"down", "committing"} => memory = file
    /\ memory <= file
    /\ step \in {"stopping", "starting", "saving", "restoring", "restarting"} => current.revision > file
    /\ step = "committing" => current.revision = file

\* main.c, the cloud client and the camera move together.  They are at the file until
\* the new parameters have started, and at those until the previous ones are restored;
\* where the restoring start was refused they stay ahead of the file.
CopiesMove ==
    /\ app = camera /\ cloud = camera /\ file <= camera
    /\ step \in {"idle", "checking", "stopping", "starting"} => camera = file \/ unrestored
    /\ step \in {"saving", "committing", "restoring", "restarting"} => camera = current.revision
    /\ step = "down" => ~on

IInv == TypeOK /\ Progress /\ CopiesMove /\ DurableBeforeApplied

------------------------------------------------------------------------------
\* The fields of a message are natural numbers.
LEMMA MessageFields == ASSUME NEW m \in Message PROVE m.revision \in Nat /\ m.base \in Nat
  BY RevisionAssumption DEF Message

\* A report that is published, or lost, is a report, and what it confirms is
\* covered by the file when the revision is.
LEMMA PublishKeeps ==
    ASSUME reported \in Report, confirmed \in Nat, DurableBeforeApplied,
           NEW r \in Nat, NEW s \in {"applied", "rolled_back"},
           file \in Nat, file' \in Nat, file <= file',
           r <= file', PublishReported(r, s)
    PROVE  reported' \in Report /\ confirmed' \in Nat /\ DurableBeforeApplied'
  BY DEF PublishReported, Report, DurableBeforeApplied

\* An answer, carried or lost, keeps them too.
LEMMA AnswerKeeps ==
    ASSUME reported \in Report, confirmed \in Nat, DurableBeforeApplied,
           NEW r \in Nat, NEW s \in {"applied", "rolled_back"},
           file \in Nat, file' \in Nat, file <= file',
           r <= file', Answer(r, s)
    PROVE  /\ reported' \in Report /\ confirmed' \in Nat /\ DurableBeforeApplied'
           /\ session' \in BOOLEAN /\ answered' \in BOOLEAN
  <1>1. PublishReported(r, s) /\ PublishResult
    BY DEF Answer
  <1>2. session' \in BOOLEAN /\ answered' \in BOOLEAN
    BY <1>1, Zenon DEF PublishResult
  <1> QED
    BY <1>1, <1>2, PublishKeeps

\* The camera, main.c and the cloud at given parameters.
LEMMA CameraRunsTypes ==
    ASSUME NEW r \in Nat, CameraRuns(r)
    PROVE  /\ on' \in BOOLEAN /\ unrestored' \in BOOLEAN
           /\ camera' = r /\ app' = r /\ cloud' = r
  <1>1. on' \in BOOLEAN /\ unrestored' \in BOOLEAN
    BY Zenon DEF CameraRuns
  <1> QED
    BY <1>1 DEF CameraRuns

\* The invariant holds before the first start.
LEMMA InitInvariant == Init => IInv
  <1> SUFFICES ASSUME Init PROVE IInv
    OBVIOUS
  <1>1. TypeOK
    <2>1. current \in Message
      BY RevisionAssumption DEF Init, Message
    <2>2. on \in BOOLEAN /\ unrestored \in BOOLEAN /\ session \in BOOLEAN /\ answered \in BOOLEAN
      BY Zenon DEF Init
    <2> QED
      BY <2>1, <2>2 DEF Init, TypeOK, Report
  <1>2. Progress /\ CopiesMove /\ DurableBeforeApplied
    BY DEF Init, Progress, CopiesMove, DurableBeforeApplied
  <1> QED
    BY <1>1, <1>2 DEF IInv

\* Every step, a crash and a restart included, preserves the invariant.
LEMMA NextInvariant == IInv /\ [Next]_vars => IInv'
  <1> SUFFICES ASSUME IInv, [Next]_vars PROVE IInv'
    OBVIOUS
  <1>0. /\ slot \subseteq Message /\ current \in Message
        /\ current.revision \in Nat /\ current.base \in Nat
        /\ memory \in Nat /\ file \in Nat /\ camera \in Nat /\ app \in Nat /\ cloud \in Nat
        /\ reported \in Report /\ confirmed \in Nat
    BY MessageFields DEF IInv, TypeOK
  <1> USE DEF IInv, TypeOK, Progress, CopiesMove, media, dialogue
  <1>1. CASE ProcessStarts
    <2>1. on' \in BOOLEAN /\ unrestored' \in BOOLEAN
      BY <1>1, Zenon DEF ProcessStarts
    <2> QED
      BY <1>0, <1>1, <2>1 DEF ProcessStarts, PublishNothing, DurableBeforeApplied
  <1>2. CASE Crash
    BY <1>0, <1>2 DEF Crash, PublishNothing, DurableBeforeApplied
  <1>3. CASE SessionStarts
    BY <1>0, <1>3, PublishKeeps DEF SessionStarts
  <1>4. ASSUME NEW m \in Message, MessageArrived(m) PROVE IInv'
    BY <1>0, <1>4 DEF MessageArrived, PublishNothing, DurableBeforeApplied
  <1>5. CASE TakeDesired
    BY <1>0, <1>5 DEF TakeDesired, PublishNothing, DurableBeforeApplied
  <1>6. CASE RefuseDesired
    <2>1. session' \in BOOLEAN /\ answered' \in BOOLEAN
      BY <1>6, Zenon DEF RefuseDesired, PublishResult
    <2> QED
      BY <1>0, <1>6, <2>1 DEF RefuseDesired, DurableBeforeApplied
  <1>7. CASE ConfirmDuplicate
    BY <1>0, <1>7, AnswerKeeps DEF ConfirmDuplicate
  <1>8. CASE AcceptDesired
    BY <1>0, <1>8 DEF AcceptDesired, Acceptable, PublishNothing, DurableBeforeApplied
  <1>9. CASE StopCamera
    BY <1>0, <1>9 DEF StopCamera, PublishNothing, DurableBeforeApplied
  <1>10. CASE StartCamera
    BY <1>0, <1>10, CameraRunsTypes DEF StartCamera, PublishNothing, DurableBeforeApplied
  <1>11. CASE StartCameraFails
    BY <1>0, <1>11, AnswerKeeps DEF StartCameraFails
  <1>12. CASE SaveState
    <2>1. TypeOK' /\ Progress' /\ CopiesMove'
      BY <1>0, <1>12 DEF SaveState, PublishNothing
    <2>2. reported.status = "applied" => reported.revision \in Nat
      BY <1>0 DEF Report
    <2>3. DurableBeforeApplied'
      BY <1>0, <1>12, <2>2 DEF SaveState, PublishNothing, DurableBeforeApplied
    <2> QED
      BY <2>1, <2>3
  <1>13. CASE SaveFails
    BY <1>0, <1>13 DEF SaveFails, PublishNothing, DurableBeforeApplied
  <1>14. CASE RestoreCamera
    <2>1. Answer(memory, "rolled_back") /\ UNCHANGED <<slot, current, memory, file>> /\ step' = "idle"
      BY <1>14 DEF RestoreCamera
    <2>2. /\ reported' \in Report /\ confirmed' \in Nat /\ DurableBeforeApplied'
          /\ session' \in BOOLEAN /\ answered' \in BOOLEAN
      BY <1>0, <1>14, <2>1, AnswerKeeps DEF RestoreCamera
    <2>3. CASE CameraRuns(memory)
      BY <1>0, <1>14, <2>1, <2>2, <2>3, CameraRunsTypes DEF RestoreCamera
    <2>4. CASE unrestored' = TRUE /\ UNCHANGED <<camera, on, app, cloud>>
      <3>1. unrestored' \in BOOLEAN
        BY <2>4, Zenon
      <3> QED
        BY <1>0, <1>14, <2>1, <2>2, <2>4, <3>1 DEF RestoreCamera
    <2> QED
      BY <1>14, <2>3, <2>4 DEF RestoreCamera
  <1>15. CASE CommitDesired
    BY <1>0, <1>15, AnswerKeeps DEF CommitDesired
  <1>16. CASE SessionEnds
    <2>1. session' \in BOOLEAN
      BY <1>16, Zenon DEF SessionEnds
    <2> QED
      BY <1>0, <1>16, <2>1 DEF SessionEnds, DurableBeforeApplied
  <1>17. CASE UNCHANGED vars
    BY <1>0, <1>17 DEF vars, DurableBeforeApplied
  <1> QED
    BY <1>1, <1>2, <1>3, <1>4, <1>5, <1>6, <1>7, <1>8, <1>9, <1>10, <1>11, <1>12, <1>13, <1>14, <1>15, <1>16, <1>17
       DEF Next, Process

\* The inductive invariant holds in every reachable state.
THEOREM Invariant == Spec => []IInv
  BY InitInvariant, NextInvariant, PTL DEF Spec

------------------------------------------------------------------------------
\* Every variable keeps its type.
THEOREM TypeCorrect == Spec => []TypeOK
  <1>1. IInv => TypeOK
    BY DEF IInv
  <1> QED
    BY <1>1, Invariant, PTL

\* File, memory, main.c, cloud and camera agree between two messages
\* (mqtt_demo.c:561-590, main.c:57-73).
THEOREM CopiesAgree == Spec => []Agreement
  <1>1. IInv => Agreement
    BY DEF IInv, Progress, CopiesMove, Agreement
  <1> QED
    BY <1>1, Invariant, PTL

\* What was confirmed as applied survives every crash of the process
\* (mqtt_demo.c:573-589).
THEOREM ConfirmedIsDurable == Spec => []DurableBeforeApplied
  <1>1. IInv => DurableBeforeApplied
    BY DEF IInv
  <1> QED
    BY <1>1, Invariant, PTL

\* The camera never runs with parameters older than the committed ones.
THEOREM NoStaleCamera == Spec => []NeverStale
  <1>1. IInv => NeverStale
    BY DEF IInv, CopiesMove, NeverStale
  <1> QED
    BY <1>1, Invariant, PTL

\* What a step does to file and memory, and with which file it confirms.
LEMMA StepFacts == IInv /\ [Next]_vars => /\ memory' >= memory /\ file' >= file
                                          /\ file' = file \/ (file' > file /\ confirmed' = confirmed)
                                          /\ confirmed' = confirmed \/ (confirmed' = file /\ file' = file)
                                          /\ file' \in Nat
  <1> SUFFICES ASSUME IInv, [Next]_vars
               PROVE  /\ memory' >= memory /\ file' >= file
                      /\ file' = file \/ (file' > file /\ confirmed' = confirmed)
                      /\ confirmed' = confirmed \/ (confirmed' = file /\ file' = file)
                      /\ file' \in Nat
    OBVIOUS
  <1>0. /\ memory \in Nat /\ file \in Nat /\ confirmed \in Nat /\ memory <= file
        /\ current.revision \in Nat
        /\ step = "idle" \/ step = "checking" => memory = file
        /\ step = "saving" => current.revision > file
        /\ step = "committing" => current.revision = file
    BY MessageFields DEF IInv, TypeOK, Progress
  <1>1. CASE ProcessStarts \/ Crash \/ SessionEnds \/ RefuseDesired \/ \E m \in Message : MessageArrived(m)
    BY <1>0, <1>1 DEF ProcessStarts, Crash, SessionEnds, RefuseDesired, MessageArrived, PublishNothing, dialogue
  <1>2. CASE SessionStarts \/ ConfirmDuplicate \/ CommitDesired
    BY <1>0, <1>2 DEF SessionStarts, ConfirmDuplicate, CommitDesired, Answer, PublishReported
  <1>3. CASE StartCameraFails \/ RestoreCamera
    BY <1>0, <1>3 DEF StartCameraFails, RestoreCamera, Answer, PublishReported
  <1>4. CASE TakeDesired \/ AcceptDesired \/ StopCamera \/ StartCamera \/ SaveFails
    <2>1. memory' = memory /\ file' = file /\ confirmed' = confirmed
      <3>1. CASE TakeDesired
        BY <3>1 DEF TakeDesired, PublishNothing, dialogue
      <3>2. CASE AcceptDesired
        BY <3>2 DEF AcceptDesired, PublishNothing, dialogue
      <3>3. CASE StopCamera
        BY <3>3, Zenon DEF StopCamera, PublishNothing, dialogue
      <3>4. CASE StartCamera \/ SaveFails
        BY <3>4 DEF StartCamera, SaveFails, PublishNothing, dialogue
      <3> QED
        BY <1>4, <3>1, <3>2, <3>3, <3>4
    <2> QED
      BY <1>0, <2>1
  <1>5. CASE SaveState
    BY <1>0, <1>5 DEF SaveState, PublishNothing, dialogue
  <1>6. CASE UNCHANGED vars
    BY <1>0, <1>6 DEF vars, dialogue
  <1> QED
    BY <1>1, <1>2, <1>3, <1>4, <1>5, <1>6 DEF Next, Process

\* Revisions only grow, across late messages, failed saves, crashes and restarts
\* (mqtt_demo.c:539-544, config.c:71-147).
THEOREM RevisionsGrow == Spec => MonotonicRevision
  <1>1. IInv /\ [Next]_vars => [memory' >= memory /\ file' >= file]_vars
    BY StepFacts
  <1> QED
    BY <1>1, Invariant, PTL DEF Spec, MonotonicRevision

\* The handler, its crashes and its restarts implement the revision register:
\* the file commits, and only the committed revision is confirmed.
THEOREM ImplementsRegister == Spec => RegisterSpec
  <1>1. Init => Register!Init
    BY DEF Init, Register!Init
  <1>2. IInv /\ [Next]_vars => [Register!Next]_(Register!register)
    BY StepFacts DEF Register!Next, Register!Commit, Register!Confirm, Register!register
  <1> QED
    BY <1>1, <1>2, Invariant, PTL DEF Spec, RegisterSpec, Register!Spec

===============================================================================
