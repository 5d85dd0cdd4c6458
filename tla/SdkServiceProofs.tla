-------------------------- MODULE SdkServiceProofs --------------------------
(***************************************************************************)
(* Proofs about SdkService, for any number of supervisors and commands, as *)
(* long as one command is carried out at a time.  The core is SoleInv:     *)
(* whatever the time-outs, the supervisor that lives is the one the PID    *)
(* file names, or the one the start in progress has just spawned.          *)
(***************************************************************************)
EXTENDS SdkService, FiniteSetTheorems, TLAPS

\* Commands are given one at a time: one invocation of the script.
OneAtATime == \E s : Script = {s}

Live(i) == sup[i] \notin {"unborn", "gone"}

\* How far a start or a stop relies on there being no supervisor.
SoleInv ==
    \A s \in Script :
        /\ script[s] = "start_write" => /\ spawned[s] \in Sup /\ sup[spawned[s]] # "unborn"
                                        /\ \A i \in Sup : Live(i) => i = spawned[s]
        /\ script[s] \in {"start_spawn", "start_write"} => supFile = NoPid
        /\ script[s] \in {"start_flag", "start_clean", "start_spawn", "stop_clean"} =>
               \A i \in Sup : ~Live(i)
        /\ script[s] # "start_write" => \A i \in Sup : Live(i) => supFile = i

\* A service is started by its supervisor, which waits for it to end.
ServiceInv ==
    \A i \in Sup :
        /\ sup[i] \in {"unborn", "boot", "trapped", "test", "launch"} => service[i] = "none"
        /\ sup[i] = "forked" => service[i] # "none"
        /\ Alive(i) => sup[i] \in {"forked", "wait"}
        /\ i \in crashed => service[i] # "none"

\* A stop file is of this supervisor, and a crash it does not take for a stop is
\* flagged before it cleans up.
FlagInv ==
    \A i \in Sup :
        /\ sup[i] \in {"test", "launch", "forked", "wait", "after"} /\ stopFile => stopReq[i]
        /\ i \in crashed /\ sup[i] \in {"cleanup", "exit", "gone"} /\ ~stopReq[i] => rebootFile

\* Nothing that would launch a service is under way once the flag is written.
RebootInv ==
    rebootFile => /\ \A i \in Sup : sup[i] \notin {"boot", "trapped", "test", "launch"}
                  /\ \A s \in Script : script[s] \notin {"start_clean", "start_spawn"}

IInv == TypeOK /\ SoleInv /\ ServiceInv /\ FlagInv /\ RebootInv

\* Supervisors are positive numbers; NoPid is none of them.
LEMMA SupNat == Sup \subseteq Nat /\ NoPid \notin Sup
  BY ServiceAssumption DEF Sup, NoPid

\* The initial state satisfies the inductive invariant.
LEMMA InitIInv == Init => IInv
<1> SUFFICES ASSUME Init PROVE IInv
  OBVIOUS
<1>1. TypeOK
  <2>2. script \in [Script -> {"idle", "start", "start_flag", "start_clean", "start_spawn",
                               "start_write", "start_wait", "stop", "stop_wait", "stop_clean"}]
    BY DEF Init
  <2>3. sup \in [Sup -> {"unborn", "boot", "trapped", "test", "launch", "forked", "wait",
                         "after", "flag", "cleanup", "exit", "gone"}]
    BY DEF Init
  <2>4. service \in [Sup -> {"none", "running", "stopping", "ended"}]
    BY DEF Init
  <2>5. commands \in 0 .. MaxCommands
    BY ServiceAssumption DEF Init
  <2> QED BY <2>2, <2>3, <2>4, <2>5 DEF Init, TypeOK
<1>2. SoleInv /\ ServiceInv /\ FlagInv /\ RebootInv
  BY DEF Init, SoleInv, ServiceInv, FlagInv, RebootInv, Live, Alive
<1> QED BY <1>1, <1>2 DEF IInv

\* Under one command at a time at most one supervisor lives.
LEMMA SoleSupervisor ==
  ASSUME OneAtATime, SoleInv, NEW i \in Sup, NEW j \in Sup, Live(i), Live(j)
  PROVE  i = j
<1> PICK s : Script = {s} BY DEF OneAtATime
<1> QED BY DEF SoleInv

\* Every step preserves the inductive invariant.
LEMMA StepIInv == ASSUME OneAtATime PROVE IInv /\ [Next]_vars => IInv'
<1> SUFFICES ASSUME IInv, [Next]_vars PROVE IInv'
  OBVIOUS
<1> PICK one : Script = {one} BY DEF OneAtATime
<1> USE SupNat, ServiceAssumption
    DEF IInv, TypeOK, SoleInv, ServiceInv, FlagInv, RebootInv, Live, Alive, Supervised,
        scripts, supervisor, files, ScriptGoto, SupGoto, NoPid
<1>1. ASSUME NEW s \in Script, ScriptStep(s) PROVE IInv'
  <2>1. CASE StartChecksRunning(s) BY <2>1 DEF StartChecksRunning
  <2>2. CASE StartChecksReboot(s)  BY <2>2 DEF StartChecksReboot
  <2>3. CASE StartCleans(s)        BY <2>3 DEF StartCleans
  <2>4. CASE StartSpawns(s)        BY <2>4 DEF StartSpawns
  <2>5. CASE StartWrites(s)        BY <2>5 DEF StartWrites
  <2>6. CASE StartReturns(s)       BY <2>6 DEF StartReturns
  <2>7. CASE StopSignals(s)        BY <2>7 DEF StopSignals
  <2>8. CASE StopWaits(s)          BY <2>8 DEF StopWaits, AfterStop
  <2>9. CASE StopCleans(s)         BY <2>9 DEF StopCleans, AfterStop
  <2> QED BY <1>1, <2>1, <2>2, <2>3, <2>4, <2>5, <2>6, <2>7, <2>8, <2>9 DEF ScriptStep
<1>2. ASSUME NEW s \in Script, NEW command \in {"start", "stop", "restart"}, Begin(s, command)
      PROVE  IInv'
  BY <1>2 DEF Begin
<1>3. ASSUME NEW i \in Sup, SupervisorStep(i) PROVE IInv'
  <2>1. CASE DiesUntrapped(i)  BY <2>1 DEF DiesUntrapped
  <2>2. CASE SetsTrap(i)       BY <2>2 DEF SetsTrap
  <2>3. CASE ClearsStopFile(i)
    <3>1. stopFile' = FALSE /\ stopFile' \in BOOLEAN BY <2>3 DEF ClearsStopFile
    <3> QED BY <2>3, <3>1 DEF ClearsStopFile
  <2>4. CASE TestsStop(i)      BY <2>4 DEF TestsStop
  <2>5. CASE Launches(i)       BY <2>5 DEF Launches
  <2>6. CASE RecordsPid(i)     BY <2>6 DEF RecordsPid
  <2>7. CASE ServiceGone(i)    BY <2>7 DEF ServiceGone
  <2>8. CASE JudgesExit(i)     BY <2>8 DEF JudgesExit
  <2>9. CASE RequiresReboot(i) BY <2>9, SoleSupervisor DEF RequiresReboot
  <2>10. CASE CleansUp(i)
    <3>1. stopFile' = FALSE /\ stopFile' \in BOOLEAN BY <2>10 DEF CleansUp
    <3> QED BY <2>10, <3>1 DEF CleansUp
  <2>11. CASE Exits(i)         BY <2>11 DEF Exits
  <2>12. CASE RequestStop(i)   BY <2>12, SoleSupervisor DEF RequestStop
  <2> QED BY <1>3, <2>1, <2>2, <2>3, <2>4, <2>5, <2>6, <2>7, <2>8, <2>9, <2>10, <2>11, <2>12
          DEF SupervisorStep
<1>4. ASSUME NEW i \in Sup, Crash(i) \/ ObeysStop(i) PROVE IInv'
  <2>1. CASE Crash(i)     BY <2>1 DEF Crash
  <2>2. CASE ObeysStop(i) BY <2>2 DEF ObeysStop
  <2> QED BY <1>4, <2>1, <2>2
<1>5. CASE UNCHANGED vars BY <1>5 DEF vars
<1> QED BY <1>1, <1>2, <1>3, <1>4, <1>5 DEF Next

\* The invariant holds in every reachable state.
THEOREM Invariant == ASSUME OneAtATime PROVE Spec => []IInv
BY InitIInv, StepIInv, PTL DEF Spec

\* Every variable keeps its type (the scripts' control points, the PID files and
\* the two flags).
THEOREM TypeCorrect == ASSUME OneAtATime PROVE Spec => []TypeOK
<1>1. IInv => TypeOK BY DEF IInv
<1> QED BY <1>1, Invariant, PTL

\* Two services would have two living supervisors, and there is only one.
LEMMA InvOneService == ASSUME OneAtATime, IInv PROVE OneService
<1> DEFINE Running == {i \in Sup : Alive(i)}
<1> PICK one : Script = {one} BY DEF OneAtATime
<1>1. \A i \in Running : Live(i) /\ sup[i] \in {"forked", "wait"}
  BY DEF IInv, ServiceInv, Live
<1>2. \A i, j \in Running : i = j
  BY <1>1, SoleSupervisor DEF IInv
<1>3. CASE Running = {}
  BY <1>3, FS_EmptySet DEF OneService
<1>4. CASE Running # {}
  <2> PICK k : k \in Running BY <1>4
  <2>1. Running = {k} BY <1>2
  <2>2. Cardinality(Running) = 1 BY <2>1, FS_Singleton
  <2>3. supFile \in {k, NoPid} BY <1>1 DEF IInv, SoleInv
  <2> QED BY <1>1, <2>1, <2>2, <2>3 DEF OneService
<1> QED BY <1>3, <1>4

\* At most one process of the hardware service runs and its supervisor waits for
\* it, over every sequence of starts, stops and restarts that run into their
\* time-outs or not (S91workcard_sdk, workcard-sdk-supervisor).
THEOREM SoleService == ASSUME OneAtATime PROVE Spec => []OneService
BY InvOneService, Invariant, PTL

\* No crash is lost: a supervisor nobody asked to stop leaves reboot.required when
\* its service ended by itself (workcard-sdk-supervisor:90-95).
THEOREM CrashFlagged == ASSUME OneAtATime PROVE Spec => []CrashIsFlagged
<1>1. IInv => CrashIsFlagged
  BY DEF IInv, TypeOK, FlagInv, CrashIsFlagged
<1> QED BY <1>1, Invariant, PTL

\* Once reboot.required is written, no start, restart or supervisor under way
\* launches a service (S91workcard_sdk: the test before the launch).
THEOREM NoLaunch == ASSUME OneAtATime PROVE Spec => NoLaunchBeforeReboot
<1> DEFINE Kept == rebootFile => (\A i \in Sup : service[i] = "none" => service'[i] = "none")
<1>1. IInv /\ [Next]_vars => [Kept]_vars
  <2> SUFFICES ASSUME IInv, Next PROVE Kept
    OBVIOUS
  <2> USE DEF IInv, TypeOK, RebootInv, scripts, supervisor, files, Alive
  <2>1. ASSUME NEW s \in Script, ScriptStep(s) PROVE Kept
    BY <2>1 DEF ScriptStep, StartChecksRunning, StartChecksReboot, StartCleans, StartSpawns,
                StartWrites, StartReturns, StopSignals, StopWaits, StopCleans
  <2>2. ASSUME NEW s \in Script, NEW c \in {"start", "stop", "restart"}, Begin(s, c) PROVE Kept
    BY <2>2 DEF Begin
  <2>3. ASSUME NEW i \in Sup, SupervisorStep(i) PROVE Kept
    BY <2>3 DEF SupervisorStep, DiesUntrapped, SetsTrap, ClearsStopFile, TestsStop, Launches,
                RecordsPid, ServiceGone, JudgesExit, RequiresReboot, CleansUp, Exits, RequestStop
  <2>4. ASSUME NEW i \in Sup, Crash(i) \/ ObeysStop(i) PROVE Kept
    BY <2>4 DEF Crash, ObeysStop
  <2> QED BY <2>1, <2>2, <2>3, <2>4 DEF Next
<1> QED BY <1>1, Invariant, PTL DEF Spec, NoLaunchBeforeReboot
==============================================================================
