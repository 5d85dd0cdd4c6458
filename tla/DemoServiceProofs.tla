-------------------------- MODULE DemoServiceProofs --------------------------
(***************************************************************************)
(* Proofs about DemoService, for any number of wrappers and commands, as   *)
(* long as one command is carried out at a time.  A wrapper has work left  *)
(* with the PID files from its launch until it has removed them; FileInv   *)
(* says that there is one such wrapper at most and that the wrapper file   *)
(* names it, DemoInv how far a Demo and its wrapper have come together.    *)
(***************************************************************************)
EXTENDS DemoService, TLAPS

\* Commands are given one at a time: one invocation of the script.
OneAtATime == \E s : Script = {s}

\* The wrapper has still to write or to remove a PID file.
Busy(i) == wrap[i] \notin {"unborn", "exit", "gone", "killed"}

\* A Demo that has a stop to obey, or has lost one to execv.
Told(i) == demo[i] = "stopping" \/ i \in lost

\* What a start relies on from its check of the files until it writes its own.
FileInv ==
    \A s \in Script :
        /\ script[s] = "start_spawn" => ~WrapperRuns /\ ~DemoRuns
        /\ script[s] = "start_write" => /\ ~WrapperRuns
                                        /\ spawned[s] \in Pid /\ wrap[spawned[s]] # "unborn"
                                        /\ \A i \in Pid : Busy(i) => i = spawned[s]
        /\ script[s] # "start_write" => \A i \in Pid : Busy(i) => wrapFile = i

\* A Demo is launched by its wrapper, and outlives it only if it was told to stop
\* or the wrapper was killed; then no other wrapper comes near its PID file.
DemoInv ==
    \A i \in Pid :
        /\ wrap[i] \in {"unborn", "boot", "trapped"} => demo[i] = "none"
        /\ wrap[i] \notin {"unborn", "boot", "trapped", "gone"} => demo[i] # "none"
        /\ wrap[i] \in {"wait", "remove"} => demoFile = i
        /\ Alive(i) /\ wrap[i] \in {"remove", "unlink", "exit", "gone"} => Told(i)
        /\ Alive(i) /\ wrap[i] = "killed" /\ ~Told(i) => /\ demoFile = i
                                                         /\ \A j \in Pid : ~Busy(j)

IInv == TypeOK /\ FileInv /\ DemoInv

\* Process numbers are positive; NoPid is none of them.
LEMMA PidNat == Pid \subseteq Nat /\ NoPid \notin Pid
  BY DemoAssumption DEF Pid, NoPid

\* A TERM leaves a Demo that is not there alone and tells any other.
LEMMA SignalTells ==
    ASSUME TypeOK, NEW i \in Pid, SignalDemo(i)
    PROVE  /\ demo' \in [Pid -> {"none", "connecting", "running", "stopping", "leaving", "again",
                                 "ended"}]
           /\ \A j \in Pid \ {i} : demo'[j] = demo[j] /\ (j \in lost' <=> j \in lost)
           /\ demo'[i] = "none" <=> demo[i] = "none"
           /\ Alive(i)' => Alive(i) /\ Told(i)'
           /\ lost \subseteq lost' /\ lost' \subseteq Pid
  BY DEF SignalDemo, Signalled, TypeOK, Alive, Told

\* The initial state satisfies the inductive invariant.
LEMMA InitIInv == Init => IInv
<1> SUFFICES ASSUME Init PROVE IInv
  OBVIOUS
<1>1. TypeOK
  <2>1. restart \in [Script -> BOOLEAN] /\ term \in [Pid -> BOOLEAN]
    BY Zenon DEF Init
  <2> QED BY <2>1, DemoAssumption DEF Init, TypeOK, NoPid
<1>2. FileInv /\ DemoInv
  BY DEF Init, FileInv, DemoInv, Busy, Alive
<1> QED BY <1>1, <1>2 DEF IInv

\* While commands are given one at a time every step keeps the invariant.
LEMMA StepIInv == ASSUME OneAtATime PROVE IInv /\ [Next]_vars => IInv'
<1> SUFFICES ASSUME IInv, [Next]_vars PROVE IInv'
  OBVIOUS
<1> USE DemoAssumption, PidNat
    DEF IInv, TypeOK, FileInv, DemoInv, Busy, Told, Alive, WrapperRuns, DemoRuns, scripts, files,
        ScriptGoto, WrapGoto
<1>0. PICK s0 : Script = {s0}
  BY DEF OneAtATime
<1>1. ASSUME NEW s \in Script, NEW command \in {"start", "stop", "restart"}, Begin(s, command)
      PROVE  IInv'
  BY <1>0, <1>1 DEF Begin
<1>2. ASSUME NEW s \in Script, ScriptStep(s) PROVE IInv'
  <2>1. CASE StartChecks(s)        BY <1>0, <2>1 DEF StartChecks
  <2>2. CASE StartSpawns(s)        BY <1>0, <2>2 DEF StartSpawns
  <2>3. CASE StartWrites(s)        BY <1>0, <2>3 DEF StartWrites
  <2>4. CASE StartReturns(s)       BY <1>0, <2>4 DEF StartReturns
  <2>5. CASE StopSignalsWrapper(s) BY <1>0, <2>5 DEF StopSignalsWrapper
  <2>6. CASE StopSignalsDemo(s)
    <3>1. demoFile \in Pid /\ SignalDemo(demoFile)
      BY <2>6 DEF StopSignalsDemo
    <3> QED BY <1>0, <2>6, <3>1, SignalTells DEF StopSignalsDemo
  <2>7. CASE StopCleans(s)         BY <1>0, <2>7 DEF StopCleans, AfterStop
  <2>8. CASE StopReturns(s)        BY <1>0, <2>8 DEF StopReturns, AfterStop
  <2> QED BY <1>2, <2>1, <2>2, <2>3, <2>4, <2>5, <2>6, <2>7, <2>8 DEF ScriptStep
<1>3. ASSUME NEW i \in Pid, WrapperStep(i) PROVE IInv'
  <2>1. CASE DiesUntrapped(i)   BY <1>0, <2>1 DEF DiesUntrapped
  <2>2. CASE SetsTrap(i)        BY <1>0, <2>2 DEF SetsTrap
  <2>3. CASE Launches(i)        BY <1>0, <2>3 DEF Launches
  <2>4. CASE SetsChildPid(i)    BY <1>0, <2>4 DEF SetsChildPid
  <2>5. CASE WritesDemoFile(i)  BY <1>0, <2>5 DEF WritesDemoFile
  <2>6. CASE DemoGone(i)        BY <1>0, <2>6 DEF DemoGone
  <2>7. CASE Trap(i)
    <3>1. CASE wrap[i] \in {"trapped", "launched"}
      <4>1. wrap' = wrap /\ demo' = demo /\ lost' = lost
        BY <2>7, <3>1 DEF Trap
      <4>2. term' \in [Pid -> BOOLEAN] /\ UNCHANGED <<script, restart, spawned, commands, files>>
        BY <2>7 DEF Trap
      <4> QED BY <4>1, <4>2
    <3>2. CASE wrap[i] \notin {"trapped", "launched"}
      <4>1. SignalDemo(i) /\ wrap[i] \in {"record", "wait", "remove", "unlink", "exit"}
        BY <2>7, <3>2 DEF Trap
      <4> QED BY <1>0, <2>7, <4>1, SignalTells DEF Trap
    <3> QED BY <3>1, <3>2
  <2>8. CASE RemovesDemoFile(i) BY <1>0, <2>8 DEF RemovesDemoFile
  <2>9. CASE RemovesWrapFile(i) BY <1>0, <2>9 DEF RemovesWrapFile
  <2>10. CASE Exits(i)          BY <1>0, <2>10 DEF Exits
  <2>11. CASE IsKilled(i)       BY <1>0, <2>11 DEF IsKilled
  <2> QED BY <1>3, <2>1, <2>2, <2>3, <2>4, <2>5, <2>6, <2>7, <2>8, <2>9, <2>10, <2>11
          DEF WrapperStep
<1>4. ASSUME NEW i \in Pid, DemoProcess(i) PROVE IInv'
  <2> USE DEF DemoStep
  <2>1. CASE Runs(i)         BY <1>0, <2>1 DEF Runs
  <2>2. CASE LosesService(i) BY <1>0, <2>2 DEF LosesService
  <2>3. CASE TestsStop(i)    BY <1>0, <2>3 DEF TestsStop
  <2>4. CASE Executes(i)     BY <1>0, <2>4 DEF Executes
  <2>5. CASE Finishes(i)     BY <1>0, <2>5 DEF Finishes
  <2>6. CASE Dies(i)         BY <1>0, <2>6 DEF Dies
  <2> QED BY <1>4, <2>1, <2>2, <2>3, <2>4, <2>5, <2>6 DEF DemoProcess
<1>5. CASE UNCHANGED vars BY <1>0, <1>5 DEF vars
<1> QED BY <1>1, <1>2, <1>3, <1>4, <1>5 DEF Next

\* The invariant holds in every reachable state.
THEOREM Invariant == ASSUME OneAtATime PROVE Spec => []IInv
BY InitIInv, StepIInv, PTL DEF Spec

\* Every variable keeps its type: a PID file names a process that has been started
\* or none.
THEOREM TypeCorrect == ASSUME OneAtATime PROVE Spec => []TypeOK
<1>1. IInv => TypeOK BY DEF IInv
<1> QED BY <1>1, Invariant, PTL

\* Whatever a Demo and its wrapper have been through, a Demo that has no stop to
\* obey is found by the next one.
THEOREM Reachable == ASSUME OneAtATime PROVE Spec => []StaysReachable
<1>1. IInv => StaysReachable
  <2> SUFFICES ASSUME IInv, NEW i \in Pid, Alive(i), ~Told(i)
               PROVE  \/ /\ wrap[i] \in {"launched", "record", "wait"}
                         /\ \/ wrapFile = i
                            \/ \E s \in Script : script[s] = "start_write" /\ spawned[s] = i
                      \/ wrap[i] = "killed" /\ demoFile = i
    BY DEF StaysReachable, Told
  <2>1. wrap[i] \in {"launched", "record", "wait", "killed"}
    BY DEF IInv, TypeOK, DemoInv, Alive
  <2>2. CASE wrap[i] = "killed"
    BY <2>2 DEF IInv, DemoInv
  <2>3. CASE wrap[i] # "killed"
    BY <2>1, <2>3 DEF IInv, FileInv, Busy, OneAtATime
  <2> QED BY <2>2, <2>3
<1> QED BY <1>1, Invariant, PTL

\* A wrapper that ends late removes no PID file that names a process of another run.
THEOREM OwnFiles == ASSUME OneAtATime PROVE Spec => RemovesOwnFiles
<1> DEFINE Own == \A i \in Pid :
                     /\ wrap[i] = "remove" /\ wrap'[i] = "unlink" /\ DemoRuns => demoFile = i
                     /\ wrap[i] = "unlink" /\ wrap'[i] = "exit" /\ WrapperRuns => wrapFile = i
<1>1. IInv /\ [Next]_vars => [Own]_vars
  BY DEF OneAtATime, IInv, FileInv, DemoInv, Busy
<1> QED BY <1>1, Invariant, PTL DEF Spec, RemovesOwnFiles

\* What remains of OneDemo, which a restart breaks: of two Demos at once all but one
\* have a stop to obey or have lost it to execv.
OneServes == \A i, j \in Pid : Alive(i) /\ ~Told(i) /\ Alive(j) /\ ~Told(j) => i = j

\* Whatever is started, stopped and killed, at most one Demo goes on serving
\* (S94workcard_demo:78).
THEOREM OneServing == ASSUME OneAtATime PROVE Spec => []OneServes
<1>1. IInv => OneServes
  <2> SUFFICES ASSUME IInv, NEW i \in Pid, NEW j \in Pid,
                      Alive(i), ~Told(i), Alive(j), ~Told(j)
               PROVE  i = j
    BY DEF OneServes
  <2>1. /\ wrap[i] \in {"launched", "record", "wait", "killed"}
        /\ wrap[j] \in {"launched", "record", "wait", "killed"}
    BY DEF IInv, TypeOK, DemoInv, Alive
  <2>2. CASE wrap[i] = "killed"
    BY <2>1, <2>2 DEF IInv, DemoInv, Busy
  <2>3. CASE wrap[j] = "killed"
    BY <2>1, <2>3 DEF IInv, DemoInv, Busy
  <2>4. CASE Busy(i) /\ Busy(j)
    BY <2>4 DEF IInv, FileInv, OneAtATime
  <2> QED BY <2>1, <2>2, <2>3, <2>4 DEF Busy
<1> QED BY <1>1, Invariant, PTL
==============================================================================
