---------------------------- MODULE DemoService ----------------------------
(***************************************************************************)
(* The management of the customer Demo: the script S94workcard_demo of     *)
(* runtime/service and the life of the Demo process in demo/src/main.c.    *)
(* Each start runs a wrapper shell that launches one Demo and waits for    *)
(* it.  Wrappers are numbered in the order of their start; the Demo of     *)
(* wrapper i also has the number i, and a PID file holds such a number.    *)
(* The threads inside the Demo are the subject of other modules.           *)
(***************************************************************************)
EXTENDS Naturals, FiniteSets

CONSTANTS
    Script,         \* invocations of S94workcard_demo that may run at a time
    MaxWrappers,    \* bound on the wrappers started
    MaxCommands     \* bound on the commands given

ASSUME DemoAssumption == MaxWrappers \in Nat /\ MaxCommands \in Nat

Pid == 1 .. MaxWrappers
NoPid == 0

VARIABLES
    script,     \* control point of each invocation
    restart,    \* the invocation goes on to start after its stop
    spawned,    \* the wrapper an invocation has just started
    commands,   \* number of commands given
    wrap,       \* control point of each wrapper (run_demo)
    term,       \* a TERM is pending for the wrapper
    demo,       \* state of each Demo process
    lost,       \* ghost: Demos whose TERM hit the window before execv
    wrapFile, demoFile      \* the two PID files

scripts == <<script, restart, spawned, commands>>
files == <<wrapFile, demoFile>>
vars == <<scripts, wrap, term, demo, lost, files>>

TypeOK == /\ script \in [Script -> {"idle", "start", "start_spawn", "start_write", "start_wait",
                                    "stop", "stop_wait"}]
          /\ restart \in [Script -> BOOLEAN]
          /\ spawned \in [Script -> Pid \union {NoPid}]
          /\ commands \in 0 .. MaxCommands
          /\ wrap \in [Pid -> {"unborn", "boot", "trapped", "launched", "record", "wait",
                               "remove", "unlink", "exit", "gone", "killed"}]
          /\ term \in [Pid -> BOOLEAN]
          /\ demo \in [Pid -> {"none", "connecting", "running", "stopping", "leaving", "again",
                               "ended"}]
          /\ lost \subseteq Pid
          /\ wrapFile \in {i \in Pid : wrap[i] # "unborn"} \union {NoPid}
          /\ demoFile \in {i \in Pid : demo[i] # "none"} \union {NoPid}

Init == /\ script = [s \in Script |-> "idle"]
        /\ restart = [s \in Script |-> FALSE]
        /\ spawned = [s \in Script |-> NoPid]
        /\ commands = 0
        /\ wrap = [i \in Pid |-> "unborn"]
        /\ term = [i \in Pid |-> FALSE]
        /\ demo = [i \in Pid |-> "none"]
        /\ lost = {}
        /\ wrapFile = NoPid /\ demoFile = NoPid

Alive(i) == demo[i] \notin {"none", "ended"}

\* pid_file_is_running for the two PID files.
WrapperRuns == wrapFile # NoPid /\ wrap[wrapFile] \notin {"unborn", "gone", "killed"}
DemoRuns == demoFile # NoPid /\ Alive(demoFile)

\* The flag is not looked at after the loss of the service (seeded fault).
SignalledUnlessLeaving == [connecting |-> "ended", running |-> "stopping", leaving |-> "leaving",
                           stopping |-> "stopping", again |-> "again", none |-> "none",
                           ended |-> "ended"]

\* What a TERM does to the Demo: by default it ends it until main.c:316-318 have
\* set the handler; then a flag is set, which is tested for the last time at
\* main.c:343.
Signalled == [connecting |-> "ended", running |-> "stopping", leaving |-> "stopping",
              stopping |-> "stopping", again |-> "again", none |-> "none", ended |-> "ended"]

SignalDemo(i) == /\ demo' = [demo EXCEPT ![i] = Signalled[@]]
                 /\ lost' = IF demo[i] = "again" THEN lost \union {i} ELSE lost

------------------------------------------------------------------------------
(* S94workcard_demo: start, stop and restart.                               *)

ScriptGoto(s, label) == script' = [script EXCEPT ![s] = label]

Begin(s, command) ==
    /\ script[s] = "idle" /\ commands < MaxCommands
    /\ commands' = commands + 1
    /\ restart' = [restart EXCEPT ![s] = (command = "restart")]
    /\ ScriptGoto(s, IF command = "start" THEN "start" ELSE "stop")
    /\ UNCHANGED <<spawned, wrap, term, demo, lost, files>>

\* Only the PID file of the Demo is looked at (seeded fault).
StartChecksDemo(s) ==
    /\ script[s] = "start"
    /\ ScriptGoto(s, IF DemoRuns THEN "idle" ELSE "start_spawn")
    /\ UNCHANGED <<restart, spawned, commands, wrap, term, demo, lost, files>>

StartChecks(s) ==
    /\ script[s] = "start"
    /\ ScriptGoto(s, IF DemoRuns \/ WrapperRuns THEN "idle" ELSE "start_spawn")
    /\ UNCHANGED <<restart, spawned, commands, wrap, term, demo, lost, files>>

StartSpawns(s) ==
    /\ script[s] = "start_spawn"
    /\ \E i \in Pid :
          /\ wrap[i] = "unborn" /\ \A j \in Pid : j < i => wrap[j] # "unborn"
          /\ wrap' = [wrap EXCEPT ![i] = "boot"]
          /\ spawned' = [spawned EXCEPT ![s] = i]
    /\ ScriptGoto(s, "start_write")
    /\ UNCHANGED <<restart, commands, term, demo, lost, files>>

StartWrites(s) ==
    /\ script[s] = "start_write"
    /\ wrapFile' = spawned[s]
    /\ ScriptGoto(s, "start_wait")
    /\ UNCHANGED <<restart, spawned, commands, wrap, term, demo, lost, demoFile>>

\* One second later the wrapper runs or not; nothing follows from it.
StartReturns(s) ==
    /\ script[s] = "start_wait"
    /\ ScriptGoto(s, "idle")
    /\ UNCHANGED <<restart, spawned, commands, wrap, term, demo, lost, files>>

\* restart goes on with the start whether or not the stop succeeded.
AfterStop(s) == IF restart[s] THEN "start" ELSE "idle"

StopSignalsWrapper(s) ==
    /\ script[s] = "stop" /\ WrapperRuns
    /\ term' = [term EXCEPT ![wrapFile] = TRUE]
    /\ ScriptGoto(s, "stop_wait")
    /\ UNCHANGED <<restart, spawned, commands, wrap, demo, lost, files>>

StopSignalsDemo(s) ==
    /\ script[s] = "stop" /\ ~WrapperRuns /\ DemoRuns
    /\ SignalDemo(demoFile)
    /\ ScriptGoto(s, "stop_wait")
    /\ UNCHANGED <<restart, spawned, commands, wrap, term, files>>

StopCleans(s) ==
    /\ script[s] = "stop" /\ ~WrapperRuns /\ ~DemoRuns
    /\ wrapFile' = NoPid /\ demoFile' = NoPid
    /\ ScriptGoto(s, AfterStop(s))
    /\ UNCHANGED <<restart, spawned, commands, wrap, term, demo, lost>>

\* No PID file names a running process any more, or fifteen seconds have passed.
StopReturns(s) ==
    /\ script[s] = "stop_wait"
    /\ ScriptGoto(s, AfterStop(s))
    /\ UNCHANGED <<restart, spawned, commands, wrap, term, demo, lost, files>>

------------------------------------------------------------------------------
(* The wrapper: run_demo.                                                   *)

WrapGoto(i, label) == wrap' = [wrap EXCEPT ![i] = label]

\* Before the trap is set a TERM ends the shell.
DiesUntrapped(i) ==
    /\ wrap[i] = "boot" /\ term[i]
    /\ WrapGoto(i, "gone")
    /\ term' = [term EXCEPT ![i] = FALSE]
    /\ UNCHANGED <<scripts, demo, lost, files>>

SetsTrap(i) ==
    /\ wrap[i] = "boot" /\ ~term[i]
    /\ WrapGoto(i, "trapped")
    /\ UNCHANGED <<scripts, term, demo, lost, files>>

Launches(i) ==
    /\ wrap[i] = "trapped"
    /\ demo' = [demo EXCEPT ![i] = "connecting"]
    /\ WrapGoto(i, "launched")
    /\ UNCHANGED <<scripts, term, lost, files>>

SetsChildPid(i) ==
    /\ wrap[i] = "launched"
    /\ WrapGoto(i, "record")
    /\ UNCHANGED <<scripts, term, demo, lost, files>>

WritesDemoFile(i) ==
    /\ wrap[i] = "record"
    /\ demoFile' = i
    /\ WrapGoto(i, "wait")
    /\ UNCHANGED <<scripts, term, demo, lost, wrapFile>>

DemoGone(i) ==
    /\ wrap[i] = "wait" /\ ~Alive(i)
    /\ WrapGoto(i, "remove")
    /\ UNCHANGED <<scripts, term, demo, lost, files>>

\* The stop is noted and not passed on (seeded fault).
TrapOnly(i) ==
    /\ term[i] /\ wrap[i] \notin {"unborn", "boot", "gone", "killed"}
    /\ term' = [term EXCEPT ![i] = FALSE]
    /\ WrapGoto(i, IF wrap[i] = "wait" THEN "remove" ELSE wrap[i])
    /\ UNCHANGED <<scripts, demo, lost, files>>

\* The trap runs between two commands and passes the TERM on once CHILD_PID is
\* set.  It ends a wait, and the wrapper goes on as if the Demo had ended.
Trap(i) ==
    /\ term[i] /\ wrap[i] \notin {"unborn", "boot", "gone", "killed"}
    /\ term' = [term EXCEPT ![i] = FALSE]
    /\ IF wrap[i] \in {"trapped", "launched"} THEN UNCHANGED <<demo, lost>> ELSE SignalDemo(i)
    /\ WrapGoto(i, IF wrap[i] = "wait" THEN "remove" ELSE wrap[i])
    /\ UNCHANGED <<scripts, files>>

\* rm -f removes the two files one after the other.
RemovesDemoFile(i) ==
    /\ wrap[i] = "remove"
    /\ demoFile' = NoPid
    /\ WrapGoto(i, "unlink")
    /\ UNCHANGED <<scripts, term, demo, lost, wrapFile>>

RemovesWrapFile(i) ==
    /\ wrap[i] = "unlink"
    /\ wrapFile' = NoPid
    /\ WrapGoto(i, "exit")
    /\ UNCHANGED <<scripts, term, demo, lost, demoFile>>

Exits(i) ==
    /\ wrap[i] = "exit"
    /\ WrapGoto(i, "gone")
    /\ UNCHANGED <<scripts, term, demo, lost, files>>

\* The waiting shell is killed from outside, which no trap sees; its Demo and the
\* PID files stay.
IsKilled(i) ==
    /\ wrap[i] = "wait"
    /\ WrapGoto(i, "killed")
    /\ term' = [term EXCEPT ![i] = FALSE]
    /\ UNCHANGED <<scripts, demo, lost, files>>

------------------------------------------------------------------------------
(* The Demo process: main.c.                                                *)

DemoStep(i, from, to) == /\ demo[i] \in from
                         /\ demo' = [demo EXCEPT ![i] = to]
                         /\ UNCHANGED <<scripts, wrap, term, lost, files>>

\* SDK, cloud, camera and MQTT have started and the handlers are set.
Runs(i) == DemoStep(i, {"connecting"}, "running")

\* The SDK reports that the hardware service is gone: orderly shutdown.
LosesService(i) == DemoStep(i, {"running"}, "leaving")

\* main.c:343: no stop was requested; two seconds later the program is executed
\* again in the same process.
TestsStop(i) == DemoStep(i, {"leaving"}, "again")
Executes(i) == DemoStep(i, {"again"}, "connecting")

\* The orderly shutdown after a stop is complete.
Finishes(i) == DemoStep(i, {"stopping"}, "ended")

\* A failed start or execv, or an abnormal end.
Dies(i) == DemoStep(i, {"connecting", "running", "stopping", "leaving", "again"}, "ended")

------------------------------------------------------------------------------
ScriptStep(s) == \/ StartChecks(s) \/ StartSpawns(s) \/ StartWrites(s) \/ StartReturns(s)
                 \/ StopSignalsWrapper(s) \/ StopSignalsDemo(s) \/ StopCleans(s)
                 \/ StopReturns(s)

WrapperStep(i) == \/ DiesUntrapped(i) \/ SetsTrap(i) \/ Launches(i) \/ SetsChildPid(i)
                  \/ WritesDemoFile(i) \/ DemoGone(i) \/ Trap(i) \/ RemovesDemoFile(i)
                  \/ RemovesWrapFile(i) \/ Exits(i) \/ IsKilled(i)

DemoProcess(i) == \/ Runs(i) \/ LosesService(i) \/ TestsStop(i) \/ Executes(i)
                  \/ Finishes(i) \/ Dies(i)

Next == \/ \E s \in Script, command \in {"start", "stop", "restart"} : Begin(s, command)
        \/ \E s \in Script : ScriptStep(s)
        \/ \E i \in Pid : WrapperStep(i) \/ DemoProcess(i)

Spec == Init /\ [][Next]_vars

\* A shell gets to run its trap, and an orderly shutdown comes to its end, after
\* which the Demo returns from main or executes itself again.
FairSpec == /\ Spec
            /\ \A i \in Pid : WF_vars(Trap(i)) /\ WF_vars(Finishes(i)) /\ WF_vars(TestsStop(i))

------------------------------------------------------------------------------
(* Properties.                                                              *)

\* While commands are given one at a time, a Demo that is alive and has no stop to
\* obey is found by the next stop, whatever it has been through since: its wrapper
\* waits for it and is named by the PID file, or was killed and the other PID
\* file names the Demo.  A TERM in the window before execv is the exception
\* (S94workcard_demo:54-69, 111-116, main.c:343-346).
StaysReachable ==
    \A i \in Pid : Alive(i) /\ demo[i] # "stopping" /\ i \notin lost =>
        \/ /\ wrap[i] \in {"launched", "record", "wait"}
           /\ wrapFile = i \/ \E s \in Script : script[s] = "start_write" /\ spawned[s] = i
        \/ wrap[i] = "killed" /\ demoFile = i

\* "只删除本轮生成的 PID 文件" (S94workcard_demo:68): while commands are given one at
\* a time, a wrapper that ends late does not remove a PID file that names a
\* process of another run.
RemovesOwnFiles ==
    [][\A i \in Pid : /\ wrap[i] = "remove" /\ wrap'[i] = "unlink" /\ DemoRuns => demoFile = i
                      /\ wrap[i] = "unlink" /\ wrap'[i] = "exit" /\ WrapperRuns => wrapFile = i
      ]_vars

\* A TERM that finds the wrapper waiting ends the Demo, also while it shuts down
\* after the loss of the hardware service; but for the window before execv and a
\* wrapper killed before it could pass the TERM on.  Fairness takes the orderly
\* shutdown to end, which it does unless a TLS call of the MQTT thread stalls for
\* good (mqtt_tls_platform.c:124, 310; StopTerminates of MqttSession).
StopTakesEffect == \A i \in Pid : (term[i] /\ wrap[i] = "wait")
                                     ~> (~Alive(i) \/ i \in lost \/ wrap[i] = "killed")

\* "已经运行时不重复创建第二个 MQTT 客户端" (S94workcard_demo:78): there is one Demo.
OneDemo == Cardinality({i \in Pid : Alive(i)}) <= 1
==============================================================================
