----------------------------- MODULE SdkService -----------------------------
(***************************************************************************)
(* The management of the hardware service: the script S91workcard_sdk and   *)
(* workcard-sdk-supervisor, both in runtime/service.  A supervisor runs the *)
(* service once.  Supervisors are numbered in the order of their start; the *)
(* service of supervisor i, if it was started, also has the number i, and a *)
(* PID file holds such a number.  The service itself is a closed binary: it *)
(* may end by itself, and ends after a TERM.                                *)
(***************************************************************************)
EXTENDS Naturals, FiniteSets

CONSTANTS
    Script,         \* invocations of S91workcard_sdk that may run at a time
    MaxSupervisors, \* bound on the supervisors started
    MaxCommands     \* bound on the commands given

ASSUME ServiceAssumption == /\ IsFiniteSet(Script)
                            /\ MaxSupervisors \in Nat /\ MaxCommands \in Nat

Sup == 1 .. MaxSupervisors
NoPid == 0

VARIABLES
    script,     \* control point of each invocation
    restart,    \* the invocation goes on to start after its stop
    spawned,    \* the supervisor an invocation has just started
    commands,   \* number of commands given
    sup,        \* control point of each supervisor
    term,       \* a TERM is pending for the supervisor
    stopReq,    \* STOP_REQUESTED of the supervisor
    known,      \* SERVICE_PID of the supervisor is set
    service,    \* state of each service process
    crashed,    \* ghost: services that ended otherwise than by a clean stop
    supFile, svcFile,       \* the two PID files
    stopFile, rebootFile    \* stop.requested and reboot.required

scripts == <<script, restart, spawned, commands>>
supervisor == <<sup, stopReq, known>>
files == <<supFile, svcFile, stopFile, rebootFile>>
vars == <<scripts, supervisor, term, service, crashed, files>>

TypeOK == /\ script \in [Script -> {"idle", "start", "start_flag", "start_clean", "start_spawn",
                                    "start_write", "start_wait", "stop", "stop_wait",
                                    "stop_clean"}]
          /\ restart \in [Script -> BOOLEAN]
          /\ spawned \in [Script -> Sup \union {NoPid}]
          /\ commands \in 0 .. MaxCommands
          /\ sup \in [Sup -> {"unborn", "boot", "trapped", "test", "launch", "forked", "wait",
                              "after", "flag", "cleanup", "exit", "gone"}]
          /\ term \in [Sup -> BOOLEAN] /\ stopReq \in [Sup -> BOOLEAN] /\ known \in [Sup -> BOOLEAN]
          /\ service \in [Sup -> {"none", "running", "stopping", "ended"}]
          /\ crashed \subseteq Sup
          /\ supFile \in {i \in Sup : sup[i] # "unborn"} \union {NoPid}
          /\ svcFile \in {i \in Sup : service[i] # "none"} \union {NoPid}
          /\ stopFile \in BOOLEAN /\ rebootFile \in BOOLEAN

Init == /\ script = [s \in Script |-> "idle"]
        /\ restart = [s \in Script |-> FALSE]
        /\ spawned = [s \in Script |-> NoPid]
        /\ commands = 0
        /\ sup = [i \in Sup |-> "unborn"]
        /\ term = [i \in Sup |-> FALSE]
        /\ stopReq = [i \in Sup |-> FALSE]
        /\ known = [i \in Sup |-> FALSE]
        /\ service = [i \in Sup |-> "none"]
        /\ crashed = {}
        /\ supFile = NoPid /\ svcFile = NoPid /\ stopFile = FALSE /\ rebootFile = FALSE

Alive(i) == service[i] \in {"running", "stopping"}

\* pid_file_is_running "$SUPERVISOR_PID_FILE"
Supervised == supFile # NoPid /\ sup[supFile] \notin {"unborn", "gone"}

------------------------------------------------------------------------------
(* S91workcard_sdk.                                                         *)

ScriptGoto(s, label) == script' = [script EXCEPT ![s] = label]

Begin(s, command) ==
    /\ script[s] = "idle" /\ commands < MaxCommands
    /\ commands' = commands + 1
    /\ restart' = [restart EXCEPT ![s] = (command = "restart")]
    /\ ScriptGoto(s, IF command = "start" THEN "start" ELSE "stop")
    /\ UNCHANGED <<spawned, supervisor, term, service, crashed, files>>

StartChecksRunning(s) ==
    /\ script[s] = "start"
    /\ ScriptGoto(s, IF Supervised THEN "idle" ELSE "start_flag")
    /\ UNCHANGED <<restart, spawned, commands, supervisor, term, service, crashed, files>>

\* The flag is only reported (seeded fault).
StartIgnoresReboot(s) ==
    /\ script[s] = "start_flag"
    /\ ScriptGoto(s, "start_clean")
    /\ UNCHANGED <<restart, spawned, commands, supervisor, term, service, crashed, files>>

StartChecksReboot(s) ==
    /\ script[s] = "start_flag"
    /\ ScriptGoto(s, IF rebootFile THEN "idle" ELSE "start_clean")
    /\ UNCHANGED <<restart, spawned, commands, supervisor, term, service, crashed, files>>

StartCleans(s) ==
    /\ script[s] = "start_clean"
    /\ supFile' = NoPid /\ svcFile' = NoPid
    /\ ScriptGoto(s, "start_spawn")
    /\ UNCHANGED <<restart, spawned, commands, supervisor, term, service, crashed, stopFile,
                   rebootFile>>

StartSpawns(s) ==
    /\ script[s] = "start_spawn"
    /\ \E i \in Sup :
          /\ sup[i] = "unborn" /\ \A j \in Sup : j < i => sup[j] # "unborn"
          /\ sup' = [sup EXCEPT ![i] = "boot"]
          /\ spawned' = [spawned EXCEPT ![s] = i]
    /\ ScriptGoto(s, "start_write")
    /\ UNCHANGED <<restart, commands, term, stopReq, known, service, crashed, files>>

StartWrites(s) ==
    /\ script[s] = "start_write"
    /\ supFile' = spawned[s]
    /\ ScriptGoto(s, "start_wait")
    /\ UNCHANGED <<restart, spawned, commands, supervisor, term, service, crashed, svcFile,
                   stopFile, rebootFile>>

\* The service runs, or five seconds have passed.
StartReturns(s) ==
    /\ script[s] = "start_wait"
    /\ ScriptGoto(s, "idle")
    /\ UNCHANGED <<restart, spawned, commands, supervisor, term, service, crashed, files>>

StopSignals(s) ==
    /\ script[s] = "stop"
    /\ term' = IF Supervised THEN [term EXCEPT ![supFile] = TRUE] ELSE term
    /\ ScriptGoto(s, "stop_wait")
    /\ UNCHANGED <<restart, spawned, commands, supervisor, service, crashed, files>>

\* restart goes on with the start whether or not the stop succeeded.
AfterStop(s) == IF restart[s] THEN "start" ELSE "idle"

\* A stop that waits too long goes on as one that succeeded (seeded fault).
StopGivesUp(s) ==
    /\ script[s] = "stop_wait"
    /\ ScriptGoto(s, "stop_clean")
    /\ UNCHANGED <<restart, spawned, commands, supervisor, term, service, crashed, files>>

\* The supervisor is gone, or fifteen seconds have passed.
StopWaits(s) ==
    /\ script[s] = "stop_wait"
    /\ ScriptGoto(s, IF Supervised THEN AfterStop(s) ELSE "stop_clean")
    /\ UNCHANGED <<restart, spawned, commands, supervisor, term, service, crashed, files>>

StopCleans(s) ==
    /\ script[s] = "stop_clean"
    /\ supFile' = NoPid /\ svcFile' = NoPid
    /\ ScriptGoto(s, AfterStop(s))
    /\ UNCHANGED <<restart, spawned, commands, supervisor, term, service, crashed, stopFile,
                   rebootFile>>

------------------------------------------------------------------------------
(* workcard-sdk-supervisor.                                                 *)

SupGoto(i, label) == sup' = [sup EXCEPT ![i] = label]

\* Before the trap is set a TERM ends the shell.
DiesUntrapped(i) ==
    /\ sup[i] = "boot" /\ term[i]
    /\ SupGoto(i, "gone")
    /\ term' = [term EXCEPT ![i] = FALSE]
    /\ UNCHANGED <<scripts, stopReq, known, service, crashed, files>>

SetsTrap(i) ==
    /\ sup[i] = "boot" /\ ~term[i]
    /\ SupGoto(i, "trapped")
    /\ UNCHANGED <<scripts, stopReq, known, term, service, crashed, files>>

\* The stop file of an earlier supervisor stays (seeded fault).
KeepsStopFile(i) ==
    /\ sup[i] = "trapped"
    /\ SupGoto(i, "test")
    /\ UNCHANGED <<scripts, stopReq, known, term, service, crashed, files>>

ClearsStopFile(i) ==
    /\ sup[i] = "trapped"
    /\ stopFile' = FALSE
    /\ SupGoto(i, "test")
    /\ UNCHANGED <<scripts, stopReq, known, term, service, crashed, supFile, svcFile, rebootFile>>

TestsStop(i) ==
    /\ sup[i] = "test"
    /\ SupGoto(i, IF stopReq[i] THEN "cleanup" ELSE "launch")
    /\ UNCHANGED <<scripts, stopReq, known, term, service, crashed, files>>

\* The service is started; its PID is not yet in SERVICE_PID.
Launches(i) ==
    /\ sup[i] = "launch"
    /\ service' = [service EXCEPT ![i] = "running"]
    /\ SupGoto(i, "forked")
    /\ UNCHANGED <<scripts, stopReq, known, term, crashed, files>>

RecordsPid(i) ==
    /\ sup[i] = "forked"
    /\ known' = [known EXCEPT ![i] = TRUE]
    /\ svcFile' = i
    /\ SupGoto(i, "wait")
    /\ UNCHANGED <<scripts, stopReq, term, service, crashed, supFile, stopFile, rebootFile>>

\* An interrupted wait goes on until the process is gone.
ServiceGone(i) ==
    /\ sup[i] = "wait" /\ ~Alive(i)
    /\ svcFile' = NoPid
    /\ SupGoto(i, "after")
    /\ UNCHANGED <<scripts, stopReq, known, term, service, crashed, supFile, stopFile, rebootFile>>

JudgesExit(i) ==
    /\ sup[i] = "after"
    /\ SupGoto(i, IF stopReq[i] \/ stopFile THEN "cleanup" ELSE "flag")
    /\ UNCHANGED <<scripts, stopReq, known, term, service, crashed, files>>

RequiresReboot(i) ==
    /\ sup[i] = "flag"
    /\ rebootFile' = TRUE
    /\ SupGoto(i, "cleanup")
    /\ UNCHANGED <<scripts, stopReq, known, term, service, crashed, supFile, svcFile, stopFile>>

CleansUp(i) ==
    /\ sup[i] = "cleanup"
    /\ svcFile' = NoPid /\ stopFile' = FALSE
    /\ SupGoto(i, "exit")
    /\ UNCHANGED <<scripts, stopReq, known, term, service, crashed, supFile, rebootFile>>

\* A TERM handled before this step leaves its stop file behind.
Exits(i) ==
    /\ sup[i] = "exit"
    /\ SupGoto(i, "gone")
    /\ UNCHANGED <<scripts, stopReq, known, term, service, crashed, files>>

\* The request is noted and not passed on (seeded fault).
NotesStop(i) ==
    /\ term[i] /\ sup[i] \notin {"unborn", "boot", "gone"}
    /\ term' = [term EXCEPT ![i] = FALSE]
    /\ stopReq' = [stopReq EXCEPT ![i] = TRUE]
    /\ stopFile' = TRUE
    /\ UNCHANGED <<scripts, sup, known, service, crashed, supFile, svcFile, rebootFile>>

\* request_stop, between any two commands of the supervisor.
RequestStop(i) ==
    /\ term[i] /\ sup[i] \notin {"unborn", "boot", "gone"}
    /\ term' = [term EXCEPT ![i] = FALSE]
    /\ stopReq' = [stopReq EXCEPT ![i] = TRUE]
    /\ stopFile' = TRUE
    /\ service' = IF known[i] /\ Alive(i) THEN [service EXCEPT ![i] = "stopping"] ELSE service
    /\ UNCHANGED <<scripts, sup, known, crashed, supFile, svcFile, rebootFile>>

------------------------------------------------------------------------------
(* The service process.                                                     *)

Crash(i) == /\ Alive(i)
            /\ service' = [service EXCEPT ![i] = "ended"]
            /\ crashed' = crashed \union {i}
            /\ UNCHANGED <<scripts, supervisor, term, files>>

ObeysStop(i) == /\ service[i] = "stopping"
                /\ service' = [service EXCEPT ![i] = "ended"]
                /\ UNCHANGED <<scripts, supervisor, term, crashed, files>>

------------------------------------------------------------------------------
ScriptStep(s) == \/ StartChecksRunning(s) \/ StartChecksReboot(s) \/ StartCleans(s)
                 \/ StartSpawns(s) \/ StartWrites(s) \/ StartReturns(s)
                 \/ StopSignals(s) \/ StopWaits(s) \/ StopCleans(s)

SupervisorStep(i) == \/ DiesUntrapped(i) \/ SetsTrap(i) \/ ClearsStopFile(i) \/ TestsStop(i)
                     \/ Launches(i) \/ RecordsPid(i) \/ ServiceGone(i) \/ JudgesExit(i)
                     \/ RequiresReboot(i) \/ CleansUp(i) \/ Exits(i) \/ RequestStop(i)

Next == \/ \E s \in Script : ScriptStep(s)
        \/ \E s \in Script, command \in {"start", "stop", "restart"} : Begin(s, command)
        \/ \E i \in Sup : SupervisorStep(i) \/ Crash(i) \/ ObeysStop(i)

Spec == Init /\ [][Next]_vars

\* The shells run, and a service that received TERM ends.
FairSpec == /\ Spec
            /\ \A i \in Sup : WF_vars(SupervisorStep(i)) /\ WF_vars(RequestStop(i))
                              /\ WF_vars(ObeysStop(i) \/ (Crash(i) /\ service[i] = "stopping"))

------------------------------------------------------------------------------
(* Properties.                                                              *)

\* While commands are given one at a time, whatever their order and their
\* time-outs, at most one service process exists, and a supervisor waits for it.
OneService == /\ Cardinality({i \in Sup : Alive(i)}) <= 1
              /\ \A i \in Sup : Alive(i) => (sup[i] \in {"forked", "wait"} /\ supFile \in {i, NoPid})

\* A service that ends by itself under a supervisor nobody asked to stop leaves
\* reboot.required; a stop file of an earlier supervisor does not hide it.
CrashIsFlagged == \A i \in crashed : (sup[i] = "gone" /\ ~stopReq[i]) => rebootFile

\* Once reboot.required is written no service is started.
NoLaunchBeforeReboot ==
    [][rebootFile => (\A i \in Sup : service[i] = "none" => service'[i] = "none")]_vars

\* A TERM that finds its supervisor waiting for the service ends both.
StopTakesEffect == \A i \in Sup : (term[i] /\ sup[i] = "wait") ~> (sup[i] = "gone")

\* doc/部署/05_服务管理与日志.md:33: after an abnormal end of the service it is not
\* started again before a cold boot.
NoLaunchAfterCrash ==
    [][crashed # {} => (\A i \in Sup : service[i] = "none" => service'[i] = "none")]_vars
==============================================================================
