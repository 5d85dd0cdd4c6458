---------------------------- MODULE DesiredConfig ----------------------------
(***************************************************************************)
(* The camera parameters the back office asks for: the one-message slot,   *)
(* workcard_mqtt_process_desired and workcard_mqtt_save_managed_state of   *)
(* demo/src/mqtt/mqtt_demo.c, the camera callback and the start of         *)
(* demo/src/main.c, and the loading of the state file in                   *)
(* demo/src/cloud/internal/config.c.                                       *)
(*                                                                         *)
(* A set of parameters is named by the revision that introduced it; 0 is   *)
(* the set of the delivered configuration file.  The process may crash     *)
(* between any two steps and be started again.  The message with revision  *)
(* 0 stands for every payload the parser refuses; an empty payload empties *)
(* the slot without an answer (mqtt_demo.c:518-520) and is left out.       *)
(***************************************************************************)
EXTENDS Naturals

CONSTANT MaxRevision     \* bound on the revisions of the back office

ASSUME RevisionAssumption == MaxRevision \in Nat

\* The back office numbers its revisions upwards and bases each on an older one.
Message == {m \in [revision : 0 .. MaxRevision, base : 0 .. MaxRevision] :
               m.base < m.revision \/ (m.revision = 0 /\ m.base = 0)}

Report == [revision : Nat, status : {"none", "applied", "rolled_back"}]

VARIABLES
    slot,       \* desired_payload: the empty set or the one message waiting
    current,    \* the parsed message process_desired works on
    step,       \* control point of process_desired and of the process
    memory,     \* demo->configuration_revision and demo->config
    file,       \* revision in managed_state_file, 0 if there is none
    camera,     \* parameters the camera was last started with
    on,         \* the camera session runs
    app,        \* app_config of main.c
    cloud,      \* parameters in cloud->config
    unrestored, \* ghost: the SDK refused to start the previous parameters again
    session,    \* the loop of workcard_mqtt_run_session runs on a live session
    answered,   \* ghost: config/result of the last message to arrive is out
    reported,   \* the retained config/reported message at the broker
    confirmed   \* ghost: the last revision confirmed as "applied"

media == <<camera, on, app, cloud, unrestored>>
dialogue == <<session, answered, reported, confirmed>>
vars == <<slot, current, step, memory, file, media, dialogue>>

TypeOK == /\ slot \subseteq Message /\ \A m1, m2 \in slot : m1 = m2
          /\ current \in Message
          /\ step \in {"down", "idle", "checking", "stopping", "starting", "saving",
                       "restoring", "restarting", "committing"}
          /\ memory \in Nat /\ file \in Nat /\ camera \in Nat /\ app \in Nat /\ cloud \in Nat
          /\ on \in BOOLEAN /\ unrestored \in BOOLEAN
          /\ session \in BOOLEAN /\ answered \in BOOLEAN
          /\ reported \in Report
          /\ confirmed \in Nat

Init == /\ slot = {} /\ current = [revision |-> 0, base |-> 0] /\ step = "down"
        /\ memory = 0 /\ file = 0
        /\ camera = 0 /\ on = FALSE /\ app = 0 /\ cloud = 0 /\ unrestored = FALSE
        /\ session = FALSE /\ answered = FALSE
        /\ reported = [revision |-> 0, status |-> "none"] /\ confirmed = 0

\* config/reported with QoS 1.  A publication that fails closes the session,
\* and may have reached the broker all the same.
PublishReported(revision, status) ==
    /\ reported' \in {reported, [revision |-> revision, status |-> status]}
    /\ session' => reported' = [revision |-> revision, status |-> status]
    /\ confirmed' = IF status = "applied" THEN revision ELSE confirmed

\* config/result, the answer to the message worked on.
PublishResult == /\ session' \in BOOLEAN /\ answered' \in BOOLEAN
                 /\ session' => answered'

\* config/result and then config/reported, which a closed session cannot carry.
Answer(revision, status) == /\ PublishResult
                            /\ PublishReported(revision, status)
                            /\ reported' # reported => answered'

PublishNothing == UNCHANGED dialogue

------------------------------------------------------------------------------
(* The process: main.c and workcard_mqtt_run_session.                       *)

\* The camera is started before the state file is loaded (seeded fault).
ProcessStartsEarly == /\ step = "down"
                      /\ memory' = file /\ app' = file /\ cloud' = file
                      /\ camera' = 0 /\ on' = TRUE /\ unrestored' = FALSE
                      /\ step' = "idle"
                      /\ UNCHANGED <<slot, current, file>>
                      /\ PublishNothing

\* The state file is loaded over the delivered configuration, copies go to the
\* cloud and MQTT clients, and the camera is started.
ProcessStarts == /\ step = "down"
                 /\ memory' = file /\ app' = file /\ cloud' = file
                 /\ camera' = file /\ on' = TRUE /\ unrestored' = FALSE
                 /\ step' = "idle"
                 /\ UNCHANGED <<slot, current, file>>
                 /\ PublishNothing

\* The slot and everything in memory are lost; the file stays.
Crash == /\ step # "down"
         /\ step' = "down"
         /\ slot' = {} /\ on' = FALSE /\ session' = FALSE
         /\ UNCHANGED <<current, memory, file, camera, app, cloud, unrestored, answered,
                        reported, confirmed>>

\* A new MQTT session reports the parameters in memory before its loop begins.
SessionStarts == /\ step = "idle" /\ ~session
                 /\ session' \in BOOLEAN
                 /\ PublishReported(memory, "applied")
                 /\ UNCHANGED <<slot, current, step, memory, file, media, answered>>

\* MQTTYield or the periodic state fails, or the loop is told to stop.
SessionEnds == /\ step = "idle" /\ session
               /\ session' = FALSE
               /\ UNCHANGED <<slot, current, step, memory, file, media, answered, reported,
                              confirmed>>

\* Paho delivers a message while the MQTT thread waits inside one of its calls,
\* in the loop or on the way to it; a newer message replaces one that has not
\* been processed.
MessageArrived(m) == /\ step = "idle"
                     /\ slot' = {m}
                     /\ answered' = FALSE
                     /\ UNCHANGED <<current, step, memory, file, media, session, reported,
                                    confirmed>>

------------------------------------------------------------------------------
(* workcard_mqtt_process_desired.                                           *)

TakeDesired == /\ step = "idle" /\ session
               /\ \E m \in slot : current' = m
               /\ slot' = {}
               /\ step' = "checking"
               /\ UNCHANGED <<memory, file, media>>
               /\ PublishNothing

\* The revision is new and based on the one in force, or the device has none yet.
Acceptable(m) == /\ m.revision > memory
                 /\ m.base = memory \/ (memory = 0 /\ m.base > 0)

\* A message that is refused gets no answer (seeded fault).
RefuseSilently == /\ step = "checking"
                  /\ current.revision # memory \/ current.revision = 0
                  /\ ~Acceptable(current)
                  /\ step' = "idle"
                  /\ UNCHANGED <<slot, current, memory, file, media>>
                  /\ PublishNothing

\* Parser error 2001 or revision conflict 2002: only config/result is published.
RefuseDesired == /\ step = "checking"
                 /\ current.revision # memory \/ current.revision = 0
                 /\ ~Acceptable(current)
                 /\ step' = "idle"
                 /\ PublishResult
                 /\ UNCHANGED <<slot, current, memory, file, media, reported, confirmed>>

\* The revision in force is confirmed again.
ConfirmDuplicate == /\ step = "checking"
                    /\ current.revision # 0
                    /\ current.revision = memory
                    /\ Answer(memory, "applied")
                    /\ step' = "idle"
                    /\ UNCHANGED <<slot, current, memory, file, media>>

AcceptDesired == /\ step = "checking"
                 /\ Acceptable(current)
                 /\ step' = "stopping"
                 /\ UNCHANGED <<slot, current, memory, file, media>>
                 /\ PublishNothing

\* workcard_camera_stop.  The SDK may refuse; the result is ignored.
StopCamera == /\ step \in {"stopping", "restoring"}
              /\ on' \in {on, FALSE}
              /\ step' = IF step = "stopping" THEN "starting" ELSE "restarting"
              /\ UNCHANGED <<slot, current, memory, file, camera, app, cloud, unrestored>>
              /\ PublishNothing

\* The camera runs with the given parameters; main.c and the cloud follow.
CameraRuns(revision) == /\ on' = TRUE /\ unrestored' = FALSE
                        /\ camera' = revision /\ app' = revision /\ cloud' = revision

\* The cloud keeps announcing the old parameters (seeded fault).
StartCameraOnly == /\ step = "starting"
                   /\ on' = TRUE /\ unrestored' = FALSE
                   /\ camera' = current.revision /\ app' = current.revision
                   /\ step' = "saving"
                   /\ UNCHANGED <<slot, current, memory, file, cloud>>
                   /\ PublishNothing

StartCamera == /\ step = "starting"
               /\ CameraRuns(current.revision)
               /\ step' = "saving"
               /\ UNCHANGED <<slot, current, memory, file>>
               /\ PublishNothing

\* The new parameters do not start: 4001 and "rolled_back" are published, the
\* camera stays as the stop has left it.
StartCameraFails == /\ step = "starting"
                    /\ Answer(memory, "rolled_back")
                    /\ step' = "idle"
                    /\ UNCHANGED <<slot, current, memory, file, media>>

\* The temporary file is written but never renamed (seeded fault).
SaveTemporaryOnly == /\ step = "saving"
                     /\ step' = "committing"
                     /\ UNCHANGED <<slot, current, memory, file, media>>
                     /\ PublishNothing

\* The temporary file is complete on disk and renamed over the state file.
SaveState == /\ step = "saving"
             /\ file' = current.revision
             /\ step' = "committing"
             /\ UNCHANGED <<slot, current, memory, media>>
             /\ PublishNothing

\* A failed write, flush, close, chmod or rename leaves the state file as it was.
SaveFails == /\ step = "saving"
             /\ step' = "restoring"
             /\ UNCHANGED <<slot, current, memory, file, media>>
             /\ PublishNothing

\* The previous parameters are started again; 4002 and "rolled_back" follow.
\* The result of this start is ignored.
RestoreCamera == /\ step = "restarting"
                 /\ \/ CameraRuns(memory)
                    \/ unrestored' = TRUE /\ UNCHANGED <<camera, on, app, cloud>>
                 /\ Answer(memory, "rolled_back")
                 /\ step' = "idle"
                 /\ UNCHANGED <<slot, current, memory, file>>

\* The confirmed revision is not remembered (seeded fault).
CommitForgotten == /\ step = "committing"
                   /\ Answer(current.revision, "applied")
                   /\ step' = "idle"
                   /\ UNCHANGED <<slot, current, memory, file, media>>

\* Memory follows the file; only then the revision is confirmed.
CommitDesired == /\ step = "committing"
                 /\ memory' = current.revision
                 /\ Answer(memory', "applied")
                 /\ step' = "idle"
                 /\ UNCHANGED <<slot, current, file, media>>

------------------------------------------------------------------------------
Process == \/ TakeDesired \/ RefuseDesired \/ ConfirmDuplicate \/ AcceptDesired
           \/ StopCamera \/ StartCamera \/ StartCameraFails
           \/ SaveState \/ SaveFails \/ RestoreCamera \/ CommitDesired

Next == \/ ProcessStarts \/ Crash \/ SessionStarts \/ SessionEnds
        \/ (\E m \in Message : MessageArrived(m))
        \/ Process

Spec == Init /\ [][Next]_vars

\* In a live session the loop comes round every second and runs process_desired
\* to its end; camera calls, file writes and publications return (MqttSession has
\* the publication that stalls).  Nothing obliges a message, a session or a restart
\* to come, or a session to last.
FairSpec == Spec /\ WF_vars(Process)

------------------------------------------------------------------------------
(* Properties.                                                              *)

\* Between two messages the copies of the parameters agree, whether the camera
\* runs or not: the MQTT client's with the state file, main.c's with the cloud
\* client's and with the camera's, and these with the file, unless the SDK refused
\* to start the previous parameters again after a failed save: the result of that
\* start is ignored, and the rejected parameters stay with main.c, cloud and, if its
\* stop was refused too, camera (mqtt_demo.c:561-590, main.c:57-73).
Agreement == step = "idle" => /\ memory = file
                              /\ app = cloud
                              /\ on => camera = app
                              /\ app = file \/ unrestored

\* A revision was on disk before it was confirmed as "applied", wherever the
\* process crashes (mqtt_demo.c:573-589).
DurableBeforeApplied == /\ confirmed <= file
                        /\ reported.status = "applied" => reported.revision <= file

\* "应用重启时先加载该状态，再启动摄像头，保证重启不会回退到配置模板中的旧参数"
\* (doc/部署/09_后台动态摄像头配置.md:51): the camera never runs with parameters
\* older than those committed, across late messages, failures and restarts.
NeverStale == on => camera >= file

\* Neither a late or repeated message nor a crash takes the device back to an
\* older revision (mqtt_demo.c:539-544, config.c:71-147).
MonotonicRevision == [][memory' >= memory /\ file' >= file]_vars

\* The message that waits in a live session gets its config/result on every path of
\* the handler, unless a newer one takes its place in the slot or the session ends
\* (mqtt_demo.c:502-591, 916-923).
Answered == \A m \in Message :
    slot = {m} /\ session ~> \/ current = m /\ answered
                             \/ slot \notin {{}, {m}}
                             \/ ~session

\* The device implements the revision register of its protocol.
Register == INSTANCE RevisionRegister WITH committed <- file
RegisterSpec == Register!Spec

\* "新参数启动或状态保存失败，设备已恢复上一份配置"
\* (doc/部署/09_后台动态摄像头配置.md:58): after a
\* roll-back the camera runs with the parameters in memory.
RolledBackMeansRestored == step = "idle" /\ reported.status = "rolled_back" => on /\ camera = memory
===============================================================================
