# Verification of the work card SDK and its Demo

TLA+ models of the badge ("work card") software of this repository: ten specifications checked with
TLC, and their safety properties proved with TLAPS for every value of their constants. Source paths below
are relative to the repository root. Every definition that models code has its lines in `PROJECT.json`
under `map`.

## 1. The system

The device runs a closed hardware service (`workcard-sdk-service`) and one client of it, the Demo
(`demo/src`). The Demo streams audio and video to a cloud over WSS, takes commands and camera
parameters from a back office over MQTT, and switches the Wi-Fi network on request. Shell scripts
(`runtime`) start and stop both and bring up the network.

### Components

| Part | State it keeps | Operations | Hard because |
|---|---|---|---|
| Media queue (`cloud_demo.c` 572-742) | linked list, two counters, `media_sender_running`, mutex, condition variable | enqueue from SDK callbacks, drop on overflow, take and send, start, stop | callbacks, sender and stop interleave; two limits; wake-ups |
| Cloud session (`cloud_demo.c`, `websocket_client.c`) | `running`, `reconnect_requested`, gates `authenticated`, `media_upload_enabled`, playback; the connection; a receiver thread per connection | connect, authenticate, heartbeat, reconnect, handle message, update parameters, start, stop | five threads; late messages; checks that are stale when used; stop during connect |
| Camera parameters (`mqtt_demo.c` 462-595, `main.c` 48-76, `config.c` 71-147) | one message slot, revision in memory, state file, parameters of camera, `main.c` and cloud, retained report | receive, check, stop and start camera, save, roll back, commit, report | crashes between the steps; failing steps; repeated and late messages; five copies |
| MQTT session (`mqtt_demo.c`, `mqtt_tls_platform.c`, vendored Paho) | `running`, back-off, connection, Wi-Fi command slot, deferred result; at the broker: presence, will, queued commands | connect, subscribe, announce, yield, serve, report, goodbye, start, stop | QoS 1 with late or lost PUBACK, last will, persistent session, network switches that cut their own connection |
| Network failover (`network_failover.c`, `mqtt_demo.c` 312-381) | saved route and resolver, default routes, `/etc/resolv.conf` | enter, associate, wait, leave | state shared with two DHCP clients; partial failure; restart |
| Hardware service management (`S91workcard_sdk`, `workcard-sdk-supervisor`) | PID files, stop file, reboot flag, trap state | start, stop, restart, supervise | signals between any two shell commands; time-outs; crashes of the service |
| Wi-Fi profile store (`wifi_profile_store.c`, `wifi_command_parser.c`) | profile list on disk, networks saved in the hardware service | apply list, connect | removals one by one, the list saved at the end; crashes in between; late and repeated lists |
| WebSocket client (`websocket_client.c`) | `connected`, socket, TLS session, receiver thread, write mutex; the read position in the byte stream | connect, send, receive, close | two concurrent closes, late senders; three encodings of a length |
| Media packets (`media_packet.c`) | none | build, parse | borders of fields and lengths |
| Parsers and text codec (`wifi_command_parser.c`, `desired_config_parser.c`, `wifi_text_codec.c`, `config.c`) | none | parse | boundaries |
| Main program (`main.c`) | flags set by signals and events | start-up, shutdown, re-exec | a TERM at any point of it |
| Demo service (`S94workcard_demo`) | two PID files, trap of the wrapper | start, stop, restart | a Demo that outlives its wrapper; a wrapper that ends late |
| Wi-Fi worker (`ws73-wifi-worker`), other scripts | none of their own | start, poll | external programs |
| SDK library and service | closed binaries | | external |

### Interactions

- The SDK's receive thread calls the media callbacks, which append to the media queue; the media
  sender takes packets from it and writes them through the WebSocket client if the gates are open.
- The network thread owns the connection; its receiver thread opens and closes the gates; the MQTT
  thread replaces the video parameters (`workcard_cloud_demo_update_video_config`) and thereby
  requests a reconnection.
- The MQTT thread runs everything the back office asks for: Paho calls `message_arrived` from
  within its own waits, which fills one slot for camera parameters and one for Wi-Fi commands; the
  session loop empties them. A Wi-Fi action changes routes and resolver and may cut the connection
  it came by.
- `main.c` starts these threads, waits for a signal or the loss of the SDK, stops them in order, and
  re-executes itself after a loss of the SDK.
- `S91workcard_sdk` and the supervisor, and `S94workcard_demo`, its wrapper and the Demo, communicate by
  signals and files under `/run`.

### What makes each part correct

Queue: bounded, accounted for, newest packets in order, no lost wake-up, empty after stop. Cloud
session: no grant outlives its connection, parameters in force are those authenticated, stop leaves
nothing behind, the client settles after failures. Camera parameters: durable before confirmed,
monotonic, all copies agree. MQTT session: no result lost or reordered, presence tells the truth,
commands are served, stop ends. Failover: a management path during a switch, nothing left behind
after it. Service management: one service, its crash is never followed by a blind restart, a stop
works. Demo service: every Demo can be found and stopped, nobody removes a foreign PID file. Profile
store: no network stays that the list on disk does not enable. WebSocket client: nothing is used or
freed after it was freed, stop releases everything and returns. Bytes: the borders of frames are kept,
the loudspeaker gets what was built.

## 2. Modules

| Module | Models | Notes |
|---|---|---|
| `MediaQueue` | the media queue | one action per critical section; the two dropping loops have an action per packet; a packet is its size, with ghost sequence number and byte offset |
| `MediaWindow` | abstract: a sliding window that forgets and hands over only at its old end | implemented by `MediaQueue` (`WindowSpec`) |
| `CloudSession` | the WSS session: threads network, receiver, sender, MQTT (updates), main | every access under `state_mutex` and every call into the WebSocket client is an action; `close` is two actions, before and after the join of the receiver; the SDK may refuse to change the playback gate |
| `DesiredConfig` | camera parameters from message to report | a set of parameters is its revision; camera stop, start and restoration may be refused; `Crash` may take place between any two steps |
| `RevisionRegister` | abstract: one committed revision that only grows and alone is confirmed | implemented by `DesiredConfig` (`RegisterSpec`) |
| `MqttSession` | MQTT thread, broker side and network | `Publish` is the QoS 1 exchange: acknowledged; failed with the message at the broker; failed without it, over a broken connection or over a live one (`Lapse`: late PUBACK, packet too long). `NotBuilt` is a message the device cannot build; `Stall` is a TLS call without a time limit |
| `NetworkFailover` | one Wi-Fi switch against DHCP clients, roaming, restarts | a network names its gateway and its resolver; both DHCP clients have bound and deconfig |
| `WifiProfiles` | `wifi_profile_store_apply`, connect commands, networks in the hardware service | a list is a sequence of identifier, network and `enabled`; the empty identifier is a value of its own; `Crash` may take place between any two steps |
| `WsClient` | socket, TLS session, receiver and send mutex under network, sender, receiver and main threads | every read or write of a shared field without a mutex is a step; a call that C leaves undefined is recorded in `misuse` and ends the process or returns as a failed call |
| `WsReceiver` | the byte stream of a connection, frame header and mask, media packet | a byte has `Base` values and `ByteXor` is its exclusive or; all numbers of the formats are expressions of `Base`; `stream` is what arrives, `taken` how much of it was read |
| `FrameChannel` | abstract: frames come out one by one, in order and as they were sent, up to one that is refused | implemented by `WsReceiver` (`ChannelSpec`) |
| `DemoService` | S94, its wrapper, the life of the Demo process | wrappers are numbered; one action per shell command that touches shared state; `Trap` is the trap; a waiting wrapper may be killed from outside |
| `SdkService` | S91 and the supervisor | supervisors are numbered; one action per shell command that touches shared state; `RequestStop` is the trap |

`MC<Module>` instantiates a module for TLC, `<Module>Proofs` extends it with the proofs. Two proof modules
serve two specifications each: `NetworkProofs` those of `NetworkFailover` and `WifiProfiles`, `WsProofs`
those of `WsClient` and `WsReceiver`. In `WifiProfiles` and `WsReceiver` the initial states, the next-state
relation and the specification therefore have names of their own (`StoreSpec`, `StreamSpec`).
Definitions marked "seeded fault" are not used by any specification: each is a plausible mistake in
the definition next to it, and with it in place TLC finds the property named in `PROJECT.json`
(`mutants`) violated.

### How state and actions correspond to the code

Variables carry the name of the field they stand for, or have it in the comment beside them. Control
points (`net`, `sender`, `receiver`, `main`, `pc`, `step`, `script`, `sup`) stand for the place in the
function at which the thread is between two actions. Ghost variables, marked as such, record history
for a property and guard nothing: `handed`, `accepted`, `acceptedBytes`, `ajar`, `confirmed`, `answered`,
`unrestored`, `abandoned`, `events`, `crashed`, `misuse`, `unlisted`, `sent` and `border` of `WsReceiver`,
and `lost` of `DemoService`; the counters `faults`, `cuts`, `lapses`, `disturbed`, `issued`, `commands`
only bound the choices of the environment.

External behaviour is taken from its use in the code: Paho returns from a publication with success
or failure; the SDK accepts or refuses a call; the service may end at any time and ends after TERM;
the broker keeps QoS 1 commands for the persistent session (`cleansession = 0`) and publishes the
will when a connection is lost or replaced.

## 3. Runs

| Run | Question | Result |
|---|---|---|
| `media_queue` | Is the queue correct under every interleaving? | holds, 14 051 states |
| `cloud_session` | Is the session safe, and does it recover and stop? | holds, 689 955 states |
| `cloud_stale_check` | Is media written only to an authorised connection, as `cloud_demo.c:545` says? | violated |
| `desired_config` | Do all copies, confirmations and crashes fit together? | holds, 18 568 states |
| `mqtt_session` | Are results, presence, commands and stop right under faults? | holds, 513 307 states |
| `network_failover` | Is there always a path, and is it cleaned up? | holds, 33 709 states |
| `sdk_service` | Is the service unique, its crash flagged, its stop effective? | holds, 49 291 states |
| `wifi_profiles` | Can a failure, a crash or a late list leave a removed network behind? | holds, 4 766 states |
| `demo_service` | Can every Demo be found and stopped, and do late wrappers keep off foreign files? | holds, 55 160 states |
| `demo_restart` | Is there one Demo and one MQTT client, as `S94workcard_demo:78` says? | violated |
| `ws_client` | Are sockets, TLS sessions and receivers used and released right, also when two closes meet? | holds, 94 909 states |
| `ws_receiver` | Does the receiver keep in step with the byte stream, and play what was built? | holds, 324 129 states |

The type invariants are proved (`TypeCorrect`, `StoreTypeCorrect`, `StreamTypeCorrect`) and not repeated in
the runs; `MonotonicRevision` and `ChannelSpec` likewise.

### Properties

- `media_queue`: `CountersAgree`, `Bounded`, `NoLostWakeup`, `DrainedWhenJoined`, `StopTerminates`,
  and the refinement `WindowSpec`.
- `cloud_session`: `ConfigFresh` (a session that is not about to reconnect was authenticated with
  the parameters in force), `GatesBelongToConnection` (an open gate has a grant of this connection; a
  playback gate the SDK refused to close when the turn began is the exception), `StopQuiescent`,
  `StopTerminates`, `Converges`.
- `desired_config`: `Agreement` (between two messages memory is the file, `main.c` is the cloud client,
  the camera, if it runs, is `main.c`, and these are the file, unless the SDK refused the restoring
  start), `DurableBeforeApplied`, `NeverStale`, `Answered` (a message that waits in a live session gets its
  `config/result`, unless a newer one replaces it or the session ends), and the refinement `RegisterSpec`.
- `mqtt_session`: `ResultAccounted` (a result the broker does not have is being published or kept,
  and at most one is), `ResultsInOrder`, `OnlineWhileServing`, `OfflineUnlessAbandoned` (a broker
  without connection shows the device offline, unless the device gave up a live one), `StopTerminates`,
  `CommandServed` (the slot is emptied, by serving the command or a later one that overwrote it). The two
  about results leave out the actions that have none (below).
- `network_failover`: `ManagementPath` (wired route and resolver are in place from the switch to its end,
  the route until a DHCP event of `eth0`, the resolver until a lease of the radio and without file errors; a restart forgets the
  switch, so that nothing is said after it), `NothingLeftBehind` (without restarts and file errors).
- `sdk_service`: `OneService`, `CrashIsFlagged`, `NoLaunchBeforeReboot`, `StopTakesEffect`.
- `wifi_profiles`: `NoStrayNetwork` (the service holds only networks the list on disk enables, apart
  from those a connect command added since), `DropsAreGone` (a list reaches the disk only when
  everything it drops is gone).
- `demo_service`: `StaysReachable` (a Demo with no stop to obey is waited for by its wrapper and found
  by its PID file, or, if the wrapper was killed, by its own), `RemovesOwnFiles`, `StopTakesEffect`.
- `ws_client`: `OneCloserIsSafe` (until a stop the only undefined call is the write of a sender that
  tested the connection before the close), `StopReleasesAll`, `JoinEnds` (a close waits only for a receiver
  that will end: its connection is cut), `StopReturns`.
- `ws_receiver`: `InStep` (the frames handled are the first ones sent, and between two frames the next
  byte is the first of the next), `OnlyBuiltPackets`, `ReadsEverything`.

### Findings

Two statements of the repository are refuted by a run:

1. A sender that passed its checks may write to the next connection, not yet authenticated
   (`cloud_demo.c:547`, run `cloud_stale_check`).
2. The trap ends the wait of the wrapper, which removes both PID files while its Demo is still shutting
   down; the start part of a restart launches a second Demo (`S94workcard_demo:79`, run
   `demo_restart`).

Six more have a configuration of their own, which can be run by hand
(`tlc -config <file> <module>`); TLC finds each of them violated:

| Configuration | Statement | What the code does |
|---|---|---|
| `MCCloudLateMessage.cfg` with `MCCloudSession` | `GatesClosedAfterDisconnect`, comment at `cloud_demo.c:378` | a message the receiver handles during the tear-down reopens a gate after it was closed (379); a playback gate the SDK refuses to close also stays open (381). The next turn closes the gates before it connects, which is why `GatesBelongToConnection` holds but for a second refusal (315) |
| `MCDesiredRolledBack.cfg` with `MCDesiredConfig` | `RolledBackMeansRestored`, `doc/部署/09_后台动态摄像头配置.md:58` | `rolled_back` is reported although the camera is stopped (`mqtt_demo.c:567`) |
| `MCMqttPresence.cfg` with `MCMqttSession` | `StoppedMeansOffline`, comment at `main.c:328` | after a failure over a live connection (late PUBACK, packet too long, message that cannot be built) the DISCONNECT discards the will and nothing replaces the retained online presence (`mqtt_demo.c:865, 940, 953`); `OfflineUnlessAbandoned` says what remains true |
| `MCNetworkWiredKept.cfg` with `MCNetworkFailover` | `WiredRouteKept`, `doc/工牌Demo说明.md:88` | the loss or a renewal of the wired lease takes the wired default route of a failed switch away (`udhcpc-eth0-local-only:13, 26`); `ManagementPath` says what remains true |
| `MCSdkColdBoot.cfg` with `MCSdkService` | `NoLaunchAfterCrash`, `doc/部署/05_服务管理与日志.md:33` | once a stop was requested the supervisor takes every exit for a clean one, also a crash (`workcard-sdk-supervisor:90`); the start part of a restart then launches the service in place |
| `MCWifiStateReadable.cfg` with `MCWifiProfiles` | `StateReadable`, comment at `wifi_command_parser.c:167` | an empty `profileId` passes the parser (161-177) and is saved, and `wifi_profile_store.c:64` refuses to read it again, so that every later list fails |

Seen while modelling, without a property:

- the two closes of a stop may join one receiver twice or free one session twice
  (`websocket_client.c:957-966`), which `ws_client` records as `misuse` and lets end the process;
- a network listed under two identifiers is removed when one of them is dropped, although the other
  enables it (`wifi_profile_store.c:142-151`);
- an action whose request id holds a control character is accepted (`wifi_command_parser.c:137-142`) and
  carried out, and its result is neither published nor kept (`mqtt_demo.c:278-280`): the "mute" action of
  `MqttSession`;
- a playback gate the SDK refuses to close stays open over the next connection (`cloud_demo.c:315, 381`):
  `ajar` of `CloudSession`;
- a restoration the SDK refuses leaves the rejected parameters with `main.c`, the cloud client and, if the
  stop was refused too, the camera (`mqtt_demo.c:575`, `main.c:58`): `unrestored` of `DesiredConfig`;
- a restart during a switch leaves wired route and resolver in place for good (`network_failover.c:128`).

### Bounds

- Queue: three packets, five bytes, sizes 0, 1, 2, 4, 6. Both limits are reached, one arrival evicts
  none to three packets, and the sizes 0 and 6 are refused. Six accepted packets turn the queue over
  twice.
- Cloud: two updates and two failures: an update during each phase of a reconnection, and a failure
  while recovering from one.
- Camera: revisions up to 4, so that late, repeated, conflicting and first revisions exist at once.
- MQTT: three commands of three kinds, two cuts, stalls or refused attempts, one failure over a live
  connection: a result may be deferred, fail again in its flush and be followed by another action.
- Failover: two networks (symmetric) and two restarts or file errors; leases and roaming unbounded.
- Service: three supervisors and five commands, one command at a time, as the boot and the operator
  give them.
- Wi-Fi profiles: two identifiers and the empty one, two networks, lists of at most two profiles: one
  network under two identifiers, two under one, swapped, disabled. Failures, crashes and connects are
  unbounded.
- Demo service: three wrappers and three commands, one at a time: a restart meets a Demo that is still
  shutting down, and another command follows.
- WebSocket client: two connections, so that a late sender, a late mark and a late close meet a new one.
- Bytes: `Base = 8` (256 in the code), where 1 and 64 stand for 125 and 65536, so that payloads of 0 to 65 bytes reach all
  borders of the length; two frames, because what a wrong first frame spoils shows in the second. The
  server's frames may be masked, fragments, too long, closing, or packets damaged in every checked field.

The safety properties of the runs that pass are proved for every value of these bounds. Those of
`sdk_service` and `demo_service` are proved for one invocation of the script at a time, as the runs
have it, and any number of processes and commands.

### Deadlock

`mqtt_session`, `sdk_service`, `demo_service`, `demo_restart`, `ws_client` and `ws_receiver` do not check
deadlock, because there the threads end after a stop, the commands are used up, or the stream has ended.
The queue and the cloud session have an explicit `Finished` step for the same purpose; the others never
stop.

### Fairness and why the code justifies it

- A thread that can run runs (weak fairness of its steps). Waits on the WSS connection are bounded
  by the code: TCP connect by three seconds, the handshakes by five (`websocket_client.c:26-29`),
  writes by `SO_SNDTIMEO` (166), the wait for `auth-ok` by six seconds; the receiver's unbounded read
  ends when `close` shuts the socket down.
- A server that has the auth message answers it (only for `Converges`). Failures are never forced
  and are bounded, so that `Converges` speaks of the time after the last one.
- MQTT: failures are bounded, so that `CommandServed` speaks of the time after the last one.
  A publication ends after the five seconds of `MQTTClientInit`, `MQTTYield` after one second
  plus what keepalive takes, an action after `network_switch_timeout_seconds`. `SSL_connect`
  (`mqtt_tls_platform.c:310`) and an `SSL_read` that has begun a record (124) have no limit: the
  model has them as `Stall`, nothing obliges `StallEnds`, and `StopTerminates` and `CommandServed`
  state what holds unless a call stalls for good. So a stop of the MQTT thread may wait for ever.
- The broker notices a dead connection (its keepalive).
- Camera: within a live session the loop comes round every second and works through `process_desired`;
  camera calls, file writes and publications return. `TakeDesired` is enabled in a live session only;
  nothing obliges a session to begin or to last, so `Answered` is about the time of a session.
- WebSocket client: every thread runs; the steps of a connect and a write end within the limits above, a
  read when its socket is shut down. A thread that waits for `send_mutex` gets it in the end (strong
  fairness of `Locks`): the others come back for it at the pace of the camera and of the heartbeat.
- Bytes: the receiver thread runs.
- Demo service: a shell runs its trap, and an orderly shutdown comes to its end; the latter is what
  `StopReturns` and `StopTerminates` say of the threads it joins, with the exceptions named there.
- Service: the shells run, and a service that received TERM ends, by itself or by a crash. The second
  is an assumption on the closed binary.

## 4. Proofs

For each of the ten specifications there is an inductive invariant (`IInv`; `StoreIInv` of the profile store,
`StreamInv` of the byte stream), proved from the initial states and preserved by every action, one step per
action. TLC checked each of them on the small instances first. The only assumptions are those named in the
modules (`QueueAssumption`, `SessionAssumption`, `RevisionAssumption`, `BoundAssumption`,
`NetworkAssumption`, `ServiceAssumption`, `ListAssumption`, `DemoAssumption`, `WsAssumption`,
`WireAssumption`): bounds are natural numbers, limits are positive, names are distinct; a byte has an even
number of values, 8 or more, a byte that is exclusive-ored twice is itself again, and frames fit their
fields. The theorems of `SdkServiceProofs` and `DemoServiceProofs` also assume `OneAtATime`: one invocation
of the script runs at a time.

- `MediaQueueProofs`. `CountersAgree` is not inductive: after a removal the byte count is that of the
  rest only if consecutive packets are adjacent in the byte stream (`Adjacent`); `Bounded` needs the
  size check of the packet being appended (`Admitted`). Lemmas on `Append` and `Tail` carry the
  argument. Proved: types, counters, bounds, no lost wake-up, drained after stop, and that every
  step is a step of `MediaWindow` or a stutter.
- `CloudSessionProofs`. Grants are tied to connections by where the network thread stands: while it
  is between connections there is no receiver (`NetworkOwnsLink`), what a receiver handles was sent
  on its connection (`MessageGranted`), and a connection begins with closed gates, playback as far as the
  SDK closed it (`ConnectsClosed`). Freshness is carried from the copy of the parameters on (`CopyFresh`).
- `DesiredConfigProofs`. `Progress` says, for each point of `process_desired`, how memory, file and
  message relate: equal up to the rename, the file one revision ahead after it; and which parameters
  `main.c`, cloud and camera have there. The first two copies always move together, a camera that runs
  moves with them (`CopiesMove`). A crash at any point then leaves a file that covers every confirmation. Proved: types, agreement, durability,
  no stale camera, monotonicity, and the implementation of `RevisionRegister`.
- `MqttSessionProofs`. `ResultAccounted` needs that a kept result and a live connection exclude each
  other while commands are taken (`Accounting`); the presence needs that every connection the broker
  knows is covered by a will, and that the device drops a live connection only after its goodbye or as
  `abandoned` (`WillCovers`). `PublishEffect`, `LapseEffect` and `NotBuiltEffect` state once what a
  publication and its failures can do.
- `NetworkProofs`. In the failover, `Recorded` says where in the attempt the former state is on record and
  that, without disturbances, the record never holds the wired resolver; what enter wrote stays until an
  event of its interface is noted in `events`. In the profile store, the networks
  the removal loop has passed and the new list does not keep are gone (`Swept`), and what is kept is enabled
  by the new list (`RetainedIsEnabled`); so the list can be replaced at the end (`SweptOut`), and an attempt
  that fails or crashes leaves the old list, which covers what is still saved.
- `WsProofs`, client. Before a stop the network thread is the only closer, so the session it may free is the
  one whose receiver it has joined: `ReceiverInv`, `SessionInv`, `ClosersInv` and `PongInv` say for each
  of its control points which receiver runs and which session is live. That much does not survive a second
  closer. What does is `StopInv`: how far the main thread has come bounds the network thread (`PhaseInv`), at
  most one receiver has not been joined, and the handle names it unless a close is waiting for it already
  (`OneReceiverInv`), one session is allocated at most and the network thread comes out of its close
  without one, whichever thread has freed it (`ReleaseInv`), and a thread that waits for a receiver waits
  for that of the last connection, whose socket is cut or will be (`JoinInv`). `StopReleasesAll` and `JoinEnds` follow.
- `WsProofs`, receiver. Lemmas on division and on where bytes stand in a sequence (`At`) lead to the shape of
  a frame: a length written in one, three or nine bytes is read back (`LengthShape`), masking twice is the
  identity (`MaskTwice`), a frame is its head, the rest of its length, its key and its data (`FrameShape`).
  A packet that was built is accepted and read as it was (`ParsesBuilt`), and bytes that are accepted are
  those of the packet they are read as, but for the reserved one (`BuildsParsed`). `InStep` is not inductive:
  between two borders the receiver's place is given by the parts it has read (`Position`), and the stream is
  the frames sent, one after the other, as far as it came (`Layout`). Proved from these: types, `InStep`,
  `OnlyBuiltPackets`, that the receiver asks only for bytes of frames that were sent (`AsksOnlyForSent`), and
  that every step is a step of `FrameChannel` or a stutter.
- `SdkServiceProofs`. At most one supervisor is alive, and the PID file or the script that is about to
  write it names it (`SoleInv`); a service runs only under it (`ServiceInv`); the stop file exists only
  where somebody asked for a stop (`FlagInv`); with the reboot flag nobody is on the way to a launch
  (`RebootInv`).
- `DemoServiceProofs`. At most one wrapper has still to write or to remove a PID file, and the wrapper file,
  or the script about to write it, names that one (`FileInv`). A Demo outlives its wrapper only if it was told
  to stop or the wrapper was killed, and then nobody else comes near its PID file (`DemoInv`). `StaysReachable`
  and `RemovesOwnFiles` follow.

Two theorems say what remains true of a statement a run refutes: `GrantsLast` (the sender passes its check
only on a connection with the grants, and only a new connection takes them away, so that the write of
`cloud_stale_check` needs a reconnection between check and write) and `OneServing` (of two Demos at
once, as in `demo_restart`, all but one have a stop to obey, or have lost it to `execv`).

Only model-checked: liveness (`StopTerminates`, `Converges`, `Answered`, `CommandServed`, `StopTakesEffect`,
`StopReturns`, `ReadsEverything`), because fairness needs `ENABLED`, which is out of the prover's reach.
`JoinEnds` and `AsksOnlyForSent` are the parts of `StopReturns` and `ReadsEverything` that are no matter of
fairness, and are proved. That the bytes of the code satisfy `WireAssumption` - `^` undoes itself - is an
assumption of the proofs; TLC evaluates it for the bytes of the run.

## 5. Not modelled

- What an undefined call of two closes, or of a reader and a writer on one `SSL` object, does inside
  OpenSSL: `WsClient` lets it end the process or return as a failed call.
- The time an SSL write may hold `send_mutex`, beyond that it ends.
- Loss of power: the model's crash is that of the process. `save_managed_state` does not synchronise
  the directory after its rename.
- Packets appended between the publication of `media_sender_running` and a failed creation of the
  sender (`cloud_demo.c:504`): they are never freed, and the process ends.
- PID reuse in the scripts, two invocations of the same script at once, and the kill of the supervisor
  itself (S91 then sees a dead PID and a service without supervisor). A wrapper is killed only while it
  waits. A failed write of the reboot flag.
- A state file of the camera that cannot be opened, which is taken for none (`config.c:78`), and an empty
  camera message, which empties the slot without an answer (`mqtt_demo.c:518-520`).
- Read errors of the profile list, which count as no list or a shorter one
  (`wifi_profile_store.c:87, 101`).
- A broker that has lost its persistent session; the order of two retained messages.
- The scanning of texts: JSON commands, configuration file, URL, HTTP upgrade, the escapes of the text
  codec. They are sequential functions without state, covered by `demo/tests` where they matter; the
  models take their verdict as an input.
- RSV bits of a frame, which the receiver ignores; a failed `malloc`; the scan for H.264 key frames, which
  only sets a flag of the packet.
- Boot scripts (`S80network`, `S89eth0_dhcp`, `S92workcard_wifi`, `ws73-wifi-worker`): they run once, poll
  external programs and keep no state of their own.
- Bluetooth (a sequential pass over SDK calls and scripts of external commands), build, installation
  and packaging, vendored Paho and OpenSSL beyond their interface, and the closed SDK.

## 6. Plan

Done, in this order: `MediaQueue` with `MediaWindow`; `CloudSession`; `DesiredConfig` with
`RevisionRegister`; `MqttSession`; `NetworkFailover`; `SdkService`; `WifiProfiles`; `DemoService`;
`WsClient`; `WsReceiver` with `FrameChannel`; the proofs of the safety properties of all of them.

Left, by importance:

1. What is still true of `SdkService` and `DemoService` when two invocations of a script overlap, and a proof
   of it without `OneAtATime`.
2. Abstract specifications of the results of `MqttSession` (an outbox that keeps order) and of `WifiProfiles`
   (a set of networks that follows the list), with their refinements.
3. `WifiWorker`: start of driver and supplicant by polling in `ws73-wifi-worker`, if the outcomes of the
   external programs are to be judged.
4. The texts: acceptance rules of the parsers as operators with a reference definition.
