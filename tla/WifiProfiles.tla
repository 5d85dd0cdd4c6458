---------------------------- MODULE WifiProfiles ----------------------------
(***************************************************************************)
(* The list of Wi-Fi profiles of the back office:                          *)
(* demo/src/network/wifi_profile_store.c with its caller                   *)
(* workcard_mqtt_process_wifi_profiles and the connect command of          *)
(* demo/src/mqtt/mqtt_demo.c, and the check of a list in                   *)
(* wifi_command_parser.c.  The state file and the networks saved by the    *)
(* hardware service outlive the process, which may crash between any two   *)
(* steps.  Passwords, priorities and the revision, which is stored but     *)
(* never compared, are left out.                                           *)
(***************************************************************************)
EXTENDS Naturals, Sequences

CONSTANTS
    Id,         \* profile identifiers
    EmptyId,    \* the identifier of no characters
    Ssid,       \* network names
    List        \* the lists the back office may send

Profile == [id : Id, ssid : Ssid, enabled : BOOLEAN]

ASSUME ListAssumption == List \subseteq Seq(Profile)

VARIABLES
    step,       \* control point of workcard_wifi_profile_store_apply
    command,    \* the list being applied
    index,      \* position in the list of the state file
    file,       \* the list in wifi_state_file, empty if there is none
    networks,   \* networks saved by the hardware service
    unlisted    \* ghost: saved by a connect command while no profile enabled them

work == <<step, command, index>>
storeVars == <<work, file, networks, unlisted>>

Mentioned(list) == {list[i].ssid : i \in DOMAIN list}
Enabled(list) == {list[i].ssid : i \in {j \in DOMAIN list : list[j].enabled}}

StoreTypeOK == /\ step \in {"down", "idle", "load", "remove", "save"}
               /\ command \in Seq(Profile) /\ file \in Seq(Profile)
               /\ index \in 1 .. Len(file) + 1
               /\ networks \subseteq Ssid /\ unlisted \subseteq Ssid

StoreInit == /\ step = "down" /\ command = <<>> /\ index = 1
             /\ file = <<>> /\ networks = {} /\ unlisted = {}

------------------------------------------------------------------------------
(* wifi_profile_store.c                                                     *)

\* Renamed networks are kept (seeded fault).
RetainedById(profile, list) == \E i \in DOMAIN list : list[i].id = profile.id

\* workcard_wifi_store_is_retained: the first entry with the same identifier
\* decides.
Retained(profile, list) ==
    \E i \in DOMAIN list : /\ list[i].id = profile.id
                           /\ \A j \in 1 .. i - 1 : list[j].id # profile.id
                           /\ list[i].enabled /\ list[i].ssid = profile.ssid

\* workcard_wifi_store_parse_profile accepts every line of the file.
Readable(list) == \A i \in DOMAIN list : list[i].id # EmptyId

\* The run is over; its local variables are gone.
Done(label) == step' = label /\ command' = <<>> /\ index' = 1

\* workcard_wifi_store_load of a file the parser refuses: the list is answered
\* with "failed".
LoadFails == /\ step = "load" /\ ~Readable(file)
             /\ Done("idle")
             /\ UNCHANGED <<file, networks, unlisted>>

\* The new list is on disk before the networks are removed (seeded fault).
LoadAndSave == /\ step = "load" /\ Readable(file)
               /\ step' = "remove" /\ index' = 1
               /\ file' = command
               /\ UNCHANGED <<command, networks, unlisted>>

Load == /\ step = "load" /\ Readable(file)
        /\ step' = "remove" /\ index' = 1
        /\ UNCHANGED <<command, file, networks, unlisted>>

Keep == /\ step = "remove" /\ index <= Len(file)
        /\ Retained(file[index], command)
        /\ index' = index + 1
        /\ UNCHANGED <<step, command, file, networks, unlisted>>

\* workcard_wifi_remove_network; removing an unknown network succeeds.
Remove == /\ step = "remove" /\ index <= Len(file)
          /\ ~Retained(file[index], command)
          /\ networks' = networks \ {file[index].ssid}
          /\ unlisted' = unlisted \ {file[index].ssid}
          /\ index' = index + 1
          /\ UNCHANGED <<step, command, file>>

\* An error of the service is passed over (seeded fault).
RemoveErrorIgnored == /\ step = "remove" /\ index <= Len(file)
                      /\ ~Retained(file[index], command)
                      /\ index' = index + 1
                      /\ UNCHANGED <<step, command, file, networks, unlisted>>

\* The service reports an error, with or without having removed the network.
\* The list is answered with "failed" and the file stays.
RemoveFails == /\ step = "remove" /\ index <= Len(file)
               /\ ~Retained(file[index], command)
               /\ networks' \in {networks, networks \ {file[index].ssid}}
               /\ unlisted' = unlisted \intersect networks'
               /\ Done("idle")
               /\ UNCHANGED file

RemovedAll == /\ step = "remove" /\ index > Len(file)
              /\ step' = "save"
              /\ UNCHANGED <<command, index, file, networks, unlisted>>

\* workcard_wifi_store_save: the temporary file is renamed over the state file.
Save == /\ step = "save"
        /\ file' = command
        /\ unlisted' = unlisted \ Enabled(command)
        /\ Done("idle")
        /\ UNCHANGED networks

SaveFails == /\ step = "save"
             /\ Done("idle")
             /\ UNCHANGED <<file, networks, unlisted>>

------------------------------------------------------------------------------
(* The MQTT thread and the process around it.                               *)

\* A list that passed workcard_wifi_profiles_parse.
ListArrives(list) == /\ step = "idle"
                     /\ step' = "load" /\ command' = list
                     /\ UNCHANGED <<index, file, networks, unlisted>>

\* workcard_wifi_connect saves the network whether or not it can be joined.
Connect(s) == /\ step = "idle"
              /\ networks' = networks \union {s}
              /\ unlisted' = IF s \in Enabled(file) THEN unlisted ELSE unlisted \union {s}
              /\ UNCHANGED <<work, file>>

ProcessStarts == /\ step = "down"
                 /\ Done("idle")
                 /\ UNCHANGED <<file, networks, unlisted>>

Crash == /\ step # "down"
         /\ Done("down")
         /\ UNCHANGED <<file, networks, unlisted>>

------------------------------------------------------------------------------
Apply == LoadFails \/ Load \/ Keep \/ Remove \/ RemoveFails \/ RemovedAll \/ Save \/ SaveFails

StoreNext == \/ Apply \/ ProcessStarts \/ Crash
             \/ \E list \in List : ListArrives(list)
             \/ \E s \in Ssid : Connect(s)

StoreSpec == StoreInit /\ [][StoreNext]_storeVars

------------------------------------------------------------------------------
(* Properties.                                                              *)

\* Whatever fails or crashes between two removals, and however lists repeat or
\* overtake each other, the service holds only networks the list on disk
\* enables, apart from those a connect command has added since
\* (wifi_profile_store.c:162-169).
NoStrayNetwork == networks \subseteq Enabled(file) \union unlisted

\* A list reaches the disk only when every network of the list before it that it
\* does not enable is gone, also one that a profile disabled or that was
\* connected again, and also if an earlier attempt stopped half way
\* (doc/部署/04_配置与凭据.md:72).
DropsAreGone ==
    [][file' # file => networks' \intersect Mentioned(file) \subseteq Enabled(file')]_storeVars

\* "SSID、密码和标识不得包含控制字符，避免破坏状态文件或日志格式"
\* (wifi_command_parser.c:167): an accepted list cannot spoil the state file.
StateReadable == Readable(file)
==============================================================================
