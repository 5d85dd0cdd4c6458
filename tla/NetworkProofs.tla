---------------------------- MODULE NetworkProofs ----------------------------
(***************************************************************************)
(* Proofs about what the Wi-Fi commands of the back office do: the switch  *)
(* of the network (NetworkFailover), for every set of Wi-Fi networks, and  *)
(* the list of profiles (WifiProfiles), for every set of identifiers,      *)
(* networks and lists of any length.  The two specifications share no      *)
(* state and no name; the names of the second say Store.                   *)
(***************************************************************************)
EXTENDS NetworkFailover, WifiProfiles, TLAPS

\* Where connect_wifi stands tells whether a switch is recorded; what is recorded
\* is the state of the radio, unless the process was restarted in between.
Recorded ==
    /\ pc \in {"switch", "dns", "associate", "wait", "leave", "leave_route", "leave_dns"} => saved
    /\ pc = "enter" => ~saved
    /\ pc \in {"leave_route", "leave_dns"} => ~wiredRoute
    /\ disturbed = 0 /\ saved => original.dns # Wired
    /\ disturbed = 0 /\ pc = "switch" => ~wiredRoute /\ dns # Wired

IInv == TypeOK /\ Recorded /\ ManagementPath /\ NothingLeftBehind

\* The initial state satisfies the inductive invariant.
LEMMA InitInvariant == Init => IInv
  <1> SUFFICES ASSUME Init PROVE IInv
    OBVIOUS
  <1>1. saved \in BOOLEAN /\ wiredRoute \in BOOLEAN
    BY Zenon DEF Init
  <1> QED
    BY <1>1, NetworkAssumption DEF Init, IInv, TypeOK, Gateway, Resolver, Nothing, Recorded,
       ManagementPath, NothingLeftBehind

\* Every step of the attempt and of its surroundings preserves the invariant.
LEMMA NextInvariant == IInv /\ [Next]_vars => IInv'
  <1> SUFFICES ASSUME IInv, [Next]_vars PROVE IInv'
    OBVIOUS
  <1>0. \A g \in Gateway : g \in Resolver /\ g # Wired
    BY NetworkAssumption DEF Gateway, Resolver
  <1> USE DEF IInv, TypeOK, Recorded, ManagementPath, NothingLeftBehind, wlan, system, process
  <1>1. ASSUME NEW n \in Net, ConnectWifi(n) PROVE IInv'
    BY <1>1 DEF ConnectWifi, Gateway
  <1>2. CASE EnterRefused
    <2>1. original' \in [route : Gateway, dns : Resolver]
      BY <1>2 DEF EnterRefused, Nothing, Gateway, Resolver
    <2> QED
      BY <1>2, <2>1 DEF EnterRefused
  <1>3. CASE EnterSaves
    <2>1. saved' \in BOOLEAN
      BY <1>3, Zenon DEF EnterSaves
    <2>2. /\ original' \in [route : Gateway, dns : Resolver] /\ original'.dns \in {dns, None}
          /\ disturbed' \in Nat /\ (disturbed' = 0 => disturbed = 0)
      BY <1>3 DEF EnterSaves, NoError, FileError, Gateway, Resolver
    <2> QED
      BY <1>3, <2>1, <2>2, NetworkAssumption DEF EnterSaves
  <1>4. CASE EnterSwitches
    <2>1. saved' \in BOOLEAN /\ wiredRoute' \in BOOLEAN
      BY <1>4, Zenon DEF EnterSwitches
    <2> QED
      BY <1>4, <2>1 DEF EnterSwitches
  <1>5. CASE EnterWritesDns
    <2>1. dns' \in Resolver /\ disturbed' \in Nat /\ (disturbed' = 0 => disturbed = 0 /\ dns' = Wired)
      BY <1>5 DEF EnterWritesDns, NoError, FileError, Resolver
    <2> QED
      BY <1>5, <2>1 DEF EnterWritesDns
  <1>6. CASE Associate
    BY <1>6 DEF Associate
  <1>7. CASE WaitWifi
    BY <1>7 DEF WaitWifi
  <1>8. CASE LeaveDeletesWired
    <2>1. wiredRoute' \in BOOLEAN
      BY <1>8, Zenon DEF LeaveDeletesWired
    <2> QED
      BY <1>8, <2>1 DEF LeaveDeletesWired
  <1>9. CASE LeaveRestoresRoute
    BY <1>9 DEF LeaveRestoresRoute
  <1>10. CASE LeaveRestoresDns
    <2>1. saved' \in BOOLEAN
      BY <1>10, Zenon DEF LeaveRestoresDns
    <2>2. /\ dns' \in {dns, original.dns}
          /\ disturbed' \in Nat /\ (disturbed' = 0 => disturbed = 0 /\ dns' = original.dns)
      BY <1>10 DEF LeaveRestoresDns, NoError, FileError
    <2> QED
      BY <1>10, <2>1, <2>2 DEF LeaveRestoresDns
  <1>11. CASE Roam
    BY <1>11 DEF Roam
  <1>12. CASE WifiBound
    BY <1>0, <1>12 DEF WifiBound
  <1>13. CASE WifiDeconfigured
    BY <1>13 DEF WifiDeconfigured, Gateway
  <1>14. CASE WiredLease
    <2>1. wiredRoute' \in BOOLEAN
      BY <1>14, Zenon DEF WiredLease
    <2> QED
      BY <1>14, <2>1 DEF WiredLease
  <1>15. CASE WiredDeconfigured
    <2>1. wiredRoute' \in BOOLEAN
      BY <1>15, Zenon DEF WiredDeconfigured
    <2> QED
      BY <1>15, <2>1 DEF WiredDeconfigured
  <1>16. CASE Restart
    <2>1. saved' \in BOOLEAN
      BY <1>16, Zenon DEF Restart
    <2>2. original' \in [route : Gateway, dns : Resolver]
      BY <1>16 DEF Restart, Nothing, Gateway, Resolver
    <2> QED
      BY <1>16, <2>1, <2>2 DEF Restart, Gateway
  <1>17. CASE UNCHANGED vars
    BY <1>17 DEF vars
  <1> QED
    BY <1>1, <1>2, <1>3, <1>4, <1>5, <1>6, <1>7, <1>8, <1>9, <1>10, <1>11, <1>12, <1>13, <1>14,
       <1>15, <1>16, <1>17 DEF Next

\* The inductive invariant of the failover.
THEOREM Invariant == Spec => []IInv
  <1>1. Init => IInv
    BY InitInvariant
  <1>2. IInv /\ [Next]_vars => IInv'
    BY NextInvariant
  <1> QED
    BY <1>1, <1>2, PTL DEF Spec

------------------------------------------------------------------------------
\* Every variable of the failover keeps its type.
THEOREM TypeCorrect == Spec => []TypeOK
  BY Invariant, PTL DEF IInv

\* Wired route and wired resolver are there from the switch on, until a DHCP event of
\* the interface concerned, a restart or a file error.
THEOREM WiredPathStays == Spec => []ManagementPath
  BY Invariant, PTL DEF IInv

\* An attempt that is over has cleaned up behind itself.
THEOREM CleanEnd == Spec => []NothingLeftBehind
  BY Invariant, PTL DEF IInv

------------------------------------------------------------------------------
(* The profile store.                                                       *)

\* The networks before the position are dealt with: those the new list does not
\* keep are gone.
Swept == /\ step \in {"remove", "save"} =>
               \A i \in DOMAIN file : i < index /\ ~Retained(file[i], command)
                                         => file[i].ssid \notin networks
         /\ step = "save" => index > Len(file)

StoreIInv == StoreTypeOK /\ Swept /\ NoStrayNetwork

\* A profile that is kept is enabled by the new list, whatever identifiers it repeats.
LEMMA RetainedIsEnabled ==
    ASSUME NEW p \in Profile, NEW list \in Seq(Profile), Retained(p, list)
    PROVE  p.ssid \in Enabled(list)
BY DEF Retained, Enabled

\* When the sweep is complete, a network of the old list is gone or enabled by
\* the new one.
LEMMA SweptOut ==
    ASSUME StoreIInv, step = "save"
    PROVE  networks \intersect Mentioned(file) \subseteq Enabled(command)
<1> SUFFICES ASSUME NEW i \in DOMAIN file, file[i].ssid \in networks
             PROVE  file[i].ssid \in Enabled(command)
    BY DEF Mentioned
<1>1. i < index /\ file[i] \in Profile /\ command \in Seq(Profile)
    BY DEF StoreIInv, StoreTypeOK, Swept
<1>2. Retained(file[i], command)
    BY <1>1 DEF StoreIInv, Swept
<1> QED
    BY <1>1, <1>2, RetainedIsEnabled

\* The initial state satisfies the inductive invariant.
LEMMA InitStore == StoreInit => StoreIInv
BY DEF StoreInit, StoreIInv, StoreTypeOK, Swept, NoStrayNetwork, Enabled

\* Every step preserves the inductive invariant.
LEMMA StepStore == StoreIInv /\ [StoreNext]_storeVars => StoreIInv'
<1> SUFFICES ASSUME StoreIInv, [StoreNext]_storeVars
             PROVE  StoreIInv'
    OBVIOUS
<1> USE ListAssumption DEF StoreIInv, StoreTypeOK, Swept, NoStrayNetwork, work, storeVars
<1>1. CASE LoadFails
    BY <1>1 DEF LoadFails, Done
<1>2. CASE Load
    BY <1>2 DEF Load
<1>3. CASE Keep
    BY <1>3 DEF Keep
<1>4. CASE Remove
    BY <1>4 DEF Remove
<1>5. CASE RemoveFails
    BY <1>5 DEF RemoveFails, Done
<1>6. CASE RemovedAll
    BY <1>6 DEF RemovedAll
<1>7. CASE Save
    <2>1. networks \intersect Mentioned(file) \subseteq Enabled(command)
        BY <1>7, SweptOut DEF Save
    <2>2. Enabled(file) \subseteq Mentioned(file)
        BY DEF Enabled, Mentioned
    <2>3. NoStrayNetwork'
        BY <1>7, <2>1, <2>2 DEF Save, Enabled, Mentioned
    <2>4. StoreTypeOK' /\ Swept'
        BY <1>7 DEF Save, Done
    <2> QED
        BY <2>3, <2>4
<1>8. CASE SaveFails
    BY <1>8 DEF SaveFails, Done
<1>9. CASE ProcessStarts
    BY <1>9 DEF ProcessStarts, Done
<1>10. CASE Crash
    BY <1>10 DEF Crash, Done
<1>11. CASE \E list \in List : ListArrives(list)
    BY <1>11 DEF ListArrives
<1>12. CASE \E s \in Ssid : Connect(s)
    BY <1>12 DEF Connect
<1>13. CASE UNCHANGED storeVars
    BY <1>13 DEF Retained, Enabled
<1> QED
    BY <1>1, <1>2, <1>3, <1>4, <1>5, <1>6, <1>7, <1>8, <1>9, <1>10, <1>11, <1>12, <1>13
    DEF StoreNext, Apply

\* The inductive invariant holds in every reachable state.
THEOREM StoreInvariant == StoreSpec => []StoreIInv
BY InitStore, StepStore, PTL DEF StoreSpec

\* Every variable keeps its type; the position never leaves the list on disk.
THEOREM StoreTypeCorrect == StoreSpec => []StoreTypeOK
BY StoreInvariant, PTL DEF StoreIInv

\* The hardware service holds no network that the list on disk does not enable,
\* apart from those a connect command added since.
THEOREM NoStray == StoreSpec => []NoStrayNetwork
BY StoreInvariant, PTL DEF StoreIInv

\* A list is on disk only after all networks it drops are gone.
THEOREM DropsGone == StoreSpec => DropsAreGone
<1>1. StoreIInv /\ [StoreNext]_storeVars
          => [file' # file =>
                networks' \intersect Mentioned(file) \subseteq Enabled(file')]_storeVars
    <2> SUFFICES ASSUME StoreIInv, [StoreNext]_storeVars, file' # file
                 PROVE  networks' \intersect Mentioned(file) \subseteq Enabled(file')
        OBVIOUS
    <2>1. Save
        BY DEF StoreNext, Apply, LoadFails, Load, Keep, Remove,
               RemoveFails, RemovedAll, SaveFails, ProcessStarts,
               Crash, ListArrives, Connect, storeVars
    <2> QED
        BY <2>1, SweptOut DEF Save
<1> QED
    BY <1>1, StoreInvariant, PTL DEF StoreSpec, DropsAreGone
==============================================================================
