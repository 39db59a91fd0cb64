---------------------- MODULE CameraRegistryRefinement ----------------------
(***************************************************************************)
(* CameraRegistry implements DurableRegistry, for every set of cameras and *)
(* threads and every number of restarts, as long as nobody renames and the *)
(* record file opens.  Clients may add, delete and clean while any number  *)
(* of mDNS threads push what they find: even those that push the same      *)
(* camera twice save in turn.  What the abstract registry promises then    *)
(* holds of the code: outside a save, the record names every listed camera *)
(* and a restart loses none.                                               *)
(***************************************************************************)
EXTENDS CameraRegistryProofs

\* The part of the environment the record counts on.
Dependable == SavesLocked /\ ~DiskMayFail

-----------------------------------------------------------------------------
(* What the operations on the list do to the set of its addresses. *)

\* A push adds the address.
LEMMA ListedAppend ==
    ASSUME NEW S, NEW ips \in Seq(S), NEW ip \in S
    PROVE  Listed(Append(ips, ip)) = Listed(ips) \cup {ip}
<1> DEFINE w == Append(ips, ip)
<1>1. /\ Len(w) = Len(ips) + 1
      /\ \A i \in 1..Len(ips) : w[i] = ips[i]
      /\ w[Len(ips) + 1] = ip
    BY AppendProperties
<1> HIDE DEF w
<1>2. Listed(w) \subseteq Listed(ips) \cup {ip}
    BY <1>1 DEF Listed
<1>3. ip \in Listed(w)
    BY <1>1 DEF Listed
<1>4. Listed(ips) \subseteq Listed(w)
    BY <1>1 DEF Listed
<1>5. Listed(w) = Listed(ips) \cup {ip}
    BY <1>2, <1>3, <1>4
<1> QED
    BY <1>5 DEF w

\* Erasing an entry removes its address, or nothing when there is another entry of it.
LEMMA ListedWithout ==
    ASSUME NEW S, NEW ips \in Seq(S), NEW i \in 1..Len(ips)
    PROVE  Listed(Without(ips, i)) \in {Listed(ips) \ {ips[i]}, Listed(ips)}
<1> DEFINE w == Without(ips, i)
<1>1. /\ Len(w) = Len(ips) - 1
      /\ \A j \in 1..(Len(ips) - 1) : w[j] = IF j < i THEN ips[j] ELSE ips[j + 1]
    BY WithoutType
<1> HIDE DEF w
<1>2. Listed(w) \subseteq Listed(ips)
    <2> SUFFICES ASSUME NEW j \in 1..Len(w)
                 PROVE  w[j] \in Listed(ips)
        BY DEF Listed
    <2>1. \E k \in 1..Len(ips) : w[j] = ips[k]
        BY <1>1
    <2> QED
        BY <2>1 DEF Listed
<1>3. Listed(ips) \ {ips[i]} \subseteq Listed(w)
    <2> SUFFICES ASSUME NEW k \in 1..Len(ips), ips[k] # ips[i]
                 PROVE  ips[k] \in Listed(w)
        BY DEF Listed
    <2>1. CASE k < i
        <3>1. k \in 1..Len(w) /\ w[k] = ips[k]
            BY <1>1, <2>1
        <3> QED
            BY <3>1 DEF Listed
    <2>2. CASE k > i
        <3>1. k - 1 \in 1..Len(w) /\ w[k - 1] = ips[k]
            BY <1>1, <2>2
        <3> QED
            BY <3>1 DEF Listed
    <2> QED
        BY <2>1, <2>2
<1>4. Listed(w) \in {Listed(ips) \ {ips[i]}, Listed(ips)}
    BY <1>2, <1>3
<1> QED
    BY <1>4 DEF w

\* Nothing is listed in an empty file.
LEMMA ListedEmpty == Listed(<<>>) = {} /\ Listed(LoadedIps(<<>>)) = {}
BY DEF Listed, LoadedIps

-----------------------------------------------------------------------------
(* The refinement. *)

\* Nobody is saving while ips_mutex is free.
LEMMA FreeMeansSaved ==
    ASSUME HoldersOnly, ips_mutex = NoThread
    PROVE  ~Saving
BY RegistryAssumption DEF HoldersOnly, Saving, Threads

\* A thread that leaves the writer ends the save.
LEMMA LeavingEndsSave ==
    ASSUME TypeOK, HoldersOnly, NEW t \in Threads, pc[t] \in {"open", "write"},
           LeaveWriter(t)
    PROVE  Saving /\ ~Saving'
BY DEF TypeOK, HoldersOnly, Saving, LeaveWriter, Goto

\* A fresh registry is a fresh durable set.
LEMMA InitImplements == Init => Durable!Init
BY ListedEmpty DEF Init, Durable!Init, Saving, AllIdle

\* Every step of the registry is a step of the durable set or leaves it alone.
LEMMA NextImplements ==
    ASSUME Dependable, TypeOK, SaveInv, Next
    PROVE  Durable!Next \/ UNCHANGED Durable!vars
<1> USE DEF Goto, Receives, Waits, listing, pinging, reading, history
<1> DEFINE Goal == Durable!Next \/ UNCHANGED Durable!vars
<1>0. camera_ips \in Seq(Addresses) /\ pc \in [Threads -> Stations]
    BY DEF TypeOK
<1>1. ASSUME NEW h \in Handlers, NEW ip \in Ips, AddCamera(h, ip)
      PROVE  Goal
    <2>1. CASE UNCHANGED <<camera_ips, ips_mutex>> /\ pc' = [pc EXCEPT ![h] = "idle"]
        <3>1. Saving' = Saving
            BY <1>0, <1>1, <2>1 DEF AddCamera, Saving
        <3> QED
            BY <1>1, <2>1, <3>1 DEF AddCamera, Durable!vars
    <2>2. CASE /\ NotListed(ip)
               /\ camera_ips' = Append(camera_ips, ip)
               /\ pc' = [pc EXCEPT ![h] = "open"]
        <3>1. ip \notin Listed(camera_ips)
            BY <2>2 DEF NotListed, Listed
        <3>2. Listed(camera_ips)' = Listed(camera_ips) \cup {ip}
            BY <1>0, <2>2, ListedAppend DEF Addresses
        <3>3. ~Saving
            BY <1>1, FreeMeansSaved DEF AddCamera, SaveInv
        <3>4. Saving'
            BY <1>0, <2>2 DEF Saving, Threads
        <3>5. Durable!Add(ip)
            BY <1>1, <3>1, <3>2, <3>3, <3>4 DEF Durable!Add, AddCamera
        <3> QED
            BY <3>5 DEF Durable!Next, Addresses
    <2> QED
        BY <1>1, <2>1, <2>2, Zenon DEF AddCamera
<1>2. ASSUME NEW h \in Handlers, NEW ip \in Ips, DeleteCamera(h, ip)
      PROVE  Goal
    <2>1. ASSUME NEW i \in 1..Len(camera_ips), camera_ips[i] = ip,
                 camera_ips' = Without(camera_ips, i)
          PROVE  Listed(camera_ips)' \in {Listed(camera_ips) \ {ip}, Listed(camera_ips)}
        BY <1>0, <2>1, ListedWithout
    <2>2. Listed(camera_ips)' \in {Listed(camera_ips) \ {ip}, Listed(camera_ips)}
        <3>1. CASE UNCHANGED camera_ips
            BY <3>1
        <3> QED
            BY <1>2, <2>1, <3>1, Zenon DEF DeleteCamera
    <2>3. UNCHANGED Listed(LoadedIps(record)) /\ UNCHANGED Saving
        BY <1>0, <1>2 DEF DeleteCamera, Saving
    <2>4. ~Saving
        BY <1>2, FreeMeansSaved DEF DeleteCamera, SaveInv
    <2>5. CASE Listed(camera_ips)' = Listed(camera_ips) \ {ip}
        <3>1. Durable!Delete(ip)
            BY <2>3, <2>4, <2>5 DEF Durable!Delete
        <3> QED
            BY <3>1 DEF Durable!Next, Addresses
    <2>6. CASE UNCHANGED Listed(camera_ips)
        BY <2>3, <2>6 DEF Durable!vars
    <2> QED
        BY <2>2, <2>5, <2>6
<1>3. ASSUME NEW h \in Handlers, CleanCameras(h)
      PROVE  Goal
    <2>1. ~Saving
        BY <1>3, FreeMeansSaved DEF CleanCameras, SaveInv
    <2>2. Saving'
        BY <1>0, <1>3 DEF CleanCameras, Saving, Threads
    <2>3. Durable!Clean
        BY <1>3, <2>1, <2>2, ListedEmpty DEF Durable!Clean, CleanCameras
    <2> QED
        BY <2>3 DEF Durable!Next
<1>4. ASSUME NEW h \in Handlers,
             \/ SizeIpBuffer(h) \/ CopyIps(h) \/ SizeAliveBuffer(h) \/ CopyAlive(h)
             \/ WebcamAll(h) \/ WebcamAllDone(h)
             \/ \E c \in Commands : ReceiveLocked(h, c)
      PROVE  Goal
    <2> USE DEF SizeIpBuffer, CopyIps, SizeAliveBuffer, CopyAlive, WebcamAll,
            WebcamAllDone, ReceiveLocked, LockedCommands
    <2>1. UNCHANGED <<camera_ips, record>>
        BY <1>4
    <2>2. \A t \in Threads : pc'[t] \in {"open", "write"} <=> pc[t] \in {"open", "write"}
        BY <1>0, <1>4 DEF Threads
    <2>3. Saving' = Saving
        BY <2>2 DEF Saving
    <2> QED
        BY <2>1, <2>3 DEF Durable!vars
<1>5. ASSUME NEW t \in Threads, OpenRecord(t)
      PROVE  Goal
    <2>1. Saving /\ Saving'
        BY <1>0, <1>5 DEF OpenRecord, Saving
    <2>2. Durable!Truncate
        BY <1>5, <2>1, ListedEmpty DEF Durable!Truncate, OpenRecord
    <2> QED
        BY <2>2 DEF Durable!Next
<1>6. ASSUME NEW t \in Threads, WriteLine(t)
      PROVE  Goal
    BY <1>6 DEF WriteLine, Durable!vars, Saving
<1>7. ASSUME NEW t \in Threads, CloseRecord(t)
      PROVE  Goal
    <2>1. LoadedIps(record)' = camera_ips /\ camera_ips' = camera_ips
        BY <1>7, CloseSavesList DEF SaveInv
    <2>2. Saving /\ ~Saving'
        BY <1>7, LeavingEndsSave DEF CloseRecord, SaveInv
    <2>3. Durable!Save
        BY <2>1, <2>2 DEF Durable!Save
    <2> QED
        BY <2>3 DEF Durable!Next
<1>8. CASE \/ PingStep
           \/ \E ip \in Ips, l \in Links : LinkChange(ip, l)
    <2>1. UNCHANGED <<camera_ips, record, pc>>
        BY <1>8, Zenon DEF PingStep, PingSnapshot, PingOne, PingPublish, LinkChange
    <2> QED
        BY <2>1 DEF Durable!vars, Saving
<1>9. CASE Restart
    <2>1. ~Saving'
        BY <1>9 DEF Restart, AllIdle, Saving
    <2>2. Durable!Restart
        BY <1>9, <2>1 DEF Restart, Durable!Restart
    <2> QED
        BY <2>2 DEF Durable!Next
<1>10. ASSUME NEW h \in Handlers, NEW ip \in Ips, NEW name \in Names,
              RenameCamera(h, ip, name)
       PROVE  FALSE
    BY <1>10 DEF RenameCamera, Dependable, SavesLocked
<1>11. ASSUME NEW s \in Scanners, SinkPush(s)
       PROVE  Goal
    <2>1. found[s] \in Addresses
        BY <1>11 DEF TypeOK, Addresses
    <2>2. Listed(camera_ips)' = Listed(camera_ips) \cup {found[s]}
        BY <1>0, <1>11, <2>1, ListedAppend DEF SinkPush
    <2>3. ~Saving /\ UNCHANGED Listed(LoadedIps(record))
        BY <1>11, FreeMeansSaved DEF SinkPush, SaveInv
    <2>4. Saving'
        BY <1>0, <1>11 DEF SinkPush, Saving, Threads
    <2>5. CASE found[s] \in Listed(camera_ips)
        <3>1. Listed(camera_ips)' = Listed(camera_ips)
            BY <2>2, <2>5
        <3>2. Durable!FindAgain
            BY <2>3, <2>4, <3>1 DEF Durable!FindAgain
        <3> QED
            BY <3>2 DEF Durable!Next
    <2>6. CASE found[s] \notin Listed(camera_ips)
        <3>1. Durable!Add(found[s])
            BY <2>2, <2>3, <2>4, <2>6 DEF Durable!Add
        <3> QED
            BY <2>1, <3>1 DEF Durable!Next
    <2> QED
        BY <2>5, <2>6
<1>12. ASSUME NEW s \in Scanners,
              \/ \E h \in Handlers : ScanCameras(h, s)
              \/ \E ip \in Ips : SinkCheck(s, ip)
              \/ SinkDecide(s)
              \/ DiscoveryEnds(s)
       PROVE  Goal
    <2>1. UNCHANGED <<camera_ips, record>>
        BY <1>12 DEF ScanCameras, SinkCheck, SinkDecide, DiscoveryEnds
    <2>2. \A t \in Threads : pc'[t] \in {"open", "write"} <=> pc[t] \in {"open", "write"}
        BY <1>0, <1>12 DEF ScanCameras, SinkCheck, SinkDecide, DiscoveryEnds, Threads
    <2>3. Saving' = Saving
        BY <2>2 DEF Saving
    <2> QED
        BY <2>1, <2>3 DEF Durable!vars
<1>13. ASSUME NEW t \in Threads, OpenFails(t)
       PROVE  FALSE
    BY <1>13 DEF OpenFails, Dependable
<1> QED
    BY <1>1, <1>2, <1>3, <1>4, <1>5, <1>6, <1>7, <1>8, <1>9, <1>10, <1>11, <1>12,
       <1>13
    DEF Next, HandlerStep, LockedStep, SinkStep, WriterStep, Environment

\* The registry implements the durable set of cameras.
THEOREM RegistryImplementsDurable ==
    ASSUME Dependable
    PROVE  Spec => ImplementsDurable
<1>1. TypeOK /\ SaveInv /\ [Next]_vars => [Durable!Next]_(Durable!vars)
    <2>1. UNCHANGED vars => UNCHANGED Durable!vars
        BY DEF vars, Durable!vars, Saving
    <2> QED
        BY <2>1, NextImplements
<1>2. Spec => [](TypeOK /\ SaveInv)
    BY SaveInvCorrect DEF Dependable
<1> QED
    BY <1>1, <1>2, InitImplements, PTL DEF Spec, ImplementsDurable, Durable!Spec

-----------------------------------------------------------------------------
(* What the durable set promises, carried over. *)

\* Every step of the durable set keeps the listed cameras covered.
LEMMA DurableCovers == Durable!Spec => []RecordCoversList
<1>1. Durable!Init => RecordCoversList
    BY DEF Durable!Init, RecordCoversList
<1>2. RecordCoversList /\ [Durable!Next]_(Durable!vars) => RecordCoversList'
    BY DEF RecordCoversList, Durable!Next, Durable!vars, Durable!Add, Durable!FindAgain,
        Durable!Delete, Durable!Clean, Durable!Truncate, Durable!Save, Durable!Restart
<1> QED
    BY <1>1, <1>2, PTL DEF Durable!Spec

\* Unless a save is under way, the record names every camera of the list.
THEOREM RecordCoversListCorrect ==
    ASSUME Dependable
    PROVE  Spec => []RecordCoversList
BY RegistryImplementsDurable, DurableCovers, PTL DEF ImplementsDurable

\* A crash outside a save loses no camera.
THEOREM DurableRestartCorrect ==
    ASSUME Dependable
    PROVE  Spec => DurableRestart
<1> DEFINE Kept == (restarts' # restarts /\ ~Saving) =>
                        Listed(camera_ips) \subseteq Listed(camera_ips')
<1>1. RecordCoversList /\ [Next]_vars => [Kept]_vars
    <2>1. ASSUME RecordCoversList, Next, restarts' # restarts, ~Saving
          PROVE  Listed(camera_ips) \subseteq Listed(camera_ips')
        <3>1. Restart
            BY <2>1, Zenon
            DEF Next, HandlerStep, LockedStep, SinkStep, WriterStep, PingStep, Environment,
                ReceiveLocked, AddCamera, DeleteCamera, CleanCameras, RenameCamera, ScanCameras, SizeIpBuffer,
                CopyIps, SizeAliveBuffer, CopyAlive, WebcamAll, WebcamAllDone, SinkCheck,
                SinkDecide, SinkPush, DiscoveryEnds, OpenRecord, OpenFails, WriteLine,
                CloseRecord, PingSnapshot, PingOne, PingPublish, LinkChange, history
        <3> QED
            BY <2>1, <3>1 DEF Restart, RecordCoversList
    <2> QED
        BY <2>1
<1> QED
    BY <1>1, RecordCoversListCorrect, PTL DEF Spec, DurableRestart
=============================================================================
