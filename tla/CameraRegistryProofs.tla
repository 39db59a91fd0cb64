------------------------ MODULE CameraRegistryProofs ------------------------
(***************************************************************************)
(* Theorems about CameraRegistry, for every set of cameras, names, threads *)
(* and bounds.  The type invariant holds whatever clients send; saves are  *)
(* exclusive, and complete, as long as nobody renames; no camera is listed *)
(* twice as long as one thread at a time decides what is new.              *)
(***************************************************************************)
EXTENDS CameraRegistry, SequenceTheorems, TLAPS

-----------------------------------------------------------------------------
(* Lemmas about the operators on lists and records. *)

\* Erasing one entry of a list of addresses leaves a list of addresses.
LEMMA WithoutType ==
    ASSUME NEW S, NEW ips \in Seq(S), NEW i \in 1..Len(ips)
    PROVE  /\ Without(ips, i) \in Seq(S)
           /\ Len(Without(ips, i)) = Len(ips) - 1
           /\ \A j \in 1..(Len(ips) - 1) :
                Without(ips, i)[j] = IF j < i THEN ips[j] ELSE ips[j + 1]
<1> DEFINE n == Len(ips) - 1
           w == [j \in 1..n |-> IF j < i THEN ips[j] ELSE ips[j + 1]]
<1>1. n \in Nat
    OBVIOUS
<1>2. \A j \in 1..n : w[j] \in S
    OBVIOUS
<1>3. w \in [1..n -> S]
    BY <1>2
<1>4. w \in Seq(S) /\ Len(w) = n
    BY <1>1, <1>3
<1> QED
    BY <1>4 DEF Without

\* Loading a record gives the addresses of its lines, in order.
LEMMA LoadedType ==
    ASSUME NEW file \in Seq(Line)
    PROVE  /\ LoadedIps(file) \in Seq(Addresses)
           /\ Len(LoadedIps(file)) = Len(file)
           /\ \A i \in 1..Len(file) : LoadedIps(file)[i] = file[i].ip
<1> DEFINE n == Len(file)
           w == [i \in 1..n |-> file[i].ip]
<1>1. n \in Nat
    OBVIOUS
<1>2. \A i \in 1..n : file[i] \in Line
    OBVIOUS
<1>3. w \in [1..n -> Addresses]
    BY <1>2 DEF Line
<1>4. w \in Seq(Addresses) /\ Len(w) = n
    BY <1>1, <1>3
<1> QED
    BY <1>4 DEF LoadedIps

\* There may be no addresses and no lines.
LEMMA NoLines == <<>> \in Seq(Addresses) /\ <<>> \in Seq(Line)
BY EmptySeq

\* Whatever overlaps with whatever, a flush leaves a sequence of lines.
LEMMA FlushesType ==
    ASSUME NEW lines \in Seq(Line), NEW file \in Seq(Line)
    PROVE  Flushes(lines, file) \subseteq Seq(Line)
<1>1. \A rest \in Suffixes(file) : rest \in Seq(Line)
    <2> SUFFICES ASSUME NEW rest \in Suffixes(file)
                 PROVE  rest \in Seq(Line)
        OBVIOUS
    <2>1. PICK i \in 1..(Len(file) + 1) : rest = SubSeq(file, i, Len(file))
        BY DEF Suffixes
    <2>2. \A j \in i..Len(file) : file[j] \in Line
        OBVIOUS
    <2> QED
        BY <2>1, <2>2, SubSeqProperties
<1>2. <<[ip |-> Torn, name |-> NoName]>> \in Seq(Line)
    BY DEF Line, Addresses
<1>3. \A rest \in Remains(file) : rest \in Seq(Line)
    BY <1>1, <1>2, ConcatProperties DEF Remains
<1> QED
    BY <1>3, ConcatProperties DEF Flushes

\* A fresh server: nobody is doing anything.
LEMMA FreshType ==
    /\ Quiet \in [Threads -> Seq(Line)]
    /\ Quiet \in [Threads -> Seq(Addresses)]
    /\ AllIdle \in [Threads -> Stations]
    /\ Nothing \in [Scanners -> Ips]
    /\ NoPing \in [on : BOOLEAN, todo : Seq(Addresses), fine : Seq(Addresses)]
<1>1. (CHOOSE ip \in Ips : TRUE) \in Ips
    BY RegistryAssumption
<1>2. Nothing \in [Scanners -> Ips]
    BY <1>1 DEF Nothing
<1> QED
    BY <1>2, NoLines DEF Quiet, AllIdle, NoPing, Stations

-----------------------------------------------------------------------------
(* Type correctness, for all commands, threads and faults. *)

\* Every reachable state is well typed.
THEOREM TypeCorrect == Spec => []TypeOK
<1>1. Init => TypeOK
    <2> SUFFICES ASSUME Init
                 PROVE  TypeOK
        OBVIOUS
    <2>1. camera_name \in [Addresses -> Names \cup {NoName}]
        BY DEF Init
    <2>2. 0 \in 0..MaxRestarts
        BY RegistryAssumption
    <2>3. FALSE \in BOOLEAN
        OBVIOUS
    <2> QED
        BY <2>1, <2>2, <2>3, FreshType, NoLines, Zenon DEF Init, TypeOK
<1>2. TypeOK /\ [Next]_vars => TypeOK'
    <2> SUFFICES ASSUME TypeOK, [Next]_vars
                 PROVE  TypeOK'
        OBVIOUS
    <2> USE DEF TypeOK, Threads, Stations, LockedCommands, Goto, Receives, Waits, listing,
            pinging, reading, history
    <2>1. ASSUME NEW h \in Handlers, NEW ip \in Ips, AddCamera(h, ip)
          PROVE  TypeOK'
        <3>1. camera_ips' \in Seq(Addresses)
            <4>1. Append(camera_ips, ip) \in Seq(Addresses)
                BY DEF Addresses
            <4>2. camera_ips' = Append(camera_ips, ip) \/ camera_ips' = camera_ips
                BY <2>1, Zenon DEF AddCamera
            <4> QED
                BY <4>1, <4>2
        <3>2. ips_mutex' \in Threads \cup {NoThread}
            BY <2>1 DEF AddCamera
        <3>3. pc' \in [Threads -> Stations]
            BY <2>1 DEF AddCamera
        <3> QED
            BY <2>1, <3>1, <3>2, <3>3 DEF AddCamera
    <2>2. ASSUME NEW h \in Handlers, NEW ip \in Ips, DeleteCamera(h, ip)
          PROVE  TypeOK'
        <3>1. ASSUME NEW i \in 1..Len(camera_ips), camera_ips' = Without(camera_ips, i)
              PROVE  camera_ips' \in Seq(Addresses)
            BY <3>1, WithoutType
        <3>2. camera_ips' \in Seq(Addresses)
            BY <2>2, <3>1, Zenon DEF DeleteCamera
        <3> QED
            BY <2>2, <3>2 DEF DeleteCamera
    <2>3. ASSUME NEW h \in Handlers, CleanCameras(h)
          PROVE  TypeOK'
        BY <2>3 DEF CleanCameras
    <2>4. ASSUME NEW h \in Handlers, NEW ip \in Ips, NEW name \in Names,
                 RenameCamera(h, ip, name)
          PROVE  TypeOK'
        BY <2>4 DEF RenameCamera, Addresses
    <2>5. ASSUME NEW h \in Handlers, NEW s \in Scanners, ScanCameras(h, s)
          PROVE  TypeOK'
        BY <2>5 DEF ScanCameras
    <2>6. ASSUME NEW h \in Handlers, SizeIpBuffer(h) \/ SizeAliveBuffer(h)
          PROVE  TypeOK'
        <3>1. CASE SizeIpBuffer(h)
            BY <3>1 DEF SizeIpBuffer
        <3>2. CASE SizeAliveBuffer(h)
            BY <3>2 DEF SizeAliveBuffer
        <3> QED
            BY <2>6, <3>1, <3>2
    <2>7. ASSUME NEW h \in Handlers, CopyIps(h) \/ CopyAlive(h)
          PROVE  TypeOK'
        <3>1. overrun' \in BOOLEAN
            BY <2>7, Zenon DEF CopyIps, CopyAlive
        <3>2. CASE CopyIps(h)
            BY <3>1, <3>2, NoLines DEF CopyIps
        <3>3. CASE CopyAlive(h)
            BY <3>1, <3>3, NoLines DEF CopyAlive
        <3> QED
            BY <2>7, <3>2, <3>3
    <2>8. ASSUME NEW h \in Handlers, WebcamAll(h) \/ WebcamAllDone(h)
          PROVE  TypeOK'
        BY <2>8 DEF WebcamAll, WebcamAllDone
    <2>9. ASSUME NEW s \in Scanners, SinkStep(s)
          PROVE  TypeOK'
        <3>1. ASSUME NEW ip \in Ips, SinkCheck(s, ip)
              PROVE  TypeOK'
            BY <3>1 DEF SinkCheck
        <3>2. CASE SinkDecide(s)
            BY <3>2, NoLines DEF SinkDecide
        <3>3. CASE SinkPush(s)
            BY <3>3 DEF SinkPush, Addresses
        <3>4. CASE DiscoveryEnds(s)
            BY <3>4 DEF DiscoveryEnds
        <3> QED
            BY <2>9, <3>1, <3>2, <3>3, <3>4 DEF SinkStep
    <2>10. ASSUME NEW t \in Threads, OpenRecord(t) \/ OpenFails(t)
           PROVE  TypeOK'
        <3>1. CASE OpenRecord(t)
            BY <3>1, NoLines DEF OpenRecord
        <3>2. CASE OpenFails(t)
            BY <3>2 DEF OpenFails, LeaveWriter
        <3> QED
            BY <2>10, <3>1, <3>2
    <2>11. ASSUME NEW t \in Threads, WriteLine(t)
           PROVE  TypeOK'
        <3>1. camera_ips[Len(out[t]) + 1] \in Addresses
            BY <2>11 DEF WriteLine, MoreLines
        <3>2. LineOf(camera_ips[Len(out[t]) + 1]) \in Line
            BY <3>1 DEF LineOf, Line
        <3> QED
            BY <2>11, <3>2 DEF WriteLine
    <2>12. ASSUME NEW t \in Threads, CloseRecord(t)
           PROVE  TypeOK'
        <3>1. record' \in Seq(Line)
            BY <2>12, FlushesType DEF CloseRecord
        <3> QED
            BY <2>12, <3>1 DEF CloseRecord, LeaveWriter
    <2>13. CASE PingStep
        <3>1. CASE PingSnapshot
            BY <3>1, NoLines DEF PingSnapshot
        <3>2. CASE PingOne
            <4>1. Head(ping.todo) \in Addresses /\ Tail(ping.todo) \in Seq(Addresses)
                BY <3>2, HeadTailProperties DEF PingOne
            <4>2. ping' \in [on : BOOLEAN, todo : Seq(Addresses), fine : Seq(Addresses)]
                BY <3>2, <4>1 DEF PingOne
            <4> QED
                BY <3>2, <4>2 DEF PingOne
        <3>3. CASE PingPublish
            BY <3>3, NoLines DEF PingPublish, NoPing
        <3> QED
            BY <2>13, <3>1, <3>2, <3>3 DEF PingStep
    <2>14. ASSUME NEW ip \in Ips, NEW l \in Links, LinkChange(ip, l)
           PROVE  TypeOK'
        BY <2>14 DEF LinkChange
    <2>15. CASE Restart
        <3>1. camera_ips' \in Seq(Addresses)
            BY <2>15, LoadedType DEF Restart
        <3>2. camera_name' \in [Addresses -> Names \cup {NoName}]
            BY <2>15 DEF Restart, LoadedNames
        <3>3. restarts' \in 0..MaxRestarts
            BY <2>15, RegistryAssumption DEF Restart
        <3>4. FALSE \in BOOLEAN
            OBVIOUS
        <3> QED
            BY <2>15, <3>1, <3>2, <3>3, <3>4, FreshType, NoLines, Zenon DEF Restart
    <2>16. ASSUME NEW h \in Handlers, NEW c \in Commands, ReceiveLocked(h, c)
           PROVE  TypeOK'
        BY <2>16 DEF ReceiveLocked
    <2>17. CASE UNCHANGED vars
        BY <2>17 DEF vars
    <2> QED
        BY <2>1, <2>2, <2>3, <2>4, <2>5, <2>6, <2>7, <2>8, <2>9, <2>10, <2>11, <2>12,
           <2>13, <2>14, <2>15, <2>16, <2>17
        DEF Next, HandlerStep, LockedStep, WriterStep, Environment
<1> QED
    BY <1>1, <1>2, PTL DEF Spec

-----------------------------------------------------------------------------
(* Exclusive saves.  renameCameras alone saves without ips_mutex: as long as  *)
(* nobody renames, every writer of the record holds it, mDNS threads too.     *)

SavesLocked == "rename" \notin Commands

\* Whoever saves, or is in the HTTP calls of a webcam command, holds ips_mutex.
HoldersOnly == \A t \in Threads : pc[t] \in {"open", "write", "http"} => ips_mutex = t

\* A thread that writes found an empty file, and what it has written so far are
\* the first cameras of the list; the others have written nothing.
WriterOnTrack ==
    /\ \A t \in Threads : pc[t] # "write" => out[t] = <<>>
    /\ \A t \in Threads : pc[t] = "write" =>
         /\ record = <<>>
         /\ Len(out[t]) <= Len(camera_ips)
         /\ \A i \in 1..Len(out[t]) : out[t][i].ip = camera_ips[i]

\* The inductive invariant.
SaveInv == HoldersOnly /\ WriterOnTrack

\* A writer at the end of the list leaves the cameras of the list in the file.
LEMMA CloseSavesList ==
    ASSUME TypeOK, WriterOnTrack, NEW t \in Threads, CloseRecord(t)
    PROVE  /\ record' \in Seq(Line)
           /\ LoadedIps(record') = camera_ips
           /\ camera_ips' = camera_ips
<1>1. record' = out[t]
    BY DEF CloseRecord, WriterOnTrack, Flushes
<1>2. out[t] \in Seq(Line) /\ camera_ips \in Seq(Addresses)
    BY DEF TypeOK
<1>3. Len(out[t]) = Len(camera_ips)
    BY <1>2 DEF CloseRecord, MoreLines, WriterOnTrack
<1>4. \A i \in 1..Len(camera_ips) : out[t][i].ip = camera_ips[i]
    BY <1>3 DEF CloseRecord, WriterOnTrack
<1>5. LoadedIps(out[t]) = camera_ips
    BY <1>2, <1>3, <1>4, LoadedType, SeqEqual
<1> QED
    BY <1>1, <1>2, <1>5 DEF CloseRecord, listing

\* The invariant is inductive, whatever the mDNS threads do.
LEMMA SaveInvStep ==
    ASSUME SavesLocked, TypeOK, SaveInv, Next
    PROVE  SaveInv'
<1> USE DEF TypeOK, Goto, Receives, Waits, listing, pinging, reading, history
<1>1. ASSUME NEW h \in Handlers, NEW ip \in Ips, AddCamera(h, ip)
      PROVE  SaveInv'
    <2>1. CASE UNCHANGED <<camera_ips, ips_mutex>> /\ pc' = [pc EXCEPT ![h] = "idle"]
        BY <1>1, <2>1 DEF AddCamera, SaveInv, HoldersOnly, WriterOnTrack
    <2>2. CASE /\ camera_ips' = Append(camera_ips, ip)
               /\ ips_mutex' = h
               /\ pc' = [pc EXCEPT ![h] = "open"]
        <3>1. HoldersOnly'
            BY <1>1, <2>2, RegistryAssumption DEF AddCamera, SaveInv, HoldersOnly, Threads
        <3>2. WriterOnTrack'
            BY <1>1, <2>2, RegistryAssumption
            DEF AddCamera, SaveInv, HoldersOnly, WriterOnTrack, Threads
        <3> QED
            BY <3>1, <3>2 DEF SaveInv
    <2> QED
        BY <1>1, <2>1, <2>2, Zenon DEF AddCamera
<1>2. ASSUME NEW h \in Handlers, NEW ip \in Ips, DeleteCamera(h, ip)
      PROVE  SaveInv'
    <2>1. HoldersOnly'
        BY <1>2 DEF DeleteCamera, SaveInv, HoldersOnly
    <2>2. \A t \in Threads : pc[t] # "write"
        BY <1>2, RegistryAssumption DEF DeleteCamera, SaveInv, HoldersOnly, Threads
    <2>3. WriterOnTrack'
        BY <1>2, <2>2 DEF DeleteCamera, SaveInv, WriterOnTrack
    <2> QED
        BY <2>1, <2>3 DEF SaveInv
<1>3. ASSUME NEW h \in Handlers, CleanCameras(h)
      PROVE  SaveInv'
    <2>1. HoldersOnly'
        BY <1>3, RegistryAssumption DEF CleanCameras, SaveInv, HoldersOnly, Threads
    <2>2. WriterOnTrack'
        BY <1>3, RegistryAssumption
        DEF CleanCameras, SaveInv, HoldersOnly, WriterOnTrack, Threads
    <2> QED
        BY <2>1, <2>2 DEF SaveInv
<1>4. ASSUME NEW h \in Handlers,
             \/ SizeIpBuffer(h) \/ CopyIps(h) \/ SizeAliveBuffer(h) \/ CopyAlive(h)
             \/ WebcamAll(h) \/ WebcamAllDone(h)
             \/ \E c \in Commands : ReceiveLocked(h, c)
      PROVE  SaveInv'
    <2>1. UNCHANGED <<camera_ips, record, out>>
        BY <1>4 DEF SizeIpBuffer, CopyIps, SizeAliveBuffer, CopyAlive, WebcamAll,
            WebcamAllDone, ReceiveLocked
    <2>2. HoldersOnly'
        <3> USE RegistryAssumption DEF SaveInv, HoldersOnly, Threads
        <3>1. CASE SizeIpBuffer(h)
            BY <3>1 DEF SizeIpBuffer
        <3>2. CASE CopyIps(h)
            BY <3>2 DEF CopyIps
        <3>3. CASE SizeAliveBuffer(h)
            BY <3>3 DEF SizeAliveBuffer
        <3>4. CASE CopyAlive(h)
            BY <3>4 DEF CopyAlive
        <3>5. CASE WebcamAll(h)
            BY <3>5 DEF WebcamAll
        <3>6. CASE WebcamAllDone(h)
            BY <3>6 DEF WebcamAllDone
        <3>7. ASSUME NEW c \in Commands, ReceiveLocked(h, c)
              PROVE  HoldersOnly'
            BY <3>7 DEF ReceiveLocked, LockedCommands
        <3> QED
            BY <1>4, <3>1, <3>2, <3>3, <3>4, <3>5, <3>6, <3>7
    <2>3. \A t \in Threads : pc'[t] = "write" <=> pc[t] = "write"
        BY <1>4
        DEF SizeIpBuffer, CopyIps, SizeAliveBuffer, CopyAlive, WebcamAll, WebcamAllDone,
            ReceiveLocked, LockedCommands, Threads
    <2>4. WriterOnTrack'
        BY <2>1, <2>3 DEF SaveInv, WriterOnTrack
    <2> QED
        BY <2>2, <2>4 DEF SaveInv
<1>5. ASSUME NEW h \in Handlers, NEW s \in Scanners, ScanCameras(h, s)
      PROVE  SaveInv'
    BY <1>5 DEF ScanCameras, SaveInv, HoldersOnly, WriterOnTrack, Threads
<1>6. ASSUME NEW h \in Handlers, NEW ip \in Ips, NEW name \in Names,
             RenameCamera(h, ip, name)
      PROVE  FALSE
    BY <1>6 DEF RenameCamera, SavesLocked
<1>7. ASSUME NEW s \in Scanners, SinkStep(s)
      PROVE  SaveInv'
    <2>1. CASE SinkPush(s)
        <3>1. HoldersOnly'
            BY <2>1, RegistryAssumption DEF SinkPush, SaveInv, HoldersOnly, Threads
        <3>2. WriterOnTrack'
            BY <2>1, RegistryAssumption
            DEF SinkPush, SaveInv, HoldersOnly, WriterOnTrack, Threads
        <3> QED
            BY <3>1, <3>2 DEF SaveInv
    <2>2. ASSUME NEW ip \in Ips, SinkCheck(s, ip)
          PROVE  SaveInv'
        BY <2>2 DEF SinkCheck, SaveInv, HoldersOnly, WriterOnTrack, Threads
    <2>3. CASE SinkDecide(s)
        BY <2>3 DEF SinkDecide, SaveInv, HoldersOnly, WriterOnTrack, Threads
    <2>4. CASE DiscoveryEnds(s)
        BY <2>4 DEF DiscoveryEnds, SaveInv, HoldersOnly, WriterOnTrack, Threads
    <2> QED
        BY <1>7, <2>1, <2>2, <2>3, <2>4 DEF SinkStep
<1>8. ASSUME NEW t \in Threads, OpenRecord(t)
      PROVE  SaveInv'
    <2>1. HoldersOnly'
        BY <1>8 DEF OpenRecord, SaveInv, HoldersOnly, Threads
    <2>2. WriterOnTrack'
        BY <1>8 DEF OpenRecord, SaveInv, HoldersOnly, WriterOnTrack
    <2> QED
        BY <2>1, <2>2 DEF SaveInv
<1>9. ASSUME NEW t \in Threads, OpenFails(t)
      PROVE  SaveInv'
    <2>1. HoldersOnly'
        BY <1>9 DEF OpenFails, LeaveWriter, SaveInv, HoldersOnly, Threads
    <2>2. WriterOnTrack'
        BY <1>9 DEF OpenFails, LeaveWriter, SaveInv, WriterOnTrack
    <2> QED
        BY <2>1, <2>2 DEF SaveInv
<1>10. ASSUME NEW t \in Threads, WriteLine(t)
       PROVE  SaveInv'
    <2>1. LineOf(camera_ips[Len(out[t]) + 1]).ip = camera_ips[Len(out[t]) + 1]
        BY DEF LineOf
    <2>2. ASSUME NEW u \in Threads, pc[u] = "write"
          PROVE  /\ Len(out'[u]) <= Len(camera_ips)
                 /\ \A i \in 1..Len(out'[u]) : out'[u][i].ip = camera_ips[i]
        <3>1. CASE u = t
            <4> DEFINE line == LineOf(camera_ips[Len(out[t]) + 1])
            <4>1. out'[t] = Append(out[t], line)
                BY <1>10 DEF WriteLine
            <4>2. /\ Len(out'[t]) = Len(out[t]) + 1
                  /\ \A i \in 1..Len(out[t]) : out'[t][i] = out[t][i]
                  /\ out'[t][Len(out[t]) + 1] = line
                <5> HIDE DEF line
                <5> QED
                    BY <4>1
            <4> HIDE DEF line
            <4> QED
                BY <1>10, <2>1, <2>2, <3>1, <4>2
                DEF WriteLine, MoreLines, SaveInv, WriterOnTrack, line
        <3>2. CASE u # t
            BY <1>10, <2>2, <3>2 DEF WriteLine, SaveInv, WriterOnTrack
        <3> QED
            BY <3>1, <3>2
    <2>3. WriterOnTrack'
        BY <1>10, <2>2 DEF WriteLine, SaveInv, WriterOnTrack
    <2> QED
        BY <1>10, <2>3
        DEF WriteLine, SaveInv, HoldersOnly
<1>11. ASSUME NEW t \in Threads, CloseRecord(t)
       PROVE  SaveInv'
    <2>1. HoldersOnly'
        BY <1>11 DEF CloseRecord, LeaveWriter, SaveInv, HoldersOnly, Threads
    <2>2. \A u \in Threads : pc[u] = "write" => u = t
        BY <1>11 DEF CloseRecord, SaveInv, HoldersOnly
    <2>3. WriterOnTrack'
        BY <1>11, <2>2 DEF CloseRecord, LeaveWriter, SaveInv, WriterOnTrack
    <2> QED
        BY <2>1, <2>3 DEF SaveInv
<1>12. CASE \/ PingStep
            \/ \E ip \in Ips, l \in Links : LinkChange(ip, l)
    <2>1. UNCHANGED <<camera_ips, record, ips_mutex, pc, out>>
        BY <1>12, Zenon
        DEF PingStep, PingSnapshot, PingOne, PingPublish, LinkChange
    <2> QED
        BY <2>1 DEF SaveInv, HoldersOnly, WriterOnTrack
<1>13. CASE Restart
    BY <1>13 DEF Restart, SaveInv, HoldersOnly, WriterOnTrack, AllIdle, Quiet, Threads
<1> QED
    BY <1>1, <1>2, <1>3, <1>4, <1>5, <1>6, <1>7, <1>8, <1>9, <1>10, <1>11, <1>12, <1>13
    DEF Next, HandlerStep, LockedStep, WriterStep, Environment

\* As long as nobody renames, one thread at a time saves, and it saves the list as it is.
THEOREM SaveInvCorrect ==
    ASSUME SavesLocked
    PROVE  Spec => [](TypeOK /\ SaveInv)
<1>1. Init => SaveInv
    BY DEF Init, SaveInv, HoldersOnly, WriterOnTrack, AllIdle, Quiet, Threads
<1>2. TypeOK /\ SaveInv /\ [Next]_vars => SaveInv'
    <2>1. CASE Next
        BY <2>1, SaveInvStep
    <2>2. CASE UNCHANGED vars
        BY <2>2 DEF vars, SaveInv, HoldersOnly, WriterOnTrack
    <2> QED
        BY <2>1, <2>2
<1> QED
    BY <1>1, <1>2, TypeCorrect, PTL DEF Spec

-----------------------------------------------------------------------------
(* No duplicates.  The sink of an mDNS thread decides without ips_mutex that  *)
(* a camera is new: it must be the only thread that adds, and no entry may be *)
(* erased under its search.  Emptying the whole list does no harm.            *)

OneFinder ==
    /\ "scan" \in Commands => /\ \A r, s \in Scanners : r = s
                              /\ Commands \cap {"add", "delete"} = {}
    /\ "rename" \in Commands => MaxRestarts = 0

\* What an mDNS thread has seen of the list is the list, unless it has been emptied
\* since; what it is about to push is not there.
SinkOnTrack ==
    \A s \in Scanners :
        /\ "scan" \notin Commands => pc[s] = "idle"
        /\ pc[s] = "check" => camera_ips \in {<<>>, seen[s]}
        /\ pc[s] = "push" => NotListed(found[s])

\* Who waits for ips_mutex waits with a command that clients send.
WaitsAsSent == \A t \in Threads : pc[t] \in LockedCommands => pc[t] \in Commands

\* A restart would bring back no duplicates.
RecordDistinct == SavesLocked => Distinct(LoadedIps(record))

\* The inductive invariant.
DistinctInv == NoDuplicates /\ SinkOnTrack /\ RecordDistinct

\* Erasing an entry makes no duplicates.
LEMMA WithoutDistinct ==
    ASSUME NEW S, NEW ips \in Seq(S), NEW i \in 1..Len(ips), Distinct(ips)
    PROVE  Distinct(Without(ips, i))
<1> DEFINE w == Without(ips, i)
<1>1. Len(w) = Len(ips) - 1
    BY WithoutType
<1>2. \A j \in 1..(Len(ips) - 1) : w[j] = IF j < i THEN ips[j] ELSE ips[j + 1]
    BY WithoutType
<1> HIDE DEF w
<1>3. ASSUME NEW j \in 1..Len(w), NEW k \in 1..Len(w), w[j] = w[k]
      PROVE  j = k
    BY <1>1, <1>2, <1>3 DEF Distinct
<1>4. Distinct(w)
    BY <1>3 DEF Distinct
<1> QED
    BY <1>4 DEF w

\* A list stays distinct when an address it lacks is added.
LEMMA AppendDistinct ==
    ASSUME NEW S, NEW ips \in Seq(S), NEW ip \in S, Distinct(ips),
           \A i \in 1..Len(ips) : ips[i] # ip
    PROVE  Distinct(Append(ips, ip))
BY AppendProperties DEF Distinct

\* A step that leaves the list alone and takes no mDNS thread to its decision.
LEMMA SinkStays ==
    ASSUME SinkOnTrack, camera_ips' = camera_ips,
           \A s \in Scanners :
              \/ UNCHANGED <<pc[s], seen[s], found[s]>>
              \/ "scan" \in Commands /\ pc'[s] \notin {"check", "push"}
    PROVE  SinkOnTrack'
BY DEF SinkOnTrack, NotListed

\* Nobody waits with another command.
LEMMA WaitsAsSentCorrect == Spec => []WaitsAsSent
<1>1. Init => WaitsAsSent
    BY DEF Init, AllIdle, WaitsAsSent, LockedCommands
<1>2. TypeOK /\ WaitsAsSent /\ [Next]_vars => WaitsAsSent'
    <2> SUFFICES ASSUME TypeOK, WaitsAsSent, [Next]_vars
                 PROVE  WaitsAsSent'
        OBVIOUS
    <2> USE DEF WaitsAsSent, LockedCommands, Goto
    <2>0. pc \in [Threads -> Stations]
        BY DEF TypeOK
    <2>1. ASSUME NEW h \in Handlers, NEW c \in Commands, ReceiveLocked(h, c)
          PROVE  WaitsAsSent'
        BY <2>0, <2>1 DEF ReceiveLocked, Receives
    <2>2. ASSUME NEW h \in Handlers, HandlerStep(h),
                 \A c \in Commands : ~ReceiveLocked(h, c)
          PROVE  WaitsAsSent'
        BY <2>0, <2>2
        DEF HandlerStep, LockedStep, AddCamera, DeleteCamera, CleanCameras, RenameCamera,
            ScanCameras, SizeIpBuffer, CopyIps, SizeAliveBuffer, CopyAlive, WebcamAll,
            WebcamAllDone
    <2>3. ASSUME NEW s \in Scanners, SinkStep(s)
          PROVE  WaitsAsSent'
        BY <2>0, <2>3 DEF SinkStep, SinkCheck, SinkDecide, SinkPush, DiscoveryEnds
    <2>4. ASSUME NEW t \in Threads, WriterStep(t)
          PROVE  WaitsAsSent'
        BY <2>0, <2>4
        DEF WriterStep, OpenRecord, OpenFails, WriteLine, CloseRecord, LeaveWriter
    <2>5. CASE PingStep \/ \E ip \in Ips, l \in Links : LinkChange(ip, l)
        BY <2>5, Zenon DEF PingStep, PingSnapshot, PingOne, PingPublish, LinkChange
    <2>6. CASE Restart
        BY <2>6 DEF Restart, AllIdle
    <2>7. CASE UNCHANGED vars
        BY <2>7 DEF vars
    <2> QED
        BY <2>1, <2>2, <2>3, <2>4, <2>5, <2>6, <2>7 DEF Next, Environment
<1> QED
    BY <1>1, <1>2, TypeCorrect, PTL DEF Spec

\* The invariant is inductive.
LEMMA DistinctInvStep ==
    ASSUME OneFinder, TypeOK, WaitsAsSent, SavesLocked => SaveInv, DistinctInv, Next
    PROVE  DistinctInv'
<1> USE DEF Goto, Receives, Waits, listing, pinging, reading, history
<1>0. /\ camera_ips \in Seq(Addresses)
      /\ pc \in [Threads -> Stations]
      /\ seen \in [Threads -> Seq(Addresses)]
      /\ found \in [Scanners -> Ips]
      /\ \A h \in Handlers : h \in Threads /\ h \notin Scanners
      /\ \A s \in Scanners : s \in Threads
    BY RegistryAssumption DEF TypeOK, Threads
<1>a. ASSUME UNCHANGED record
      PROVE  RecordDistinct'
    BY <1>a DEF DistinctInv, RecordDistinct, SavesLocked
<1>b. ASSUME UNCHANGED camera_ips
      PROVE  NoDuplicates'
    BY <1>b DEF DistinctInv, NoDuplicates
<1>1. ASSUME NEW h \in Handlers, NEW ip \in Ips, AddCamera(h, ip)
      PROVE  DistinctInv'
    <2>1. "scan" \notin Commands /\ UNCHANGED record
        BY <1>0, <1>1 DEF AddCamera, OneFinder, WaitsAsSent, LockedCommands
    <2>2. SinkOnTrack'
        <3>1. \A s \in Scanners : pc'[s] = pc[s]
            BY <1>0, <1>1 DEF AddCamera
        <3> QED
            BY <2>1, <3>1 DEF DistinctInv, SinkOnTrack
    <2>3. NoDuplicates'
        <3>1. CASE UNCHANGED camera_ips
            BY <1>b, <3>1
        <3>2. CASE NotListed(ip) /\ camera_ips' = Append(camera_ips, ip)
            BY <1>0, <3>2, AppendDistinct DEF DistinctInv, NoDuplicates, NotListed, Addresses
        <3> QED
            BY <1>1, <3>1, <3>2, Zenon DEF AddCamera
    <2> QED
        BY <1>a, <2>1, <2>2, <2>3 DEF DistinctInv
<1>2. ASSUME NEW h \in Handlers, NEW ip \in Ips, DeleteCamera(h, ip)
      PROVE  DistinctInv'
    <2>1. "scan" \notin Commands /\ UNCHANGED record
        BY <1>0, <1>2 DEF DeleteCamera, OneFinder, WaitsAsSent, LockedCommands
    <2>2. SinkOnTrack'
        <3>1. \A s \in Scanners : pc'[s] = pc[s]
            BY <1>0, <1>2 DEF DeleteCamera
        <3> QED
            BY <2>1, <3>1 DEF DistinctInv, SinkOnTrack
    <2>3. ASSUME NEW i \in 1..Len(camera_ips), camera_ips' = Without(camera_ips, i)
          PROVE  NoDuplicates'
        BY <1>0, <2>3, WithoutDistinct DEF DistinctInv, NoDuplicates
    <2>4. NoDuplicates'
        BY <1>2, <1>b, <2>3, Zenon DEF DeleteCamera
    <2> QED
        BY <1>a, <2>1, <2>2, <2>4 DEF DistinctInv
<1>3. ASSUME NEW h \in Handlers, CleanCameras(h)
      PROVE  DistinctInv'
    <2>1. camera_ips' = <<>> /\ UNCHANGED <<record, seen, found>>
        BY <1>3 DEF CleanCameras
    <2>2. \A s \in Scanners : pc'[s] = pc[s]
        BY <1>0, <1>3 DEF CleanCameras
    <2>3. SinkOnTrack'
        BY <2>1, <2>2 DEF DistinctInv, SinkOnTrack, NotListed
    <2>4. NoDuplicates'
        BY <2>1 DEF NoDuplicates, Distinct
    <2> QED
        BY <1>a, <2>1, <2>3, <2>4 DEF DistinctInv
<1>4. ASSUME NEW h \in Handlers,
             \/ SizeIpBuffer(h) \/ CopyIps(h) \/ SizeAliveBuffer(h) \/ CopyAlive(h)
             \/ WebcamAll(h) \/ WebcamAllDone(h)
             \/ \E c \in Commands : ReceiveLocked(h, c)
             \/ \E ip \in Ips, name \in Names : RenameCamera(h, ip, name)
      PROVE  DistinctInv'
    <2>1. /\ UNCHANGED <<camera_ips, record, found>>
          /\ \A s \in Scanners : pc'[s] = pc[s] /\ seen'[s] = seen[s]
        BY <1>0, <1>4
        DEF SizeIpBuffer, CopyIps, SizeAliveBuffer, CopyAlive, WebcamAll, WebcamAllDone,
            ReceiveLocked, RenameCamera
    <2> QED
        BY <1>a, <1>b, <2>1, SinkStays DEF DistinctInv
<1>5. ASSUME NEW h \in Handlers, NEW r \in Scanners, ScanCameras(h, r)
      PROVE  DistinctInv'
    <2>1. /\ UNCHANGED <<camera_ips, record, seen, found>>
          /\ "scan" \in Commands
          /\ \A s \in Scanners : pc'[s] = pc[s] \/ pc'[s] = "discover"
        BY <1>0, <1>5 DEF ScanCameras
    <2> QED
        BY <1>a, <1>b, <2>1, SinkStays DEF DistinctInv
<1>6. ASSUME NEW r \in Scanners, SinkStep(r)
      PROVE  DistinctInv'
    <2>1. /\ "scan" \in Commands
          /\ UNCHANGED record
          /\ \A s \in Scanners : s = r
        BY <1>6
        DEF SinkStep, SinkCheck, SinkDecide, SinkPush, DiscoveryEnds, DistinctInv,
            SinkOnTrack, OneFinder
    <2>2. ASSUME NEW ip \in Ips, SinkCheck(r, ip)
          PROVE  DistinctInv'
        <3>1. UNCHANGED camera_ips /\ pc'[r] = "check" /\ seen'[r] = camera_ips
            BY <1>0, <2>2 DEF SinkCheck
        <3> QED
            BY <1>a, <1>b, <2>1, <3>1 DEF DistinctInv, SinkOnTrack
    <2>3. CASE SinkDecide(r)
        <3>1. UNCHANGED <<camera_ips, found>> /\ pc[r] = "check"
            BY <2>3 DEF SinkDecide
        <3>2. PICK find \in BOOLEAN :
                    /\ camera_ips = seen[r] => find = ~NotListed(found[r])
                    /\ pc' = [pc EXCEPT ![r] = IF find THEN "discover" ELSE "push"]
            BY <2>3 DEF SinkDecide
        <3>3. pc'[r] = IF find THEN "discover" ELSE "push"
            BY <1>0, <3>2
        <3>4. pc'[r] = "push" => NotListed(found[r])
            <4>1. CASE camera_ips = <<>>
                BY <4>1 DEF NotListed
            <4>2. CASE camera_ips = seen[r]
                <5>1. find \/ NotListed(found[r])
                    BY <3>2, <4>2, Zenon
                <5>2. find => pc'[r] # "push"
                    BY <3>3
                <5> QED
                    BY <5>1, <5>2
            <4> QED
                BY <3>1, <4>1, <4>2 DEF DistinctInv, SinkOnTrack
        <3>5. SinkOnTrack'
            BY <2>1, <3>1, <3>3, <3>4 DEF SinkOnTrack, NotListed
        <3> QED
            BY <1>a, <1>b, <2>1, <3>1, <3>5 DEF DistinctInv
    <2>4. CASE SinkPush(r)
        <3>1. /\ camera_ips' = Append(camera_ips, found[r])
              /\ pc[r] = "push"
              /\ pc'[r] = "open"
            BY <1>0, <2>4 DEF SinkPush
        <3>2. NoDuplicates'
            BY <1>0, <3>1, AppendDistinct
            DEF DistinctInv, SinkOnTrack, NoDuplicates, NotListed, Addresses
        <3>3. SinkOnTrack'
            BY <2>1, <3>1 DEF SinkOnTrack
        <3> QED
            BY <1>a, <2>1, <3>2, <3>3 DEF DistinctInv
    <2>5. CASE DiscoveryEnds(r)
        <3>1. UNCHANGED camera_ips /\ pc'[r] = "idle"
            BY <1>0, <2>5 DEF DiscoveryEnds
        <3> QED
            BY <1>a, <1>b, <2>1, <3>1 DEF DistinctInv, SinkOnTrack
    <2> QED
        BY <1>6, <2>2, <2>3, <2>4, <2>5 DEF SinkStep
<1>7. ASSUME NEW t \in Threads, WriterStep(t)
      PROVE  DistinctInv'
    <2>1. UNCHANGED <<camera_ips, seen, found>>
        BY <1>7 DEF WriterStep, OpenRecord, OpenFails, WriteLine, CloseRecord
    <2>2. \A s \in Scanners :
            \/ pc'[s] = pc[s]
            \/ pc[s] \in {"open", "write"} /\ pc'[s] \in {"write", "discover"}
        BY <1>0, <1>7 DEF WriterStep, OpenRecord, OpenFails, WriteLine, CloseRecord, LeaveWriter
    <2>3. SinkOnTrack'
        <3>1. \A s \in Scanners : pc[s] \in {"open", "write"} => "scan" \in Commands
            BY DEF DistinctInv, SinkOnTrack
        <3> QED
            BY <2>1, <2>2, <3>1, SinkStays DEF DistinctInv
    <2>4. RecordDistinct'
        <3>1. CASE OpenRecord(t)
            BY <3>1 DEF OpenRecord, RecordDistinct, LoadedIps, Distinct
        <3>2. CASE CloseRecord(t)
            BY <3>2, CloseSavesList
            DEF DistinctInv, NoDuplicates, SaveInv, RecordDistinct, SavesLocked
        <3> QED
            BY <1>7, <1>a, <3>1, <3>2 DEF WriterStep, OpenFails, WriteLine
    <2> QED
        BY <1>b, <2>1, <2>3, <2>4 DEF DistinctInv
<1>8. CASE \/ PingStep
           \/ \E ip \in Ips, l \in Links : LinkChange(ip, l)
    <2>1. UNCHANGED <<camera_ips, record, pc, seen, found>>
        BY <1>8, Zenon DEF PingStep, PingSnapshot, PingOne, PingPublish, LinkChange
    <2> QED
        BY <1>a, <1>b, <2>1, SinkStays DEF DistinctInv
<1>9. CASE Restart
    <2>1. SavesLocked /\ camera_ips' = LoadedIps(record) /\ UNCHANGED record
        BY <1>9, RegistryAssumption DEF Restart, OneFinder, SavesLocked, TypeOK
    <2>2. NoDuplicates'
        BY <2>1 DEF DistinctInv, RecordDistinct, NoDuplicates
    <2>3. SinkOnTrack'
        BY <1>0, <1>9 DEF Restart, SinkOnTrack, AllIdle
    <2> QED
        BY <1>a, <2>1, <2>2, <2>3 DEF DistinctInv
<1> QED
    BY <1>1, <1>2, <1>3, <1>4, <1>5, <1>6, <1>7, <1>8, <1>9
    DEF Next, HandlerStep, LockedStep, Environment

\* It is an invariant.
LEMMA DistinctInvCorrect == ASSUME OneFinder PROVE Spec => []DistinctInv
<1>1. Init => DistinctInv
    BY DEF Init, DistinctInv, NoDuplicates, SinkOnTrack, RecordDistinct, Distinct,
        LoadedIps, AllIdle, Threads
<1>2. TypeOK /\ WaitsAsSent /\ (SavesLocked => SaveInv) /\ DistinctInv /\ [Next]_vars
        => DistinctInv'
    <2>1. CASE Next
        BY <2>1, DistinctInvStep
    <2>2. CASE UNCHANGED vars
        BY <2>2 DEF vars, DistinctInv, NoDuplicates, SinkOnTrack, NotListed,
            RecordDistinct, SavesLocked
    <2> QED
        BY <2>1, <2>2
<1>3. Spec => [](SavesLocked => SaveInv)
    <2>1. CASE SavesLocked
        <3>1. Spec => [](TypeOK /\ SaveInv)
            BY <2>1, SaveInvCorrect
        <3>2. SaveInv => (SavesLocked => SaveInv)
            OBVIOUS
        <3> QED
            BY <3>1, <3>2, PTL
    <2>2. CASE ~SavesLocked
        <3>1. SavesLocked => SaveInv
            BY <2>2
        <3> QED
            BY <3>1, PTL
    <2> QED
        BY <2>1, <2>2
<1> QED
    BY <1>1, <1>2, <1>3, TypeCorrect, WaitsAsSentCorrect, PTL DEF Spec

\* No camera is listed twice, with any number of threads, cameras and restarts: neither
\* by what clients add, delete and clean, nor by one mDNS thread while they only clean;
\* and without restarts renaming does not change that.
THEOREM NoDuplicatesCorrect ==
    ASSUME OneFinder
    PROVE  Spec => []NoDuplicates
<1>1. DistinctInv => NoDuplicates
    BY DEF DistinctInv
<1> QED
    BY <1>1, DistinctInvCorrect, PTL

-----------------------------------------------------------------------------
(* The alive list. *)

\* The cameras of a round that have answered and those still to be pinged are all
\* different: the round works on a copy, whatever becomes of the list meanwhile.
RoundDistinct ==
    /\ Distinct(ping.fine)
    /\ Distinct(ping.todo)
    /\ \A i \in 1..Len(ping.fine), j \in 1..Len(ping.todo) : ping.fine[i] # ping.todo[j]

\* A ping takes the first camera to do and keeps the two parts apart.
LEMMA RoundGoesOn ==
    ASSUME TypeOK, RoundDistinct, PingOne
    PROVE  RoundDistinct'
<1> DEFINE todo == ping.todo
           fine == ping.fine
           ip == Head(ping.todo)
<1>0. todo \in Seq(Addresses) /\ fine \in Seq(Addresses) /\ todo # <<>>
    BY DEF TypeOK, PingOne
<1>1. /\ ping'.todo = Tail(todo)
      /\ ping'.fine = Append(fine, ip) \/ ping'.fine = fine
    BY DEF PingOne
<1>2. /\ Len(Tail(todo)) = Len(todo) - 1
      /\ \A j \in 1..Len(Tail(todo)) : Tail(todo)[j] = todo[j + 1]
      /\ ip = todo[1] /\ ip \in Addresses
      /\ Len(todo) \in Nat \ {0}
    BY <1>0
<1>3. \A j \in 1..Len(Tail(todo)) : j + 1 \in 1..Len(todo) /\ j + 1 # 1
    BY <1>2
<1>4. Distinct(Tail(todo)) /\ \A j \in 1..Len(Tail(todo)) : Tail(todo)[j] # ip
    <2>1. 1 \in 1..Len(todo)
        BY <1>2
    <2> QED
        BY <1>2, <1>3, <2>1 DEF RoundDistinct, Distinct
<1>5. \A i \in 1..Len(fine) : fine[i] # ip
    BY <1>2 DEF RoundDistinct
<1>6. \A i \in 1..Len(fine), j \in 1..Len(Tail(todo)) : fine[i] # Tail(todo)[j]
    BY <1>2, <1>3 DEF RoundDistinct
<1>7. CASE ping'.fine = fine
    BY <1>1, <1>4, <1>6, <1>7 DEF RoundDistinct
<1>8. CASE ping'.fine = Append(fine, ip)
    <2>1. Distinct(Append(fine, ip))
        BY <1>0, <1>2, <1>5, AppendDistinct DEF RoundDistinct
    <2>2. \A i \in 1..Len(Append(fine, ip)) :
            \/ Append(fine, ip)[i] = ip
            \/ i \in 1..Len(fine) /\ Append(fine, ip)[i] = fine[i]
        BY <1>0, <1>2
    <2> HIDE DEF todo, fine, ip
    <2> QED
        BY <1>1, <1>4, <1>6, <1>8, <2>1, <2>2 DEF RoundDistinct
<1> QED
    BY <1>1, <1>7, <1>8

\* No broadcast addresses a camera twice: what a round publishes is distinct because
\* the list it copied was.
THEOREM AliveOnceCorrect ==
    ASSUME OneFinder
    PROVE  Spec => []AliveOnce
<1> DEFINE AliveInv == RoundDistinct /\ AliveOnce
<1>1. Init => AliveInv
    BY DEF Init, NoPing, RoundDistinct, AliveOnce, Distinct
<1>2. TypeOK /\ DistinctInv /\ AliveInv /\ [Next]_vars => AliveInv'
    <2> SUFFICES ASSUME TypeOK, DistinctInv, AliveInv, [Next]_vars
                 PROVE  AliveInv'
        OBVIOUS
    <2>1. CASE PingSnapshot
        BY <2>1 DEF PingSnapshot, RoundDistinct, AliveOnce, Distinct, DistinctInv, NoDuplicates
    <2>2. CASE PingOne
        BY <2>2, RoundGoesOn DEF PingOne, AliveOnce
    <2>3. CASE PingPublish
        BY <2>3 DEF PingPublish, NoPing, RoundDistinct, AliveOnce, Distinct
    <2>4. CASE Restart
        BY <2>4 DEF Restart, NoPing, RoundDistinct, AliveOnce, Distinct
    <2>5. CASE UNCHANGED <<ping, camera_alive_ips>>
        BY <2>5 DEF RoundDistinct, AliveOnce
    <2>6. ASSUME NEW h \in Handlers, HandlerStep(h)
          PROVE  UNCHANGED <<ping, camera_alive_ips>>
        BY <2>6, Zenon
        DEF HandlerStep, LockedStep, ReceiveLocked, AddCamera, DeleteCamera, CleanCameras,
            RenameCamera, ScanCameras, SizeIpBuffer, CopyIps, SizeAliveBuffer, CopyAlive,
            WebcamAll, WebcamAllDone, pinging
    <2>7. ASSUME NEW s \in Scanners, SinkStep(s)
          PROVE  UNCHANGED <<ping, camera_alive_ips>>
        BY <2>7, Zenon DEF SinkStep, SinkCheck, SinkDecide, SinkPush, DiscoveryEnds, pinging
    <2>8. ASSUME NEW t \in Threads, WriterStep(t)
          PROVE  UNCHANGED <<ping, camera_alive_ips>>
        BY <2>8, Zenon DEF WriterStep, OpenRecord, OpenFails, WriteLine, CloseRecord, pinging
    <2>9. ASSUME NEW ip \in Ips, NEW l \in Links, LinkChange(ip, l)
          PROVE  UNCHANGED <<ping, camera_alive_ips>>
        BY <2>9 DEF LinkChange
    <2>10. CASE UNCHANGED vars
        BY <2>5, <2>10 DEF vars
    <2> QED
        BY <2>1, <2>2, <2>3, <2>4, <2>5, <2>6, <2>7, <2>8, <2>9, <2>10
        DEF Next, PingStep, Environment
<1> QED
    BY <1>1, <1>2, TypeCorrect, DistinctInvCorrect, PTL DEF Spec
=============================================================================
