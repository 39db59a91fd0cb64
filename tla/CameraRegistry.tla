--------------------------- MODULE CameraRegistry ---------------------------
(***************************************************************************)
(* The camera registry of one server (src/src/server, class                *)
(* GoProController): the list camera_ips with the names of the cameras,    *)
(* the file record.txt it is saved to and loaded from, the list            *)
(* camera_alive_ips the ping loop publishes, and everybody who touches     *)
(* them: one detached thread per client message (Handlers), the mDNS       *)
(* threads that run the logger sink (Scanners) and the ping loop.          *)
(*                                                                         *)
(* Atomicity.  Nobody looks inside a section that holds ips_mutex except   *)
(* through the accesses the code makes without it (the duplicate check of  *)
(* the sink, the record writer of a rename, the size read of a snapshot)   *)
(* and through the file, so a locked section is one step up to its file    *)
(* accesses, and those are steps of their own.  ips_alive_mutex is never   *)
(* held across a step and needs no variable.                               *)
(***************************************************************************)
EXTENDS Integers, Sequences, FiniteSets

CONSTANTS
    Ips,          \* the addresses of the cameras
    Torn,         \* what a line of a torn record file gives for an address
    Names,        \* what a client may type as a name: sequences of words
    Handlers,     \* message threads (WebsocketServer spawns one per message)
    Scanners,     \* mDNS discovery threads
    NoThread,     \* nobody holds the mutex
    NoName,       \* the address has no entry in camera_name
    Commands,     \* the commands the clients send
    Links,        \* what a ping may meet: "up", "down", "failing"
    DiskMayFail,  \* the record file may refuse to open
    MaxCameras,   \* bound on the length of camera_ips
    MaxRestarts   \* bound on the number of restarts of the server

\* The commands whose handlers take ips_mutex before anything else, and the others.
LockedCommands == {"add", "delete", "clean", "webcam"}
AllCommands == LockedCommands \cup {"rename", "scan", "ip", "broadcast"}

ASSUME RegistryAssumption ==
    /\ Handlers \cap Scanners = {}
    /\ NoThread \notin Handlers \cup Scanners
    /\ Ips # {}
    /\ Torn \notin Ips
    /\ NoName \notin Names
    /\ \A n \in Names : n # <<>> => <<n[1]>> \in Names
    /\ Commands \subseteq AllCommands
    /\ Links \subseteq {"up", "down", "failing"}
    /\ DiskMayFail \in BOOLEAN
    /\ MaxCameras \in Nat
    /\ MaxRestarts \in Nat

VARIABLES
    camera_ips,       \* the addresses, in the order they were added
    camera_name,      \* address -> name
    camera_alive_ips, \* the addresses that answered the last round of pings
    record,           \* the lines of record.txt on the disk
    ips_mutex,        \* the thread that holds ips_mutex
    pc,               \* where each thread is
    out,              \* lines a thread has put in its stream and not flushed
    seen,             \* the list a thread read without the lock
    found,            \* the address an mDNS thread has just seen
    ping,             \* the round of the ping loop: cameras to do, cameras fine
    link,             \* what a ping of the address meets
    overrun,          \* a snapshot was copied past the end of its buffer
    restarts          \* restarts so far

vars == <<camera_ips, camera_name, camera_alive_ips, record, ips_mutex, pc, out,
          seen, found, ping, link, overrun, restarts>>

\* Groups of variables an action leaves alone together.
listing == <<camera_ips, camera_name>>
pinging == <<camera_alive_ips, ping, link>>
reading == <<seen, found>>
history == <<overrun, restarts>>

Addresses == Ips \cup {Torn}
Threads == Handlers \cup Scanners
Listed(ips) == {ips[i] : i \in 1..Len(ips)}

-----------------------------------------------------------------------------
(* The record: one line per camera, its address and, if it has one, its name. *)

Line == [ip : Addresses, name : Names \cup {NoName}]

\* Variant that leaves the name out.
LineWithoutName(ip) == [ip |-> ip]

\* What one turn of _updateRecord's loop writes for an address.
LineOf(ip) == [ip |-> ip, name |-> camera_name[ip]]

Suffixes(lines) == {SubSeq(lines, i, Len(lines)) : i \in 1..(Len(lines) + 1)}

\* What can be left of a file when its first bytes are replaced: as names differ
\* in length, the rest can begin within a line.
Remains(file) ==
    Suffixes(file) \cup {<<[ip |-> Torn, name |-> NoName]>> \o rest :
                            rest \in Suffixes(file)}

\* What can be in the file once a stream that opened it earlier flushes its
\* lines.  A file that is still empty gets the lines; if another stream has
\* written meanwhile, they replace its first bytes.
Flushes(lines, file) ==
    IF file = <<>> THEN {lines} ELSE {lines \o rest : rest \in Remains(file)}

\* The name a line read back gives: `ss >> word` keeps only the first word, and
\* an empty name leaves a line of one word, which sets no name.
ReadName(name) == IF name \in {NoName, <<>>} THEN NoName ELSE <<name[1]>>

\* Variant that does not see the last line.
LoadedIpsShort(file) == [i \in 1..(Len(file) - 1) |-> file[i].ip]

LoadedIps(file) == [i \in 1..Len(file) |-> file[i].ip]

\* The maps of names the file can give (it gives one): of the lines of an
\* address that hold a name, the last counts.
LoadedNames(file) ==
    {name \in [Addresses -> Names \cup {NoName}] :
        \A ip \in Addresses :
            LET named == {i \in 1..Len(file) :
                            file[i].ip = ip /\ ReadName(file[i].name) # NoName}
            IN  \/ named = {} /\ name[ip] = NoName
                \/ \E i \in named :
                     /\ \A j \in named : j <= i
                     /\ name[ip] = ReadName(file[i].name)}

-----------------------------------------------------------------------------
NoPing == [on |-> FALSE, todo |-> <<>>, fine |-> <<>>]

Quiet == [t \in Threads |-> <<>>]
AllIdle == [t \in Threads |-> "idle"]
Nothing == [s \in Scanners |-> CHOOSE ip \in Ips : TRUE]

\* A fresh machine: no record to load.
Init ==
    /\ record = <<>>
    /\ camera_ips = <<>>
    /\ camera_name = [ip \in Addresses |-> NoName]
    /\ camera_alive_ips = <<>>
    /\ ips_mutex = NoThread
    /\ pc = AllIdle
    /\ out = Quiet
    /\ seen = Quiet
    /\ found = Nothing
    /\ ping = NoPing
    /\ link \in [Ips -> Links]
    /\ overrun = FALSE
    /\ restarts = 0

Goto(t, label) == pc' = [pc EXCEPT ![t] = label]

\* A handler takes up command `c`.
Receives(h, c) == c \in Commands /\ pc[h] = "idle"

\* `pc` of a handler that waits for ips_mutex is the command it waits with.  The
\* address the command names is picked when it is used: nobody sees it before.
Waits(h, c) == pc[h] = c /\ ips_mutex = NoThread

-----------------------------------------------------------------------------
(* Commands. *)

\* A command that begins with taking ips_mutex, which somebody else may hold.
ReceiveLocked(h, c) ==
    /\ c \in LockedCommands
    /\ Receives(h, c)
    /\ Goto(h, c)
    /\ UNCHANGED <<listing, record, ips_mutex, out, pinging, reading, history>>

\* Variant with the last entry overlooked.
NotListedShort(ip) == \A i \in 1..(Len(camera_ips) - 1) : camera_ips[i] # ip

NotListed(ip) == \A i \in 1..Len(camera_ips) : camera_ips[i] # ip

\* addCameras: checks and pushes under the lock, then writes the record.
AddCamera(h, ip) ==
    /\ Waits(h, "add")
    /\ \/ /\ NotListed(ip)
          /\ Len(camera_ips) < MaxCameras
          /\ camera_ips' = Append(camera_ips, ip)
          /\ ips_mutex' = h
          /\ Goto(h, "open")
       \/ /\ ~NotListed(ip)
          /\ Goto(h, "idle")
          /\ UNCHANGED <<camera_ips, ips_mutex>>
    /\ UNCHANGED <<camera_name, record, out, pinging, reading, history>>

\* Variant that does not take the lock.
CleanUnlocked(h) ==
    /\ pc[h] = "clean"
    /\ camera_ips' = <<>>
    /\ Goto(h, "open")
    /\ UNCHANGED <<camera_name, record, ips_mutex, out, pinging, reading, history>>

\* cleanCameras: empties the list and writes the record; the names stay.
CleanCameras(h) ==
    /\ Waits(h, "clean")
    /\ camera_ips' = <<>>
    /\ ips_mutex' = h
    /\ Goto(h, "open")
    /\ UNCHANGED <<camera_name, record, out, pinging, reading, history>>

\* The list without the entry at position i.
Without(ips, i) ==
    [j \in 1..(Len(ips) - 1) |-> IF j < i THEN ips[j] ELSE ips[j + 1]]

\* deleteCameras: erases the first entry with the address, if there is one, and
\* returns; the record is not written.
DeleteCamera(h, ip) ==
    /\ Waits(h, "delete")
    /\ \/ \E i \in 1..Len(camera_ips) :
            /\ camera_ips[i] = ip
            /\ \A j \in 1..(i - 1) : camera_ips[j] # ip
            /\ camera_ips' = Without(camera_ips, i)
       \/ /\ ip \notin Listed(camera_ips)
          /\ UNCHANGED camera_ips
    /\ Goto(h, "idle")
    /\ UNCHANGED <<camera_name, record, ips_mutex, out, pinging, reading, history>>

\* renameCameras: sets the name and writes the record, all without the lock.
RenameCamera(h, ip, name) ==
    /\ Receives(h, "rename")
    /\ camera_name' = [camera_name EXCEPT ![ip] = name]
    /\ Goto(h, "open")
    /\ UNCHANGED <<camera_ips, record, ips_mutex, out, pinging, reading, history>>

\* scanCameras: spawns one more discovery thread.
ScanCameras(h, s) ==
    /\ Receives(h, "scan")
    /\ pc[s] = "idle"
    /\ Goto(s, "discover")
    /\ UNCHANGED <<listing, record, ips_mutex, out, pinging, reading, history>>

\* getAllIP sizes its buffer before it takes the lock ...
SizeIpBuffer(h) ==
    /\ Receives(h, "ip")
    /\ seen' = [seen EXCEPT ![h] = camera_ips]
    /\ Goto(h, "copy_ips")
    /\ UNCHANGED <<listing, record, ips_mutex, out, found, pinging, history>>

\* ... and copies the list of that moment into it under the lock.
CopyIps(h) ==
    /\ pc[h] = "copy_ips"
    /\ ips_mutex = NoThread
    /\ overrun' = IF Len(camera_ips) > Len(seen[h]) THEN TRUE ELSE overrun
    /\ seen' = [seen EXCEPT ![h] = <<>>]
    /\ Goto(h, "idle")
    /\ UNCHANGED <<listing, record, ips_mutex, out, found, restarts, pinging>>

\* Every command for all cameras (setPreset, reboot, shutdown, keep_alive, usb,
\* datetime, zoom, shutter, queryStatus, setSetting) snapshots the alive list
\* the same way.
SizeAliveBuffer(h) ==
    /\ Receives(h, "broadcast")
    /\ seen' = [seen EXCEPT ![h] = camera_alive_ips]
    /\ Goto(h, "copy_alive")
    /\ UNCHANGED <<listing, record, ips_mutex, out, found, pinging, history>>

CopyAlive(h) ==
    /\ pc[h] = "copy_alive"
    /\ overrun' = IF Len(camera_alive_ips) > Len(seen[h]) THEN TRUE ELSE overrun
    /\ seen' = [seen EXCEPT ![h] = <<>>]
    /\ Goto(h, "idle")
    /\ UNCHANGED <<listing, record, ips_mutex, out, found, restarts, pinging>>

\* webcamMode, webcamUnMode, webcamOn, webcamOff for all cameras hold ips_mutex
\* from before the first HTTP call ...
WebcamAll(h) ==
    /\ Waits(h, "webcam")
    /\ ips_mutex' = h
    /\ Goto(h, "http")
    /\ UNCHANGED <<listing, record, out, pinging, reading, history>>

\* Variant that returns with the lock held.
WebcamAllLeaks(h) ==
    /\ pc[h] = "http"
    /\ Goto(h, "idle")
    /\ UNCHANGED <<listing, record, ips_mutex, out, pinging, reading, history>>

\* ... until the last has been answered or has timed out.
WebcamAllDone(h) ==
    /\ pc[h] = "http"
    /\ ips_mutex' = NoThread
    /\ Goto(h, "idle")
    /\ UNCHANGED <<listing, record, out, pinging, reading, history>>

-----------------------------------------------------------------------------
(* The sink of the mDNS logger, on a discovery thread. *)

\* The loop that looks for the address starts on the list of this moment,
\* without the lock.
SinkCheck(s, ip) ==
    /\ pc[s] = "discover"
    /\ seen' = [seen EXCEPT ![s] = camera_ips]
    /\ found' = [found EXCEPT ![s] = ip]
    /\ Goto(s, "check")
    /\ UNCHANGED <<listing, record, ips_mutex, out, pinging, history>>

\* The loop ends.  If the vector changed under it, its answer can be either.
SinkDecide(s) ==
    /\ pc[s] = "check"
    /\ \E find \in BOOLEAN :
        /\ camera_ips = seen[s] => find = ~NotListed(found[s])
        /\ Goto(s, IF find THEN "discover" ELSE "push")
    /\ seen' = [seen EXCEPT ![s] = <<>>]
    /\ UNCHANGED <<listing, record, ips_mutex, out, found, pinging, history>>

\* Variant that gives up instead of waiting for the lock.
SinkPushTry(s) ==
    /\ pc[s] = "push"
    /\ ips_mutex # NoThread
    /\ Goto(s, "discover")
    /\ UNCHANGED <<listing, record, ips_mutex, out, pinging, reading, history>>

\* Only now the lock is taken, and the address is pushed unconditionally.
SinkPush(s) ==
    /\ pc[s] = "push"
    /\ ips_mutex = NoThread
    /\ Len(camera_ips) < MaxCameras
    /\ camera_ips' = Append(camera_ips, found[s])
    /\ ips_mutex' = s
    /\ Goto(s, "open")
    /\ UNCHANGED <<camera_name, record, out, pinging, reading, history>>

DiscoveryEnds(s) ==
    /\ pc[s] = "discover"
    /\ Goto(s, "idle")
    /\ UNCHANGED <<listing, record, ips_mutex, out, pinging, reading, history>>

-----------------------------------------------------------------------------
(* _updateRecord, by whichever thread calls it. *)

\* Leaving the writer: a caller with the lock releases it, an mDNS thread goes on
\* discovering, a handler replies and ends.
LeaveWriter(t) ==
    /\ ips_mutex' = IF ips_mutex = t THEN NoThread ELSE ips_mutex
    /\ Goto(t, IF t \in Scanners THEN "discover" ELSE "idle")

\* Opening the ofstream truncates the file.
OpenRecord(t) ==
    /\ pc[t] = "open"
    /\ record' = <<>>
    /\ Goto(t, "write")
    /\ UNCHANGED <<listing, ips_mutex, out, pinging, reading, history>>

\* The file cannot be opened: the writer logs it and returns.
OpenFails(t) ==
    /\ DiskMayFail
    /\ pc[t] = "open"
    /\ LeaveWriter(t)
    /\ UNCHANGED <<listing, record, out, pinging, reading, history>>

\* Variant that stops one line early.
MoreLinesShort(t) == Len(out[t]) + 1 < Len(camera_ips)

MoreLines(t) == Len(out[t]) < Len(camera_ips)

\* One turn of the loop, on the list of this moment.
WriteLine(t) ==
    /\ pc[t] = "write"
    /\ MoreLines(t)
    /\ out' = [out EXCEPT ![t] = Append(@, LineOf(camera_ips[Len(@) + 1]))]
    /\ UNCHANGED <<listing, record, ips_mutex, pc, pinging, reading, history>>

\* The loop is over; closing the stream puts its lines on the disk.
CloseRecord(t) ==
    /\ pc[t] = "write"
    /\ ~MoreLines(t)
    /\ record' \in Flushes(out[t], record)
    /\ out' = [out EXCEPT ![t] = <<>>]
    /\ LeaveWriter(t)
    /\ UNCHANGED <<listing, pinging, reading, history>>

-----------------------------------------------------------------------------
(* The ping loop of update(). *)

\* Variant that begins with the cameras found fine so far.
PingSnapshotResumes ==
    /\ ~ping.on
    /\ ips_mutex = NoThread
    /\ ping' = [on |-> TRUE, todo |-> camera_ips, fine |-> camera_alive_ips]
    /\ UNCHANGED <<listing, camera_alive_ips, record, ips_mutex, pc, out, link, reading, history>>

PingSnapshot ==
    /\ ~ping.on
    /\ ips_mutex = NoThread
    /\ ping' = [on |-> TRUE, todo |-> camera_ips, fine |-> <<>>]
    /\ UNCHANGED <<listing, camera_alive_ips, record, ips_mutex, pc, out, link, reading, history>>

\* A camera is fine when it answers, and also when the ping could not be sent:
\* icmplib then reports a failure with delay 0, which is not the timeout.  (A torn
\* address that cannot be resolved throws and ends the process: see Restart.)
Answers(ip) == ip # Torn /\ link[ip] # "down"

PingOne ==
    /\ ping.todo # <<>>
    /\ LET ip == Head(ping.todo)
           fine == IF Answers(ip) THEN Append(ping.fine, ip) ELSE ping.fine
       IN  ping' = [on |-> TRUE, todo |-> Tail(ping.todo), fine |-> fine]
    /\ UNCHANGED <<listing, camera_alive_ips, record, ips_mutex, pc, out, link, reading, history>>

\* Variant that publishes nothing when no camera answered.
PingPublishSome ==
    /\ ping.on
    /\ ping.todo = <<>>
    /\ camera_alive_ips' = IF ping.fine = <<>> THEN camera_alive_ips ELSE ping.fine
    /\ ping' = NoPing
    /\ UNCHANGED <<listing, record, ips_mutex, pc, out, link, reading, history>>

\* Variant that publishes before the last camera.
PingPublishEarly ==
    /\ ping.on
    /\ Len(ping.todo) <= 1
    /\ camera_alive_ips' = ping.fine
    /\ ping' = NoPing
    /\ UNCHANGED <<listing, record, ips_mutex, pc, out, link, reading, history>>

PingPublish ==
    /\ ping.on
    /\ ping.todo = <<>>
    /\ camera_alive_ips' = ping.fine
    /\ ping' = NoPing
    /\ UNCHANGED <<listing, record, ips_mutex, pc, out, link, reading, history>>

-----------------------------------------------------------------------------
(* The environment: cables and crashes. *)

LinkChange(ip, l) ==
    /\ link' = [link EXCEPT ![ip] = l]
    /\ UNCHANGED <<listing, camera_alive_ips, record, ips_mutex, pc, out, ping, reading, history>>

\* The process dies at any point; the next one loads the record as it is.
Restart ==
    /\ restarts < MaxRestarts
    /\ restarts' = restarts + 1
    /\ camera_ips' = LoadedIps(record)
    /\ camera_name' \in LoadedNames(record)
    /\ camera_alive_ips' = <<>>
    /\ ips_mutex' = NoThread
    /\ pc' = AllIdle
    /\ out' = Quiet
    /\ seen' = Quiet
    /\ found' = Nothing
    /\ ping' = NoPing
    /\ overrun' = FALSE
    /\ UNCHANGED <<record, link>>

-----------------------------------------------------------------------------
\* What a handler does once it gets ips_mutex.
LockedStep(h) ==
    \/ \E ip \in Ips : AddCamera(h, ip) \/ DeleteCamera(h, ip)
    \/ CleanCameras(h)
    \/ CopyIps(h)
    \/ WebcamAll(h)

HandlerStep(h) ==
    \/ \E c \in Commands : ReceiveLocked(h, c)
    \/ LockedStep(h)
    \/ \E ip \in Ips, name \in Names : RenameCamera(h, ip, name)
    \/ \E s \in Scanners : ScanCameras(h, s)
    \/ SizeIpBuffer(h)
    \/ SizeAliveBuffer(h) \/ CopyAlive(h)
    \/ WebcamAllDone(h)

SinkStep(s) ==
    \/ \E ip \in Ips : SinkCheck(s, ip)
    \/ SinkDecide(s)
    \/ SinkPush(s)
    \/ DiscoveryEnds(s)

WriterStep(t) == OpenRecord(t) \/ OpenFails(t) \/ WriteLine(t) \/ CloseRecord(t)

PingStep == PingSnapshot \/ PingOne \/ PingPublish

Environment ==
    \/ \E ip \in Ips, l \in Links : LinkChange(ip, l)
    \/ Restart

Next ==
    \/ \E h \in Handlers : HandlerStep(h)
    \/ \E s \in Scanners : SinkStep(s)
    \/ \E t \in Threads : WriterStep(t)
    \/ PingStep
    \/ Environment

Spec == Init /\ [][Next]_vars

(***************************************************************************)
(* Fairness.  Threads run: a handler finishes what it has begun (its HTTP  *)
(* calls have timeouts of 1 to 1.5 s), a writer writes, the ping loop goes *)
(* round.  The waits for ips_mutex get strong fairness: every holder gives *)
(* it back, and a waiting thread is not passed over for ever.  What        *)
(* clients, cameras and crashes do is not fair.                            *)
(***************************************************************************)
Fairness ==
    /\ \A h \in Handlers :
        /\ WF_vars(CopyAlive(h))
        /\ WF_vars(WebcamAllDone(h))
        /\ SF_vars(LockedStep(h))
    /\ \A s \in Scanners : WF_vars(SinkDecide(s)) /\ SF_vars(SinkPush(s))
    /\ \A t \in Threads : WF_vars(WriterStep(t))
    /\ SF_vars(PingSnapshot)
    /\ WF_vars(PingOne)
    /\ WF_vars(PingPublish)

LiveSpec == Spec /\ Fairness

-----------------------------------------------------------------------------
(* Properties. *)

Stations == LockedCommands \cup
            {"idle", "open", "write", "http", "copy_ips", "copy_alive",
             "discover", "check", "push"}

TypeOK ==
    /\ camera_ips \in Seq(Addresses)
    /\ camera_name \in [Addresses -> Names \cup {NoName}]
    /\ camera_alive_ips \in Seq(Addresses)
    /\ record \in Seq(Line)
    /\ ips_mutex \in Threads \cup {NoThread}
    /\ pc \in [Threads -> Stations]
    /\ out \in [Threads -> Seq(Line)]
    /\ seen \in [Threads -> Seq(Addresses)]
    /\ found \in [Scanners -> Ips]
    /\ ping \in [on : BOOLEAN, todo : Seq(Addresses), fine : Seq(Addresses)]
    /\ link \in [Ips -> Links]
    /\ overrun \in BOOLEAN
    /\ restarts \in 0..MaxRestarts

Distinct(ips) == \A i, j \in 1..Len(ips) : ips[i] = ips[j] => i = j

\* No camera is listed twice, in memory or, across restarts, by way of the
\* record: deleteCameras erases one entry only, and every broadcast addresses
\* the list entry by entry.
NoDuplicates == Distinct(camera_ips)

\* No command for all cameras, which goes through the alive list entry by entry,
\* addresses a camera twice: not even when it is erased and added again in the
\* middle of a round of pings.
AliveOnce == Distinct(camera_alive_ips)

\* Some thread is between opening the record and closing it, or about to open it.
Saving == \E t \in Threads : pc[t] \in {"open", "write"}

\* Unless a save is under way, the record names every camera of the list: a
\* stream that stops short, or two that write over each other, loses one.
RecordCoversList == ~Saving => Listed(camera_ips) \subseteq Listed(LoadedIps(record))

\* A crash that does not fall into a save loses no camera.
DurableRestart ==
    [][(restarts' # restarts /\ ~Saving) =>
          Listed(camera_ips) \subseteq Listed(camera_ips')]_vars

\* The registry implements DurableRegistry, with the addresses of the list and
\* of the record file for the two sets.
Durable == INSTANCE DurableRegistry WITH
    Cameras <- Addresses,
    listed <- Listed(camera_ips),
    kept <- Listed(LoadedIps(record)),
    saving <- Saving

\* As long as clients add, delete and clean, every step of the registry is a
\* step of the durable set of cameras or changes nothing of it.
ImplementsDurable == Durable!Spec

\* A camera that has left the list for good leaves the alive list too, however
\* the deletion falls into a round of pings.
GoneLeavesAlive ==
    \A ip \in Ips : <>[](ip \notin Listed(camera_ips))
                      => <>[](ip \notin Listed(camera_alive_ips))

\* A listed camera that stays reachable is found alive and stays so, whatever
\* holds ips_mutex in between.
ReachableBecomesAlive ==
    \A ip \in Ips : <>[](ip \in Listed(camera_ips) /\ link[ip] = "up")
                      => <>[](ip \in Listed(camera_alive_ips))

\* A camera that mDNS announces, and that the list the sink looks at lacks, gets into
\* the list, even if a command holds ips_mutex for the whole of a broadcast when the
\* sink wants to push it.
FoundBecomesListed ==
    \A s \in Scanners, ip \in Ips :
        pc[s] = "check" /\ found[s] = ip /\ ip \notin Listed(seen[s])
            ~> ip \in Listed(camera_ips)

\* Every command comes to an end: no handler waits for ips_mutex for ever, behind
\* another's save, broadcast, listing or mDNS push, or the snapshots of the pings.
CommandsEnd == \A h \in Handlers : pc[h] # "idle" ~> pc[h] = "idle"
=============================================================================
