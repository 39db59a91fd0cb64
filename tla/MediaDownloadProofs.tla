------------------------- MODULE MediaDownloadProofs -------------------------
(***************************************************************************)
(* Theorems about MediaDownload, for any number of masters, servers,       *)
(* cameras, threads and requests, and whatever goes wrong.                 *)
(***************************************************************************)
EXTENDS MediaDownload, SequenceTheorems, TLAPS

Stages == {"sent", "serving", "replied", "fetched", "counted", "closing"}
Places == {"flag", "total", "done", "loop", "count"}

\* What a request under way consists of.
LEMMA RequestParts ==
    ASSUME TypeOK, NEW r \in Requests, request[r].at # "free"
    PROVE  /\ request[r] \in Asking
           /\ request[r].at \in Stages
           /\ request[r].master \in Masters
           /\ request[r].kind \in Kinds
           /\ request[r].server \in Servers
           /\ request[r].camera \in Cameras
           /\ request[r].name \in Names \cup {Empty}
<1>1. request[r] \in Asking
    BY DEF TypeOK, Free
<1> QED
    BY <1>1 DEF Asking, Stages

\* A request that moves on stays one.
LEMMA MovedType ==
    ASSUME TypeOK, NEW r \in Requests, request[r].at # "free",
           NEW label \in Stages, NEW n \in Names \cup {Empty}
    PROVE  Moved(r, label, n) \in Asking
BY RequestParts DEF Moved, Asking, Stages

\* What a download thread consists of.
LEMMA ThreadParts ==
    ASSUME TypeOK, NEW d \in Downloaders, thread[d].at # "idle"
    PROVE  /\ thread[d] \in Running
           /\ thread[d].master \in Masters
           /\ thread[d].kind \in Kinds
           /\ thread[d].target \in EntrySet \cup {Everything}
           /\ thread[d].put \in BOOLEAN
           /\ thread[d].todo \in Seq([server : Servers, camera : Cameras])
<1>1. thread[d] \in Running
    BY DEF TypeOK, Idle
<1> QED
    BY <1>1 DEF Running

\* A thread that goes on stays one.
LEMMA StepType ==
    ASSUME TypeOK, NEW d \in Downloaders, thread[d].at # "idle", NEW label \in Places,
           NEW todo \in Seq([server : Servers, camera : Cameras])
    PROVE  Step(d, label, todo) \in Running
BY ThreadParts DEF Step, Running, Places

-----------------------------------------------------------------------------
(* Type correctness. *)

\* Every reachable state is well typed.
THEOREM TypeCorrect == Spec => []TypeOK
<1>1. Init => TypeOK
    BY MediaAssumption DEF Init, TypeOK
<1>2. TypeOK /\ [Next]_vars => TypeOK'
    <2> SUFFICES ASSUME TypeOK, [Next]_vars
                 PROVE  TypeOK'
        OBVIOUS
    <2> USE DEF TypeOK, batch, disk, server, history
    <2>1. faults' = faults \/ Fault => faults' \in 0..MaxFaults
        BY MediaAssumption DEF Fault
    <2>2. ASSUME NEW d \in Downloaders, NEW m \in Masters, NEW kind \in Kinds,
                 NEW target \in EntrySet \cup {Everything}, NEW put \in BOOLEAN,
                 Click(d, m, kind, target, put)
          PROVE  TypeOK'
        <3>1. [at |-> "flag", master |-> m, kind |-> kind, target |-> target,
               put |-> put, todo |-> Entries] \in Running
            BY MediaAssumption DEF Running
        <3>2. thread' \in [Downloaders -> Running \cup {Idle}]
            BY <2>2, <3>1 DEF Click
        <3>3. clicks' \in 0..MaxClicks
            BY <2>2, MediaAssumption DEF Click
        <3> QED
            BY <2>1, <2>2, <3>2, <3>3 DEF Click
    <2>3. ASSUME NEW d \in Downloaders, ThreadStep(d)
          PROVE  TypeOK'
        <3>1. thread[d].at # "idle"
            BY <2>3 DEF ThreadStep, SetFlag, ResetTotal, ResetDone, SkipEntry,
                        SendRequest, CountRequest, EndBatch
        <3>2. thread[d].master \in Masters /\ thread[d].kind \in Kinds
            BY <3>1, ThreadParts
        <3>3. ASSUME NEW label \in Places, Goto(d, label)
              PROVE  thread' \in [Downloaders -> Running \cup {Idle}]
            <4>1. Step(d, label, thread[d].todo) \in Running
                BY <3>1, StepType, ThreadParts
            <4> QED
                BY <3>3, <4>1 DEF Goto
        <3>4. thread[d].todo # <<>> =>
                /\ Head(thread[d].todo) \in [server : Servers, camera : Cameras]
                /\ Tail(thread[d].todo) \in Seq([server : Servers, camera : Cameras])
            BY <3>1, ThreadParts, HeadTailProperties
        <3>5. CASE SetFlag(d)
            <4>1. flag' \in [Masters -> 0..2]
                BY <3>2, <3>5 DEF SetFlag
            <4>2. thread' \in [Downloaders -> Running \cup {Idle}]
                BY <3>3, <3>5 DEF SetFlag, Places
            <4> QED
                BY <2>1, <3>5, <4>1, <4>2 DEF SetFlag
        <3>6. CASE ResetTotal(d)
            <4>1. thread' \in [Downloaders -> Running \cup {Idle}]
                BY <3>3, <3>6 DEF ResetTotal, Places
            <4> QED
                BY <2>1, <3>6, <4>1 DEF ResetTotal
        <3>7. CASE ResetDone(d)
            <4>1. thread' \in [Downloaders -> Running \cup {Idle}]
                BY <3>3, <3>7 DEF ResetDone, Places
            <4> QED
                BY <2>1, <3>7, <4>1 DEF ResetDone
        <3>8. CASE SkipEntry(d)
            <4>1. Step(d, "loop", Tail(thread[d].todo)) \in Running
                BY <3>1, <3>4, <3>8, StepType DEF SkipEntry, Places
            <4>2. thread' \in [Downloaders -> Running \cup {Idle}]
                BY <3>8, <4>1 DEF SkipEntry
            <4> QED
                BY <2>1, <3>8, <4>2 DEF SkipEntry
        <3>9. CASE SendRequest(d)
            <4> DEFINE todo == IF thread[d].kind = "last" THEN Tail(thread[d].todo) ELSE <<>>
                       entry == Head(thread[d].todo)
                       new == [at |-> "sent", master |-> thread[d].master,
                               kind |-> thread[d].kind, server |-> entry.server,
                               camera |-> entry.camera, name |-> Empty]
            <4>1. <<>> \in Seq([server : Servers, camera : Cameras])
                BY EmptySeq
            <4>2. todo \in Seq([server : Servers, camera : Cameras])
                BY <3>4, <3>9, <4>1 DEF SendRequest
            <4>3. entry \in [server : Servers, camera : Cameras]
                BY <3>4, <3>9 DEF SendRequest
            <4>4. thread' = [thread EXCEPT ![d] = Step(d, "count", todo)]
                BY <3>9, Zenon DEF SendRequest
            <4>5. request' = [request EXCEPT ![FreeRequest] = new]
                BY <3>9, Zenon DEF SendRequest
            <4> HIDE DEF todo, entry
            <4>6. thread' \in [Downloaders -> Running \cup {Idle}]
                <5>1. Step(d, "count", todo) \in Running
                    BY <3>1, <4>2, StepType DEF Places
                <5> QED
                    BY <4>4, <5>1
            <4>7. request' \in [Requests -> Asking \cup {Free}]
                <5>1. new \in Asking
                    BY <3>2, <4>3 DEF Asking
                <5> HIDE DEF new
                <5> QED
                    BY <4>5, <5>1
            <4>8. UNCHANGED <<history, batch, disk, server>>
                BY <3>9, Zenon DEF SendRequest
            <4> QED
                BY <2>1, <4>6, <4>7, <4>8
        <3>10. CASE CountRequest(d)
            <4>1. thread' \in [Downloaders -> Running \cup {Idle}]
                BY <3>3, <3>10 DEF CountRequest, Places
            <4> QED
                BY <2>1, <3>2, <3>10, <4>1 DEF CountRequest
        <3>11. CASE EndBatch(d)
            <4>1. flag' \in [Masters -> 0..2]
                <5>1. \/ flag' = flag
                      \/ flag' = [flag EXCEPT ![thread[d].master] = 0]
                    BY <3>11, Zenon DEF EndBatch
                <5> QED
                    BY <5>1
            <4> QED
                BY <2>1, <3>11, <4>1 DEF EndBatch
        <3> QED
            BY <2>3, <3>5, <3>6, <3>7, <3>8, <3>9, <3>10, <3>11 DEF ThreadStep
    <2>4. ASSUME NEW r \in Requests, TakeLock(r) \/ Reply(r) \/ ReplyStep(r) \/ Lose(r)
          PROVE  TypeOK'
        <3>1. request[r].at # "free"
            BY <2>4 DEF TakeLock, Reply, ReplyStep, Fetch, Ignore, CountDone, Compare,
                        CloseBatch, Lose
        <3>2. /\ request[r].master \in Masters
              /\ request[r].server \in Servers
              /\ request[r].camera \in Cameras
              /\ request[r].name \in Names \cup {Empty}
            BY <3>1, RequestParts
        <3>3. ASSUME NEW label \in Stages, NEW n \in Names \cup {Empty},
                     request' = [request EXCEPT ![r] = Moved(r, label, n)]
              PROVE  request' \in [Requests -> Asking \cup {Free}]
            <4>1. Moved(r, label, n) \in Asking
                BY <3>1, MovedType
            <4> QED
                BY <3>3, <4>1
        <3>4. ASSUME NEW label \in Stages, Move(r, label)
              PROVE  request' \in [Requests -> Asking \cup {Free}]
            BY <3>2, <3>3, <3>4 DEF Move
        <3>5. CASE TakeLock(r)
            <4>1. request' \in [Requests -> Asking \cup {Free}]
                BY <3>3, <3>4, <3>5 DEF TakeLock, Stages
            <4>2. lock' \in [Servers -> Requests \cup {Nobody}]
                BY <3>5 DEF TakeLock
            <4> QED
                BY <2>1, <3>5, <4>1, <4>2 DEF TakeLock
        <3>6. CASE Reply(r)
            <4>1. request' \in [Requests -> Asking \cup {Free}]
                BY <3>4, <3>6 DEF Reply, Stages
            <4>2. lock' \in [Servers -> Requests \cup {Nobody}]
                BY <3>6 DEF Reply
            <4>3. res' \in [Servers -> [Names -> Cameras \cup {NoFile}]]
                <5>1. CASE res' = res
                    BY <5>1
                <5>2. CASE /\ Stores(r)
                           /\ res' = [res EXCEPT ![request[r].server][request[r].name]
                                             = request[r].camera]
                    <6>1. request[r].name \in Names
                        BY <3>2, <5>2 DEF Stores
                    <6> QED
                        BY <3>2, <5>2, <6>1
                <5> QED
                    BY <3>6, <5>1, <5>2 DEF Reply
            <4> QED
                BY <2>1, <3>6, <4>1, <4>2, <4>3 DEF Reply
        <3>7. CASE Fetch(r)
            <4>1. request' \in [Requests -> Asking \cup {Free}]
                BY <3>4, <3>7 DEF Fetch, Stages
            <4>2. Content(r) \in Cameras \cup {NoFile}
                BY <3>2 DEF Content
            <4>3. files' \in [Masters -> [Cameras -> Cameras \cup {NoFile}]]
                BY <3>2, <3>7, <4>2 DEF Fetch
            <4> QED
                BY <2>1, <3>7, <4>1, <4>3 DEF Fetch
        <3>8. CASE Ignore(r)
            BY <2>1, <3>8 DEF Ignore
        <3>9. CASE CountDone(r)
            <4>1. request' \in [Requests -> Asking \cup {Free}]
                BY <3>4, <3>9 DEF CountDone, Stages
            <4> QED
                BY <2>1, <3>2, <3>9, <4>1 DEF CountDone
        <3>10. CASE Compare(r)
            <4>1. request' \in [Requests -> Asking \cup {Free}]
                BY <3>4, <3>10 DEF Compare, Stages
            <4> QED
                BY <2>1, <3>10, <4>1 DEF Compare
        <3>11. CASE CloseBatch(r)
            <4>1. finish' \in [Masters -> BOOLEAN]
                <5>1. \/ finish' = finish
                      \/ finish' = [finish EXCEPT ![request[r].master] = TRUE]
                    BY <3>11, Zenon DEF CloseBatch
                <5> QED
                    BY <5>1, Zenon
            <4>2. flag' \in [Masters -> 0..2]
                <5>1. flag' = [flag EXCEPT ![request[r].master] = 0]
                    BY <3>11, Zenon DEF CloseBatch
                <5> QED
                    BY <3>2, <5>1
            <4>3. /\ total' \in [Masters -> Nat]
                  /\ done' \in [Masters -> Nat]
                BY <3>11 DEF CloseBatch
            <4> QED
                BY <2>1, <3>11, <4>1, <4>2, <4>3 DEF CloseBatch
        <3>12. CASE Lose(r)
            BY <2>1, <3>12 DEF Lose
        <3> QED
            BY <2>4, <3>5, <3>6, <3>7, <3>8, <3>9, <3>10, <3>11, <3>12 DEF ReplyStep
    <2>5. ASSUME NEW s \in Servers, CleanRes(s)
          PROVE  TypeOK'
        BY <2>1, <2>5 DEF CleanRes
    <2>6. CASE UNCHANGED vars
        BY <2>6 DEF vars
    <2> HIDE DEF TypeOK, batch, disk, server, history
    <2>7. CASE Users
        BY <2>2, <2>7, Zenon DEF Users
    <2>8. CASE \E d \in Downloaders : ThreadStep(d)
        BY <2>3, <2>8, Zenon
    <2>9. CASE \E r \in Requests : TakeLock(r) \/ Reply(r) \/ ReplyStep(r) \/ Lose(r)
        BY <2>4, <2>9, Zenon
    <2>10. CASE \E s \in Servers : CleanRes(s)
        BY <2>5, <2>10, Zenon
    <2> QED
        BY <2>6, <2>7, <2>8, <2>9, <2>10, Zenon DEF Next
<1> QED
    BY <1>1, <1>2, PTL DEF Spec

-----------------------------------------------------------------------------
(* The folder of a server: one handler at a time, on a name that is free. *)

\* The mutex belongs to the request that is being served.
HolderServes ==
    \A r \in Requests : request[r].at = "serving" => lock[request[r].server] = r

\* The name chosen stays free until the file is stored under it.
NameIsFree ==
    \A r \in Requests :
        request[r].at = "serving" /\ Stores(r)
            => res[request[r].server][request[r].name] = NoFile

\* Unless something has gone wrong, a reply names a file of the camera asked for,
\* and goes on doing so until the file is got.
ReplyIsTrue ==
    faults = 0 =>
        \A r \in Requests :
            (/\ request[r].at \in {"serving", "replied"}
             /\ request[r].kind = "last"
             /\ request[r].server \notin Local)
            => /\ request[r].name # Empty
               /\ request[r].at = "replied"
                    => res[request[r].server][request[r].name] = request[r].camera

FolderInv == HolderServes /\ NameIsFree /\ ReplyIsTrue

\* A request that is neither served nor replied to tells nothing of the folder.
LEMMA MoveElsewhere ==
    ASSUME TypeOK, FolderInv, NEW r \in Requests, NEW new,
           new.at \notin {"serving", "replied"},
           request' = [request EXCEPT ![r] = new],
           UNCHANGED <<lock, res>>,
           faults' = faults \/ Fault
    PROVE  FolderInv'
<1>1. \A x \in Requests : x # r => request'[x] = request[x]
    BY DEF TypeOK
<1>2. request'[r].at \notin {"serving", "replied"}
    BY DEF TypeOK
<1>3. faults' = 0 => faults = 0
    BY DEF TypeOK, Fault
<1> QED
    BY <1>1, <1>2, <1>3, SMT DEF FolderInv, HolderServes, NameIsFree, ReplyIsTrue, Stores

\* The download threads leave the folder alone.
LEMMA ThreadKeepsFolder ==
    ASSUME TypeOK, FolderInv, NEW d \in Downloaders, ThreadStep(d)
    PROVE  FolderInv' /\ UNCHANGED <<res, files, faults>>
<1>1. UNCHANGED <<lock, res, files, faults>>
    BY DEF ThreadStep, SetFlag, ResetTotal, ResetDone, SkipEntry, SendRequest,
           CountRequest, EndBatch, server, disk, history
<1>2. CASE SendRequest(d)
    <2> DEFINE entry == Head(thread[d].todo)
               new == [at |-> "sent", master |-> thread[d].master,
                       kind |-> thread[d].kind, server |-> entry.server,
                       camera |-> entry.camera, name |-> Empty]
    <2>1. FreeRequest \in Requests
        BY <1>2 DEF SendRequest, FreeRequest
    <2>2. request' = [request EXCEPT ![FreeRequest] = new]
        BY <1>2, Zenon DEF SendRequest
    <2>3. new.at \notin {"serving", "replied"}
        OBVIOUS
    <2> HIDE DEF new
    <2> QED
        BY <1>1, <2>1, <2>2, <2>3, MoveElsewhere
<1>3. CASE request' = request
    BY <1>1, <1>3 DEF FolderInv, HolderServes, NameIsFree, ReplyIsTrue, Stores
<1> QED
    BY <1>1, <1>2, <1>3
    DEF ThreadStep, SetFlag, ResetTotal, ResetDone, SkipEntry, CountRequest, EndBatch

\* Nor does what the master's threads for the replies do, or a lost connection.
LEMMA ReplyStepKeepsFolder ==
    ASSUME TypeOK, FolderInv, NEW r \in Requests, ReplyStep(r) \/ Lose(r)
    PROVE  FolderInv' /\ UNCHANGED res
<1>1. /\ UNCHANGED <<lock, res>>
      /\ faults' = faults \/ Fault
    BY DEF ReplyStep, Fetch, Ignore, CountDone, Compare, CloseBatch, Lose, server, history
<1>2. CASE \E label \in {"fetched", "counted", "closing"} : Move(r, label)
    <2>1. PICK label \in {"fetched", "counted", "closing"} : Move(r, label)
        BY <1>2
    <2> DEFINE new == Moved(r, label, request[r].name)
    <2>2. request' = [request EXCEPT ![r] = new]
        BY <2>1, Zenon DEF Move
    <2>3. new.at \notin {"serving", "replied"}
        BY <2>1 DEF Moved
    <2> HIDE DEF new
    <2> QED
        BY <1>1, <2>2, <2>3, MoveElsewhere
<1>3. CASE request' = [request EXCEPT ![r] = Free]
    <2>1. Free.at \notin {"serving", "replied"}
        BY DEF Free
    <2> QED
        BY <1>1, <1>3, <2>1, MoveElsewhere
<1>4. \/ \E label \in {"fetched", "counted", "closing"} : Move(r, label)
      \/ request' = [request EXCEPT ![r] = Free]
    BY Zenon DEF ReplyStep, Fetch, Ignore, CountDone, Compare, CloseBatch, Lose
<1> QED
    BY <1>1, <1>2, <1>3, <1>4

\* A handler that takes the mutex takes a free name with it.
LEMMA TakeLockKeepsFolder ==
    ASSUME TypeOK, FolderInv, NEW r \in Requests, TakeLock(r)
    PROVE  FolderInv' /\ UNCHANGED <<res, files>>
<1> DEFINE s == request[r].server
<1>1. /\ request[r].at = "sent"
      /\ lock[s] = Nobody
      /\ lock' = [lock EXCEPT ![s] = r]
      /\ UNCHANGED <<res, files>>
    BY DEF TakeLock, disk
<1>2. PICK n \in Names \cup {Empty} :
        /\ request' = [request EXCEPT ![r] = Moved(r, "serving", n)]
        /\ \/ n \in Names /\ FirstFree(s, n) /\ faults' = faults
           \/ n = Empty /\ Fault
    BY DEF TakeLock
<1>3. /\ request'[r].at = "serving"
      /\ request'[r].server = s
      /\ request'[r].kind = request[r].kind
      /\ request'[r].camera = request[r].camera
      /\ request'[r].name = n
    BY <1>2 DEF TypeOK, Moved
<1>4. \A x \in Requests : x # r => request'[x] = request[x]
    BY <1>2 DEF TypeOK
<1>5. s \in Servers
    BY <1>1, RequestParts
<1>6. HolderServes'
    <2> SUFFICES ASSUME NEW x \in Requests, request'[x].at = "serving"
                 PROVE  lock'[request'[x].server] = x
        BY DEF HolderServes
    <2>1. CASE x = r
        BY <1>1, <1>3, <1>5, <2>1 DEF TypeOK
    <2>2. CASE x # r
        <3>1. lock[request[x].server] = x
            BY <1>4, <2>2 DEF FolderInv, HolderServes
        <3>2. request[x].server # s
            BY <1>1, <3>1, MediaAssumption
        <3> QED
            BY <1>1, <1>4, <2>2, <3>1, <3>2 DEF TypeOK
    <2> QED
        BY <2>1, <2>2
<1>7. NameIsFree'
    <2> SUFFICES ASSUME NEW x \in Requests, request'[x].at = "serving", Stores(x)'
                 PROVE  res'[request'[x].server][request'[x].name] = NoFile
        BY DEF NameIsFree
    <2>1. CASE x = r
        BY <1>1, <1>2, <1>3, <2>1 DEF FirstFree, Stores
    <2>2. CASE x # r
        BY <1>1, <1>4, <2>2 DEF FolderInv, NameIsFree, Stores
    <2> QED
        BY <2>1, <2>2
<1>8. ReplyIsTrue'
    <2> SUFFICES ASSUME faults' = 0, NEW x \in Requests,
                        request'[x].at \in {"serving", "replied"},
                        request'[x].kind = "last",
                        request'[x].server \notin Local
                 PROVE  /\ request'[x].name # Empty
                        /\ request'[x].at = "replied"
                            => res'[request'[x].server][request'[x].name]
                                 = request'[x].camera
        BY DEF ReplyIsTrue
    <2>1. faults = 0 /\ n \in Names
        BY <1>2 DEF Fault, TypeOK
    <2>2. CASE x = r
        BY <1>3, <2>1, <2>2 DEF Names, Empty
    <2>3. CASE x # r
        BY <1>1, <1>4, <2>1, <2>3 DEF FolderInv, ReplyIsTrue
    <2> QED
        BY <2>2, <2>3
<1> QED
    BY <1>1, <1>6, <1>7, <1>8 DEF FolderInv

\* What a handler stores goes under a name that was free, and nobody else writes.
LEMMA ReplyKeepsFolder ==
    ASSUME TypeOK, FolderInv, NEW r \in Requests, Reply(r)
    PROVE  /\ FolderInv'
           /\ UNCHANGED files
           /\ \/ res' = res
              \/ /\ Stores(r)
                 /\ res[request[r].server][request[r].name] = NoFile
                 /\ res' = [res EXCEPT ![request[r].server][request[r].name]
                                  = request[r].camera]
<1> DEFINE s == request[r].server
           n == request[r].name
<1>1. /\ request[r].at = "serving"
      /\ request' = [request EXCEPT ![r] = Moved(r, "replied", n)]
      /\ lock' = [lock EXCEPT ![s] = Nobody]
      /\ UNCHANGED files
    BY Zenon DEF Reply, Move, disk
<1>2. \/ faults' = faults /\ Stores(r) /\ res' = [res EXCEPT ![s][n] = request[r].camera]
      \/ faults' = faults /\ ~Stores(r) /\ res' = res
      \/ Fault /\ res' = res
    BY Zenon DEF Reply
<1>3. lock[s] = r
    BY <1>1 DEF FolderInv, HolderServes
<1>4. /\ s \in Servers
      /\ n \in Names \cup {Empty}
    BY <1>1, RequestParts
<1>5. Stores(r) => res[s][n] = NoFile
    BY <1>1 DEF FolderInv, NameIsFree
<1>6. /\ request'[r].at = "replied"
      /\ request'[r].server = s
      /\ request'[r].kind = request[r].kind
      /\ request'[r].camera = request[r].camera
      /\ request'[r].name = n
    BY <1>1 DEF TypeOK, Moved
<1>7. \A x \in Requests : x # r => request'[x] = request[x]
    BY <1>1 DEF TypeOK
<1>8. \A x \in Requests \ {r} : request[x].at = "serving" => request[x].server # s
    BY <1>3 DEF FolderInv, HolderServes
<1>9. HolderServes'
    <2> SUFFICES ASSUME NEW x \in Requests, request'[x].at = "serving"
                 PROVE  lock'[request'[x].server] = x
        BY DEF HolderServes
    <2>1. x # r
        BY <1>6
    <2>2. lock[request[x].server] = x /\ request[x].server # s
        BY <1>7, <1>8, <2>1 DEF FolderInv, HolderServes
    <2> QED
        BY <1>1, <1>7, <2>1, <2>2, RequestParts DEF TypeOK
<1>10. NameIsFree'
    <2> SUFFICES ASSUME NEW x \in Requests, request'[x].at = "serving", Stores(x)'
                 PROVE  res'[request'[x].server][request'[x].name] = NoFile
        BY DEF NameIsFree
    <2>1. x # r
        BY <1>6
    <2>2. request'[x] = request[x] /\ request[x].server # s
        BY <1>7, <1>8, <2>1
    <2>3. res[request[x].server][request[x].name] = NoFile
        BY <2>2 DEF FolderInv, NameIsFree, Stores
    <2>4. res'[request[x].server] = res[request[x].server]
        BY <1>2, <2>2, RequestParts DEF TypeOK
    <2> QED
        BY <2>2, <2>3, <2>4
<1>11. ReplyIsTrue'
    <2> SUFFICES ASSUME faults' = 0, NEW x \in Requests,
                        request'[x].at \in {"serving", "replied"},
                        request'[x].kind = "last",
                        request'[x].server \notin Local
                 PROVE  /\ request'[x].name # Empty
                        /\ request'[x].at = "replied"
                            => res'[request'[x].server][request'[x].name]
                                 = request'[x].camera
        BY DEF ReplyIsTrue
    <2>1. /\ faults = 0
          /\ \/ Stores(r) /\ res' = [res EXCEPT ![s][n] = request[r].camera]
             \/ ~Stores(r) /\ res' = res
        BY <1>2 DEF Fault, TypeOK
    <2>2. CASE x = r
        <3>1. n # Empty /\ Stores(r)
            BY <1>1, <1>6, <2>1, <2>2 DEF FolderInv, ReplyIsTrue, Stores
        <3>2. n \in Names
            BY <1>4, <3>1
        <3>3. res'[s][n] = request[r].camera
            BY <1>4, <2>1, <3>1, <3>2 DEF TypeOK
        <3> QED
            BY <1>6, <2>2, <3>1, <3>3
    <2>3. CASE x # r
        <3>1. request'[x] = request[x]
            BY <1>7, <2>3
        <3> DEFINE xs == request[x].server
                   xn == request[x].name
        <3>2. /\ xn # Empty
              /\ request[x].at = "replied" => res[xs][xn] = request[x].camera
            BY <2>1, <3>1 DEF FolderInv, ReplyIsTrue
        <3>3. /\ xs \in Servers
              /\ xn \in Names
              /\ request[x].camera \in Cameras
            BY <3>1, <3>2, RequestParts
        <3>4. ASSUME request[x].at = "replied"
              PROVE  res'[xs][xn] = res[xs][xn]
            <4>1. CASE res' = res
                BY <4>1
            <4>2. CASE Stores(r) /\ res' = [res EXCEPT ![s][n] = request[r].camera]
                <5>1. res[s][n] = NoFile
                    BY <1>5, <4>2
                <5>2. res[xs][xn] # NoFile
                    BY <3>2, <3>3, <3>4, MediaAssumption
                <5>3. xs # s \/ xn # n
                    BY <5>1, <5>2
                <5> QED
                    BY <1>4, <3>3, <4>2, <5>3 DEF TypeOK
            <4> QED
                BY <2>1, <4>1, <4>2
        <3> QED
            BY <3>1, <3>2, <3>4
    <2> QED
        BY <2>2, <2>3
<1> QED
    BY <1>1, <1>2, <1>5, <1>9, <1>10, <1>11 DEF FolderInv

\* A cleaned folder has room for every name.
LEMMA CleanKeepsFolder ==
    ASSUME TypeOK, FolderInv, NEW s \in Servers, CleanRes(s)
    PROVE  /\ FolderInv'
           /\ UNCHANGED files
           /\ res' = [res EXCEPT ![s] = [n \in Names |-> NoFile]]
<1>1. /\ UNCHANGED <<request, lock, files>>
      /\ res' = [res EXCEPT ![s] = [n \in Names |-> NoFile]]
      /\ faults' # 0
    BY DEF CleanRes, Fault, TypeOK, disk
<1>2. HolderServes' /\ ReplyIsTrue'
    BY <1>1 DEF FolderInv, HolderServes, ReplyIsTrue
<1>3. NameIsFree'
    <2> SUFFICES ASSUME NEW r \in Requests, request[r].at = "serving", Stores(r)
                 PROVE  res'[request[r].server][request[r].name] = NoFile
        BY <1>1 DEF NameIsFree, Stores
    <2>1. request[r].server \in Servers /\ request[r].name \in Names
        BY RequestParts DEF Stores
    <2>2. res[request[r].server][request[r].name] = NoFile
        BY DEF FolderInv, NameIsFree
    <2> QED
        BY <1>1, <2>1, <2>2 DEF TypeOK
<1> QED
    BY <1>1, <1>2, <1>3 DEF FolderInv

\* Every step keeps the invariant of the folder.
LEMMA StepKeepsFolder ==
    ASSUME TypeOK, FolderInv, [Next]_vars
    PROVE  FolderInv'
<1>1. CASE Users
    BY <1>1
    DEF Users, Click, server, FolderInv, HolderServes, NameIsFree, ReplyIsTrue, Stores
<1>2. CASE \E d \in Downloaders : ThreadStep(d)
    BY <1>2, ThreadKeepsFolder
<1>3. CASE \E r \in Requests : TakeLock(r) \/ Reply(r) \/ ReplyStep(r) \/ Lose(r)
    BY <1>3, TakeLockKeepsFolder, ReplyKeepsFolder, ReplyStepKeepsFolder
<1>4. CASE \E s \in Servers : CleanRes(s)
    BY <1>4, CleanKeepsFolder
<1>5. CASE UNCHANGED vars
    BY <1>5 DEF vars, FolderInv, HolderServes, NameIsFree, ReplyIsTrue, Stores
<1> QED
    BY <1>1, <1>2, <1>3, <1>4, <1>5, Zenon DEF Next

\* The folder's invariant holds in every reachable state.
THEOREM FolderInvCorrect == Spec => []FolderInv
<1>1. Init => FolderInv
    BY DEF Init, Free, FolderInv, HolderServes, NameIsFree, ReplyIsTrue
<1>2. TypeOK /\ FolderInv /\ [Next]_vars => FolderInv'
    BY StepKeepsFolder
<1> QED
    BY <1>1, <1>2, TypeCorrect, PTL DEF Spec

-----------------------------------------------------------------------------
(* What masters get. *)

StaysHere(s, n) == res[s][n] # NoFile => res'[s][n] \in {res[s][n], NoFile}

\* A file that a master may still get is not written over, whatever goes wrong:
\* the handlers choose a name and store under it holding the same mutex.
THEOREM StoredStaysCorrect == Spec => StoredStays
<1>1. TypeOK /\ FolderInv /\ [Next]_vars
        => [\A s \in Servers, n \in Names :
              res[s][n] # NoFile => res'[s][n] \in {res[s][n], NoFile}]_vars
    <2> SUFFICES ASSUME TypeOK, FolderInv, [Next]_vars,
                        NEW s \in Servers, NEW n \in Names
                 PROVE  StaysHere(s, n)
        BY DEF StaysHere
    <2>1. CASE Users
        BY <2>1 DEF Users, Click, server, StaysHere
    <2>2. CASE \E d \in Downloaders : ThreadStep(d)
        BY <2>2, ThreadKeepsFolder DEF StaysHere
    <2>3. ASSUME NEW r \in Requests, TakeLock(r) \/ ReplyStep(r) \/ Lose(r)
          PROVE  StaysHere(s, n)
        BY <2>3, TakeLockKeepsFolder, ReplyStepKeepsFolder DEF StaysHere
    <2>4. ASSUME NEW r \in Requests, Reply(r)
          PROVE  StaysHere(s, n)
        <3>1. \/ res' = res
              \/ /\ res[request[r].server][request[r].name] = NoFile
                 /\ res' = [res EXCEPT ![request[r].server][request[r].name]
                                  = request[r].camera]
            BY <2>4, ReplyKeepsFolder
        <3> QED
            BY <3>1 DEF StaysHere, TypeOK
    <2>5. ASSUME NEW t \in Servers, CleanRes(t)
          PROVE  StaysHere(s, n)
        <3>1. res' = [res EXCEPT ![t] = [k \in Names |-> NoFile]]
            BY <2>5, CleanKeepsFolder
        <3> QED
            BY <3>1 DEF StaysHere, TypeOK
    <2>6. CASE UNCHANGED vars
        BY <2>6 DEF vars, StaysHere
    <2> QED
        BY <2>1, <2>2, <2>3, <2>4, <2>5, <2>6, Zenon DEF Next
<1> QED
    BY <1>1, TypeCorrect, FolderInvCorrect, PTL DEF Spec, StoredStays

\* Unless something has gone wrong, what a master saves under the name of a
\* camera is from that camera.
THEOREM SavedIsAskedCorrect == Spec => []SavedIsAsked
<1>1. Init => SavedIsAsked
    BY DEF Init, SavedIsAsked
<1>2. TypeOK /\ FolderInv /\ SavedIsAsked /\ [Next]_vars => SavedIsAsked'
    <2> SUFFICES ASSUME TypeOK, FolderInv, SavedIsAsked, [Next]_vars
                 PROVE  SavedIsAsked'
        OBVIOUS
    <2>1. faults' = 0 => faults = 0
        <3>1. faults' = faults \/ Fault
            BY DEF Next, Users, ThreadStep, ReplyStep, Click, SetFlag, ResetTotal, ResetDone,
                   SkipEntry, SendRequest, CountRequest, EndBatch, TakeLock, Reply, Fetch,
                   Ignore, CountDone, Compare, CloseBatch, Lose, CleanRes, history, vars
        <3> QED
            BY <3>1 DEF Fault, TypeOK
    <2>2. CASE files' = files
        BY <2>1, <2>2 DEF SavedIsAsked
    <2>3. ASSUME NEW r \in Requests, Fetch(r)
          PROVE  SavedIsAsked'
        <3> DEFINE m == request[r].master
                   c == request[r].camera
        <3>1. /\ request[r].at = "replied"
              /\ request[r].kind = "last"
              /\ \/ files' = files
                 \/ files' = [files EXCEPT ![m][c] = Content(r)]
            BY <2>3, Zenon DEF Fetch
        <3>2. m \in Masters /\ c \in Cameras
            BY <3>1, RequestParts
        <3>3. faults = 0 => Content(r) = c
            BY <3>1 DEF FolderInv, ReplyIsTrue, Content
        <3> SUFFICES ASSUME faults' = 0, NEW x \in Masters, NEW y \in Cameras
                     PROVE  files'[x][y] \in {y, NoFile}
            BY DEF SavedIsAsked
        <3>4. files[x][y] \in {y, NoFile}
            BY <2>1 DEF SavedIsAsked
        <3>5. CASE files' = [files EXCEPT ![m][c] = c]
            BY <3>2, <3>4, <3>5 DEF TypeOK
        <3> QED
            BY <2>1, <3>1, <3>3, <3>4, <3>5
    <2>4. \/ files' = files
          \/ \E r \in Requests : Fetch(r)
        BY DEF Next, Users, ThreadStep, ReplyStep, Click, SetFlag, ResetTotal, ResetDone,
               SkipEntry, SendRequest, CountRequest, EndBatch, TakeLock, Reply,
               Ignore, CountDone, Compare, CloseBatch, Lose, CleanRes, disk, vars
    <2> QED
        BY <2>2, <2>3, <2>4
<1> QED
    BY <1>1, <1>2, TypeCorrect, FolderInvCorrect, PTL DEF Spec
=============================================================================
