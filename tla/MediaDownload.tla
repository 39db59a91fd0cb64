---------------------------- MODULE MediaDownload ----------------------------
(***************************************************************************)
(* Downloading media: the masters (download_last_media,                    *)
(* download_all_media, download_single_media and the media:url reply of    *)
(* class GoProMaster), the servers that fetch a file from a camera into    *)
(* their folder res one at a time (MediaAction and the getFetchURL family) *)
(* and the file server the masters then get it from.                       *)
(*                                                                         *)
(* A file is told by the camera it comes from: a file server answers with  *)
(* whatever is under the name when it is asked.                            *)
(*                                                                         *)
(* Atomicity.  The flag and the two counters of a master are atomics that  *)
(* its threads read and write one at a time; each access is a step, except *)
(* that the resets at the end of a batch are one.  A handler of the server *)
(* holds download_mtx from choosing a name to sending the reply.           *)
(***************************************************************************)
EXTENDS Integers, Sequences, FiniteSets

CONSTANTS
    Masters,
    Servers,
    Local,       \* the servers at 127.0.0.1: they hand out URLs of the camera
    Cameras,
    Entries,     \* the masters' camera entries, all online: [server, camera]
    Downloaders, \* download threads
    Requests,    \* bounds the requests under way
    Kinds,       \* what users download: the "last" file, or files of the browser
    Everything,  \* the empty address of the All Download button
    Nobody,      \* nobody holds the mutex
    NoFile,
    MaxClicks,   \* bound on the downloads users start
    MaxFaults    \* bound on what goes wrong: see Fault

ASSUME MediaAssumption ==
    /\ Local \subseteq Servers
    /\ Entries \in Seq([server : Servers, camera : Cameras])
    /\ Kinds \subseteq {"last", "browser"}
    /\ \A i \in 1..Len(Entries) : Entries[i] # Everything
    /\ Nobody \notin Requests
    /\ NoFile \notin Cameras
    /\ MaxClicks \in Nat
    /\ MaxFaults \in Nat

VARIABLES
    flag,    \* master -> downloading_media_flag
    total,   \* master -> downloading_media_total
    done,    \* master -> downloading_media_done
    thread,  \* the download threads
    request, \* the requests and replies under way
    lock,    \* server -> the request whose handler holds download_mtx
    res,     \* server -> the files of its folder, by the number of their name
    files,   \* master -> what it has saved under the name of a camera
    finish,  \* master -> finish.txt is there
    clicks,  \* downloads started so far
    faults   \* things gone wrong so far

vars == <<flag, total, done, thread, request, lock, res, files, finish, clicks, faults>>

EntrySet == {Entries[i] : i \in 1..Len(Entries)}

\* Groups of variables an action leaves alone together.
batch == <<flag, total, done>>
disk == <<files, finish>>
server == <<lock, res>>
history == <<clicks, faults>>

\* temp.download, temp.download0, temp.download1, ...: enough for every request.
Names == 0..(MaxClicks * Len(Entries))
Empty == -1

Idle == [at |-> "idle"]
Free == [at |-> "free"]

\* Thread `d` at another place, with the entries `todo` left.
Step(d, label, todo) ==
    [at |-> label, master |-> thread[d].master, kind |-> thread[d].kind,
     target |-> thread[d].target, put |-> thread[d].put, todo |-> todo]

Goto(d, label) == thread' = [thread EXCEPT ![d] = Step(d, label, thread[d].todo)]

\* Request `r` at another place, with the name `n` in its reply.
Moved(r, label, n) ==
    [at |-> label, master |-> request[r].master, kind |-> request[r].kind,
     server |-> request[r].server, camera |-> request[r].camera, name |-> n]

Move(r, label) == request' = [request EXCEPT ![r] = Moved(r, label, request[r].name)]

\* Whichever is free: they do not differ.
FreeRequest == CHOOSE r \in Requests : request[r] = Free

Init ==
    /\ flag = [m \in Masters |-> 0]
    /\ total = [m \in Masters |-> 0]
    /\ done = [m \in Masters |-> 0]
    /\ thread = [d \in Downloaders |-> Idle]
    /\ request = [r \in Requests |-> Free]
    /\ lock = [s \in Servers |-> Nobody]
    /\ res = [s \in Servers |-> [n \in Names |-> NoFile]]
    /\ files = [m \in Masters |-> [c \in Cameras |-> NoFile]]
    /\ finish = [m \in Masters |-> FALSE]
    /\ clicks = 0
    /\ faults = 0

\* A camera does not answer, a download breaks off, a client cleans the folder, a
\* connection is lost.
Fault == faults < MaxFaults /\ faults' = faults + 1

-----------------------------------------------------------------------------
(* The master's download threads. *)

\* The user asks for a download, of the last file of one camera or of Everything,
\* or of files the browser shows of one camera (one file stands for them); while
\* the flag is set, nothing happens.
Click(d, m, kind, target, put) ==
    /\ clicks < MaxClicks
    /\ clicks' = clicks + 1
    /\ thread[d] = Idle
    /\ flag[m] = 0
    /\ kind = "browser" => target # Everything /\ ~put
    /\ thread' = [thread EXCEPT ![d] =
                    [at |-> "flag", master |-> m, kind |-> kind, target |-> target,
                     put |-> put, todo |-> Entries]]
    /\ UNCHANGED <<request, faults, batch, disk, server>>

SetFlag(d) ==
    /\ thread[d].at = "flag"
    /\ flag' = [flag EXCEPT ![thread[d].master] = IF thread[d].put THEN 2 ELSE 1]
    /\ Goto(d, "total")
    /\ UNCHANGED <<total, done, request, history, disk, server>>

ResetTotal(d) ==
    /\ thread[d].at = "total"
    /\ total' = [total EXCEPT ![thread[d].master] = 0]
    /\ Goto(d, "done")
    /\ UNCHANGED <<flag, done, request, history, disk, server>>

ResetDone(d) ==
    /\ thread[d].at = "done"
    /\ done' = [done EXCEPT ![thread[d].master] = 0]
    /\ Goto(d, "loop")
    /\ UNCHANGED <<flag, total, request, history, disk, server>>

\* download_last_media takes the entries with the address, on whatever server:
\* `ip.size() == 0 || s->ip != ip` skips the others, and every one for Everything.
\* The browser's two take the entry findCamera finds.
Wanted(d, entry) ==
    /\ thread[d].target # Everything
    /\ thread[d].target.camera = entry.camera
    /\ thread[d].kind = "last" \/ thread[d].target.server = entry.server

SkipEntry(d) ==
    /\ thread[d].at = "loop"
    /\ thread[d].todo # <<>>
    /\ ~Wanted(d, Head(thread[d].todo))
    /\ thread' = [thread EXCEPT ![d] = Step(d, "loop", Tail(thread[d].todo))]
    /\ UNCHANGED <<request, history, batch, disk, server>>

\* The request is sent and only then counted.
SendRequest(d) ==
    /\ thread[d].at = "loop"
    /\ thread[d].todo # <<>>
    /\ LET entry == Head(thread[d].todo)
       IN  /\ Wanted(d, entry)
           /\ \E r \in Requests : request[r] = Free
           /\ request' = [request EXCEPT ![FreeRequest] =
                            [at |-> "sent", master |-> thread[d].master,
                             kind |-> thread[d].kind, server |-> entry.server,
                             camera |-> entry.camera, name |-> Empty]]
    /\ LET todo == IF thread[d].kind = "last" THEN Tail(thread[d].todo) ELSE <<>>
       IN  thread' = [thread EXCEPT ![d] = Step(d, "count", todo)]
    /\ UNCHANGED <<history, batch, disk, server>>

CountRequest(d) ==
    /\ thread[d].at = "count"
    /\ total' = [total EXCEPT ![thread[d].master] = @ + 1]
    /\ Goto(d, "loop")
    /\ UNCHANGED <<flag, done, request, history, disk, server>>

\* Nothing was sent: the flag goes off again.
EndBatch(d) ==
    /\ thread[d].at = "loop"
    /\ thread[d].todo = <<>>
    /\ LET m == thread[d].master
       IN  flag' = IF total[m] = 0 THEN [flag EXCEPT ![m] = 0] ELSE flag
    /\ thread' = [thread EXCEPT ![d] = Idle]
    /\ UNCHANGED <<total, done, request, history, disk, server>>

-----------------------------------------------------------------------------
(* The server: a handler thread per request. *)

\* Variant that does not see the file that has the name.
FirstFreeBlind(s, n) == \A k \in Names : k < n => res[s][k] # NoFile

\* The first name no file has.
FirstFree(s, n) ==
    /\ res[s][n] = NoFile
    /\ \A k \in Names : k < n => res[s][k] # NoFile

\* Variant that does without download_mtx.
TakeNoLock(r) ==
    /\ request[r].at = "sent"
    /\ LET s == request[r].server
       IN  \E n \in Names :
             /\ FirstFree(s, n)
             /\ request' = [request EXCEPT ![r] = Moved(r, "serving", n)]
    /\ UNCHANGED <<thread, res, lock, history, batch, disk>>

\* The handler has download_mtx.  The camera tells its last file, and a name is
\* chosen; or it does not, and the path of the reply stays empty.
TakeLock(r) ==
    /\ request[r].at = "sent"
    /\ LET s == request[r].server
       IN  /\ lock[s] = Nobody
           /\ lock' = [lock EXCEPT ![s] = r]
           /\ \/ /\ \E n \in Names :
                    /\ FirstFree(s, n)
                    /\ request' = [request EXCEPT ![r] = Moved(r, "serving", n)]
                 /\ UNCHANGED faults
              \/ /\ Fault
                 /\ request[r].kind = "last"
                 /\ request' = [request EXCEPT ![r] = Moved(r, "serving", Empty)]
    /\ UNCHANGED <<thread, res, clicks, batch, disk>>

Stores(r) == request[r].name # Empty /\ request[r].server \notin Local

\* The file is stored under the name, the reply sent and the mutex released.  A
\* download that breaks off leaves no file, and the reply does not say so.
Reply(r) ==
    /\ request[r].at = "serving"
    /\ LET s == request[r].server
       IN  /\ \/ /\ res' = IF Stores(r)
                           THEN [res EXCEPT ![s][request[r].name] = request[r].camera]
                           ELSE res
                 /\ UNCHANGED faults
              \/ /\ Fault
                 /\ Stores(r)
                 /\ UNCHANGED res
           /\ lock' = [lock EXCEPT ![s] = Nobody]
    /\ Move(r, "replied")
    /\ UNCHANGED <<thread, clicks, batch, disk>>

\* res_clean: removes every file, without download_mtx.
CleanRes(s) ==
    /\ Fault
    /\ res' = [res EXCEPT ![s] = [n \in Names |-> NoFile]]
    /\ UNCHANGED <<thread, request, lock, clicks, batch, disk>>

-----------------------------------------------------------------------------
(* The master's threads for the replies. *)

\* What the URL of a reply gives: a server at 127.0.0.1 hands out the camera's
\* own URL, another one the name of a file of its folder.
Content(r) ==
    LET s == request[r].server
    IN  IF s \in Local THEN request[r].camera
        ELSE IF request[r].name = Empty THEN NoFile
        ELSE res[s][request[r].name]

Uncounted(r) == request[r].server \in Local /\ request[r].name = Empty

\* media:url saves what it gets, if it gets anything.
Fetch(r) ==
    /\ request[r].at = "replied"
    /\ request[r].kind = "last"
    /\ ~Uncounted(r)
    /\ files' = IF Content(r) = NoFile THEN files
                ELSE [files EXCEPT ![request[r].master][request[r].camera] = Content(r)]
    /\ Move(r, "fetched")
    /\ UNCHANGED <<thread, finish, history, batch, server>>

\* media:url with an empty URL, and media:d_single and media:d_all: nothing.
Ignore(r) ==
    /\ request[r].at = "replied"
    /\ request[r].kind = "last" => Uncounted(r)
    /\ request' = [request EXCEPT ![r] = Free]
    /\ UNCHANGED <<thread, history, batch, disk, server>>

\* Variant that counts down.
CountDoneDown(r) ==
    /\ request[r].at = "fetched"
    /\ done' = [done EXCEPT ![request[r].master] = @ - 1]
    /\ Move(r, "counted")
    /\ UNCHANGED <<flag, total, thread, history, disk, server>>

CountDone(r) ==
    /\ request[r].at = "fetched"
    /\ done' = [done EXCEPT ![request[r].master] = @ + 1]
    /\ Move(r, "counted")
    /\ UNCHANGED <<flag, total, thread, history, disk, server>>

\* All counted requests are done, or not.
Compare(r) ==
    /\ request[r].at = "counted"
    /\ LET m == request[r].master
       IN  \/ done[m] = total[m] /\ Move(r, "closing")
           \/ done[m] # total[m] /\ request' = [request EXCEPT ![r] = Free]
    /\ UNCHANGED <<thread, history, batch, disk, server>>

CloseBatch(r) ==
    /\ request[r].at = "closing"
    /\ LET m == request[r].master
       IN  /\ finish' = IF flag[m] = 2 THEN [finish EXCEPT ![m] = TRUE] ELSE finish
           /\ flag' = [flag EXCEPT ![m] = 0]
           /\ total' = [total EXCEPT ![m] = 0]
           /\ done' = [done EXCEPT ![m] = 0]
    /\ request' = [request EXCEPT ![r] = Free]
    /\ UNCHANGED <<thread, files, history, server>>

\* The connection goes with the request or the reply on it.
Lose(r) ==
    /\ Fault
    /\ request[r].at \in {"sent", "replied"}
    /\ request' = [request EXCEPT ![r] = Free]
    /\ UNCHANGED <<thread, clicks, batch, disk, server>>

-----------------------------------------------------------------------------
Users ==
    \E d \in Downloaders, m \in Masters, kind \in Kinds,
       target \in EntrySet \cup {Everything}, put \in BOOLEAN :
          Click(d, m, kind, target, put)

ThreadStep(d) ==
    \/ SetFlag(d) \/ ResetTotal(d) \/ ResetDone(d)
    \/ SkipEntry(d) \/ SendRequest(d) \/ CountRequest(d) \/ EndBatch(d)

ReplyStep(r) == Fetch(r) \/ Ignore(r) \/ CountDone(r) \/ Compare(r) \/ CloseBatch(r)

Next ==
    \/ Users
    \/ \E d \in Downloaders : ThreadStep(d)
    \/ \E r \in Requests : TakeLock(r) \/ Reply(r) \/ ReplyStep(r) \/ Lose(r)
    \/ \E s \in Servers : CleanRes(s)

Spec == Init /\ [][Next]_vars

(***************************************************************************)
(* Fairness.  Threads run, and downloads end or break off.  A handler that *)
(* waits for download_mtx is not passed over for ever, each holder gives   *)
(* it back.  What users and networks do is not fair.                       *)
(***************************************************************************)
Fairness ==
    /\ \A d \in Downloaders : WF_vars(ThreadStep(d))
    /\ \A r \in Requests :
        /\ SF_vars(TakeLock(r))
        /\ WF_vars(Reply(r))
        /\ WF_vars(ReplyStep(r))

LiveSpec == Spec /\ Fairness

-----------------------------------------------------------------------------
(* Properties. *)

Running == [at : {"flag", "total", "done", "loop", "count"}, master : Masters,
            kind : Kinds, target : EntrySet \cup {Everything}, put : BOOLEAN,
            todo : Seq([server : Servers, camera : Cameras])]

Asking == [at : {"sent", "serving", "replied", "fetched", "counted", "closing"},
           master : Masters, kind : Kinds, server : Servers, camera : Cameras,
           name : Names \cup {Empty}]

TypeOK ==
    /\ flag \in [Masters -> 0..2]
    /\ total \in [Masters -> Nat]
    /\ done \in [Masters -> Nat]
    /\ thread \in [Downloaders -> Running \cup {Idle}]
    /\ request \in [Requests -> Asking \cup {Free}]
    /\ lock \in [Servers -> Requests \cup {Nobody}]
    /\ res \in [Servers -> [Names -> Cameras \cup {NoFile}]]
    /\ files \in [Masters -> [Cameras -> Cameras \cup {NoFile}]]
    /\ finish \in [Masters -> BOOLEAN]
    /\ clicks \in 0..MaxClicks
    /\ faults \in 0..MaxFaults

\* Unless something has gone wrong, what a master saves under the name of a
\* camera is from that camera, although the reply gives a name only and the file
\* is got later, when the server may already be storing files for others.
SavedIsAsked ==
    faults = 0 => \A m \in Masters, c \in Cameras : files[m][c] \in {c, NoFile}

\* Whatever goes wrong, a file that a master may still get is not written over:
\* it stays as it is until somebody cleans the folder.
StoredStays ==
    [][\A s \in Servers, n \in Names :
          res[s][n] # NoFile => res'[s][n] \in {res[s][n], NoFile}]_vars

\* A download comes to its end: the flag does not stay on for ever.
DownloadsEnd == \A m \in Masters : flag[m] # 0 ~> flag[m] = 0
=============================================================================
