----------------------------- MODULE MasterSync -----------------------------
(***************************************************************************)
(* How a master keeps up with its servers (src/src/master, class           *)
(* GoProMaster, against the message handlers of src/src/server/main.cpp):  *)
(* the connections, the update thread that polls every server for its      *)
(* cameras and their states, the thread per reply that enters what it says *)
(* into the camera list, and the flags that hold back a query while the    *)
(* last one is unanswered.                                                 *)
(*                                                                         *)
(* A server counts here with two sets: the cameras of its list and those   *)
(* alive, which its registry changes at any time (CameraRegistry).         *)
(*                                                                         *)
(* Atomicity.  Every section that holds camera_mtx is one step; the flags  *)
(* are read and written without it, so the update thread has a step        *)
(* between reading a flag and setting it, and a reply to a state query one *)
(* between resetting the flag and taking camera_mtx.                       *)
(***************************************************************************)
EXTENDS Integers, Sequences, FiniteSets

CONSTANTS
    Servers,      \* the addresses of the servers
    Ips,          \* the addresses of cameras
    Queries,      \* what update() polls for, in its order
    Talks,        \* a query and its answer occupy one; bounds the unfinished ones
    MaxConnects,  \* bound on the connections made to a server
    MaxOrphans    \* camera entries without a server are counted up to this

Kinds == {Queries[i] : i \in 1..Len(Queries)}

ASSUME SyncAssumption ==
    /\ Queries \in Seq({"ip", "state", "media"})
    /\ Len(Queries) > 0
    /\ MaxConnects \in Nat
    /\ MaxOrphans \in Nat

VARIABLES
    listed,      \* server -> cameras of its list
    alive,       \* server -> cameras its pings found alive
    linked,      \* the WebSocket to the server is open
    connected,   \* ServerConnection::connected
    servers,     \* the servers of the master, in the order they were added
    queryFinish, \* ip-, state- and mediaQueryFinish: TRUE while unanswered
    cameras,     \* server -> addresses of the camera entries
    online,      \* server -> those of them whose connected is set
    orphans,     \* camera entries with an empty server and address
    poll,        \* where the update thread is
    talk,        \* the queries and answers under way
    connects,    \* connections made so far
    crossed      \* server -> what has come from one connection into the next

vars == <<listed, alive, linked, connected, servers, queryFinish, cameras, online,
          orphans, poll, talk, connects, crossed>>

\* Groups of variables an action leaves alone together.
registry == <<listed, alive>>
transport == <<linked, connects>>
view == <<cameras, online, orphans>>
flags == <<queryFinish, crossed>>

Free == [at |-> "free"]

\* `conn` is the number of the connection a query is sent over.
Talk(at, s, k, conn, ips, good) ==
    [at |-> at, server |-> s, kind |-> k, conn |-> conn, ips |-> ips, good |-> good]

\* The update thread is in the loop for a kind of query, with the servers `todo`
\* left, and may have decided to send to the first of them.
At(query, todo, sending) == [query |-> query, todo |-> todo, sending |-> sending]

\* Whichever is free: they do not differ.
FreeTalk == CHOOSE t \in Talks : talk[t] = Free

\* A query `k` to `s`, over its last connection, that the master has not finished
\* with.
Pending(t, s, k) ==
    /\ talk[t].at \in {"asked", "arrived"}
    /\ talk[t].server = s
    /\ talk[t].kind = k
    /\ talk[t].conn = connects[s]

(***************************************************************************)
(* History: what the update thread and the reply threads do to the flags   *)
(* of a server across the end of its connection, since the last onclose.   *)
(*   "stray": the update thread set a flag after onclose had reset it;     *)
(*   "late":  a reply of an earlier connection reset a flag.               *)
(***************************************************************************)
Crosses(s, how, happens) ==
    crossed' = IF happens THEN [crossed EXCEPT ![s] = @ \cup {how}] ELSE crossed

-----------------------------------------------------------------------------
Init ==
    /\ listed \in [Servers -> SUBSET Ips]
    /\ alive = [s \in Servers |-> {}]
    /\ linked = [s \in Servers |-> FALSE]
    /\ connected = [s \in Servers |-> FALSE]
    /\ servers = <<>>
    /\ queryFinish = [k \in Kinds |-> [s \in Servers |-> FALSE]]
    /\ cameras = [s \in Servers |-> {}]
    /\ online = [s \in Servers |-> {}]
    /\ orphans = 0
    /\ poll = At(Len(Queries), <<>>, FALSE)
    /\ talk = [t \in Talks |-> Free]
    /\ connects = [s \in Servers |-> 0]
    /\ crossed = [s \in Servers |-> {}]

-----------------------------------------------------------------------------
(* The servers: what their registries do in the meantime. *)

\* A camera is added to the list, or deleted from it.
ListChange(s, ip) ==
    /\ listed' = [listed EXCEPT ![s] = IF ip \in @ THEN @ \ {ip} ELSE @ \cup {ip}]
    /\ UNCHANGED <<alive, connected, servers, flags, poll, talk, transport, view>>

\* A round of pings ends: some of the cameras that were listed answered.
PingPublish(s) ==
    /\ alive' \in {[alive EXCEPT ![s] = ips] : ips \in SUBSET listed[s]}
    /\ UNCHANGED <<listed, connected, servers, flags, poll, talk, transport, view>>

-----------------------------------------------------------------------------
(* Connections. *)

Known(s) == \E i \in 1..Len(servers) : servers[i] = s

\* addServer, for an address that is not there yet.
AddServer(s) ==
    /\ ~Known(s)
    /\ servers' = Append(servers, s)
    /\ UNCHANGED <<connected, flags, poll, talk, registry, transport, view>>

\* clean, and cleanAll for each server: only when it is not connected.
Clean(s) ==
    /\ Known(s)
    /\ ~connected[s]
    /\ ~linked[s]
    /\ \E i \in 1..Len(servers) :
        /\ servers[i] = s
        /\ servers' = SubSeq(servers, 1, i - 1) \o SubSeq(servers, i + 1, Len(servers))
    /\ UNCHANGED <<connected, flags, poll, talk, registry, transport, view>>

\* reconnect, reconnectAll: the client opens the connection; onopen.
Reconnect(s) ==
    /\ Known(s)
    /\ ~connected[s]
    /\ ~linked[s]
    /\ connects[s] < MaxConnects
    /\ connects' = [connects EXCEPT ![s] = @ + 1]
    /\ linked' = [linked EXCEPT ![s] = TRUE]
    /\ connected' = [connected EXCEPT ![s] = TRUE]
    /\ UNCHANGED <<servers, flags, poll, talk, registry, view>>

\* The connection ends: the network, the server, or disconnect, disconnectAll.
\* Queries and answers on their way are lost, and an answer a server thread
\* still works on finds no channel; what has arrived has a thread of its own.
LinkLost(s) ==
    /\ linked[s]
    /\ linked' = [linked EXCEPT ![s] = FALSE]
    /\ talk' = [t \in Talks |->
                  IF talk[t].at = "asked" /\ talk[t].server = s
                  THEN Free ELSE talk[t]]
    /\ UNCHANGED <<connected, servers, flags, poll, connects, registry, view>>

\* Variant that resets no flag.
OnCloseKeepsFlags(s) ==
    /\ ~linked[s]
    /\ connected[s]
    /\ connected' = [connected EXCEPT ![s] = FALSE]
    /\ cameras' = [cameras EXCEPT ![s] = {}]
    /\ online' = [online EXCEPT ![s] = {}]
    /\ crossed' = [crossed EXCEPT ![s] = {}]
    /\ UNCHANGED <<servers, queryFinish, orphans, poll, talk, registry, transport>>

\* onclose, on the client's thread: drops the cameras of the server and resets
\* its flags.
OnClose(s) ==
    /\ ~linked[s]
    /\ connected[s]
    /\ connected' = [connected EXCEPT ![s] = FALSE]
    /\ cameras' = [cameras EXCEPT ![s] = {}]
    /\ online' = [online EXCEPT ![s] = {}]
    /\ queryFinish' = [k \in Kinds |-> [queryFinish[k] EXCEPT ![s] = FALSE]]
    /\ crossed' = [crossed EXCEPT ![s] = {}]
    /\ UNCHANGED <<servers, orphans, poll, talk, registry, transport>>

-----------------------------------------------------------------------------
(* The update thread. *)

Polled == Queries[poll.query]

\* Variant that runs past the last kind of query.
PollNextNoWrap ==
    /\ poll.todo = <<>>
    /\ poll' = At(poll.query + 1, servers, FALSE)
    /\ UNCHANGED <<connected, servers, flags, talk, registry, transport, view>>

\* The loop over the servers for the next kind of query begins.
PollNext ==
    /\ poll.todo = <<>>
    /\ poll' = At((poll.query % Len(Queries)) + 1, servers, FALSE)
    /\ UNCHANGED <<connected, servers, flags, talk, registry, transport, view>>

\* Not connected, or the last query is unanswered: continue.
PollSkip ==
    /\ poll.todo # <<>>
    /\ ~poll.sending
    /\ LET s == Head(poll.todo)
       IN  ~connected[s] \/ queryFinish[Polled][s]
    /\ poll' = At(poll.query, Tail(poll.todo), FALSE)
    /\ UNCHANGED <<connected, servers, flags, talk, registry, transport, view>>

\* Both checks passed: the query will be sent.
PollCheck ==
    /\ poll.todo # <<>>
    /\ ~poll.sending
    /\ LET s == Head(poll.todo)
       IN  connected[s] /\ ~queryFinish[Polled][s]
    /\ poll' = At(poll.query, poll.todo, TRUE)
    /\ UNCHANGED <<connected, servers, flags, talk, registry, transport, view>>

Asked(s) == Talk("asked", s, Polled, connects[s], {}, {})

\* Variant that forgets the flag.
PollSendUnflagged ==
    /\ poll.sending
    /\ poll' = At(poll.query, Tail(poll.todo), FALSE)
    /\ LET s == Head(poll.todo)
       IN  \/ /\ linked[s]
              /\ \E t \in Talks : talk[t] = Free
              /\ talk' = [talk EXCEPT ![FreeTalk] = Asked(s)]
           \/ /\ ~linked[s]
              /\ UNCHANGED talk
    /\ UNCHANGED <<connected, servers, flags, registry, transport, view>>

\* The flag is set and the query sent, to nobody if the connection is gone.
PollSend ==
    /\ poll.sending
    /\ poll' = At(poll.query, Tail(poll.todo), FALSE)
    /\ LET s == Head(poll.todo)
       IN  /\ queryFinish' = [queryFinish EXCEPT ![Polled][s] = TRUE]
           /\ Crosses(s, "stray", ~connected[s])
           /\ \/ /\ linked[s]
                 /\ \E t \in Talks : talk[t] = Free
                 /\ talk' = [talk EXCEPT ![FreeTalk] = Asked(s)]
              \/ /\ ~linked[s]
                 /\ UNCHANGED talk
    /\ UNCHANGED <<connected, servers, registry, transport, view>>

-----------------------------------------------------------------------------
(* A thread of the server reads the query and answers; the client's onmessage   *)
(* starts a thread for the answer.  An answer that is lost with the connection  *)
(* need not be told from a query that is lost.                                  *)

\* getAllIP: the list.  queryStatus for all: an entry for each camera alive, some
\* of them without the data.  getLastMedia for all: file names.
Answer(t) ==
    /\ talk[t].at = "asked"
    /\ LET s == talk[t].server
           k == talk[t].kind
           Says(ips, good) ==
               talk' = [talk EXCEPT ![t] = Talk("arrived", s, k, @.conn, ips, good)]
       IN  \/ k = "ip" /\ Says(listed[s], {})
           \/ k = "state" /\ \E good \in SUBSET alive[s] : Says(alive[s], good)
           \/ k = "media" /\ Says({}, {})
    /\ UNCHANGED <<connected, servers, flags, poll, registry, transport, view>>

-----------------------------------------------------------------------------
(* processMessage, on a thread per message: they overtake each other. *)

Finish(t) == talk' = [talk EXCEPT ![t] = Free]

\* The reply resets the flag of its kind, whichever connection it came by.
Unflag(t) ==
    LET s == talk[t].server
    IN  /\ queryFinish' = [queryFinish EXCEPT ![talk[t].kind][s] = FALSE]
        /\ Crosses(s, "late", talk[t].conn # connects[s])

\* Variant that removes no entry.
OnIpAppends(t) ==
    /\ talk[t].at = "arrived"
    /\ talk[t].kind = "ip"
    /\ LET s == talk[t].server
       IN  /\ cameras' = [cameras EXCEPT ![s] = @ \cup talk[t].ips]
    /\ Unflag(t)
    /\ Finish(t)
    /\ UNCHANGED <<connected, servers, online, orphans, poll, registry, transport>>

\* command:ip: the entries of the server become those of the answer, then the
\* flag is reset, all under camera_mtx.
OnIp(t) ==
    /\ talk[t].at = "arrived"
    /\ talk[t].kind = "ip"
    /\ LET s == talk[t].server
       IN  /\ cameras' = [cameras EXCEPT ![s] = talk[t].ips]
           /\ online' = [online EXCEPT ![s] = @ \cap talk[t].ips]
    /\ Unflag(t)
    /\ Finish(t)
    /\ UNCHANGED <<connected, servers, orphans, poll, registry, transport>>

\* query:getall resets the flag first ...
OnState(t) ==
    /\ talk[t].at = "arrived"
    /\ talk[t].kind = "state"
    /\ Unflag(t)
    /\ talk' = [talk EXCEPT ![t].at = "listing"]
    /\ UNCHANGED <<connected, servers, poll, registry, transport, view>>

\* Variant that sets no camera offline.
OnStateKeepsOnline(t) ==
    /\ talk[t].at = "listing"
    /\ LET s == talk[t].server
       IN  online' = [online EXCEPT ![s] = @ \cup (talk[t].good \cap cameras[s])]
    /\ Finish(t)
    /\ UNCHANGED <<connected, servers, flags, cameras, orphans, poll, registry,
                   transport>>

\* ... and then, under camera_mtx, sets every camera of the server offline, those
\* of the answer with their settings online again, and pushes an entry that has
\* neither server nor address for each one it cannot find.
OnStateEntries(t) ==
    /\ talk[t].at = "listing"
    /\ LET s == talk[t].server
           strangers == talk[t].ips \ cameras[s]
       IN  /\ online' = [online EXCEPT ![s] = talk[t].good \cap cameras[s]]
           /\ orphans' \in {n \in orphans..MaxOrphans :
                            \/ n = orphans + Cardinality(strangers)
                            \/ n = MaxOrphans /\ n < orphans + Cardinality(strangers)}
    /\ Finish(t)
    /\ UNCHANGED <<connected, servers, flags, cameras, poll, registry, transport>>

\* media:lastmedia notes the file for the cameras it finds, and resets the flag.
OnLastMedia(t) ==
    /\ talk[t].at = "arrived"
    /\ talk[t].kind = "media"
    /\ Unflag(t)
    /\ Finish(t)
    /\ UNCHANGED <<connected, servers, poll, registry, transport, view>>

-----------------------------------------------------------------------------
RegistryStep(s) == (\E ip \in Ips : ListChange(s, ip)) \/ PingPublish(s)

ConnectionStep(s) ==
    AddServer(s) \/ Clean(s) \/ Reconnect(s) \/ LinkLost(s) \/ OnClose(s)

PollStep == PollNext \/ PollSkip \/ PollCheck \/ PollSend

TalkStep(t) ==
    \/ Answer(t)
    \/ OnIp(t) \/ OnState(t) \/ OnStateEntries(t) \/ OnLastMedia(t)

Next ==
    \/ \E s \in Servers : RegistryStep(s) \/ ConnectionStep(s)
    \/ PollStep
    \/ \E t \in Talks : TalkStep(t)

Spec == Init /\ [][Next]_vars

(***************************************************************************)
(* Fairness.  The update thread never stops, a server thread answers (its  *)
(* HTTP calls have timeouts), the threads of the replies run, and a client *)
(* notices that its connection is gone.  What users, networks and cameras  *)
(* do is not fair.                                                         *)
(***************************************************************************)
Fairness ==
    /\ WF_vars(PollStep)
    /\ \A t \in Talks : WF_vars(TalkStep(t))
    /\ \A s \in Servers : WF_vars(OnClose(s))

LiveSpec == Spec /\ Fairness

-----------------------------------------------------------------------------
(* Properties. *)

Talking == [at : {"asked", "arrived", "listing"},
            server : Servers, kind : Kinds, conn : 0..MaxConnects,
            ips : SUBSET Ips, good : SUBSET Ips]

TypeOK ==
    /\ listed \in [Servers -> SUBSET Ips]
    /\ alive \in [Servers -> SUBSET Ips]
    /\ linked \in [Servers -> BOOLEAN]
    /\ connected \in [Servers -> BOOLEAN]
    /\ servers \in Seq(Servers)
    /\ queryFinish \in [Kinds -> [Servers -> BOOLEAN]]
    /\ cameras \in [Servers -> SUBSET Ips]
    /\ online \in [Servers -> SUBSET Ips]
    /\ orphans \in 0..MaxOrphans
    /\ poll \in [query : 1..Len(Queries), todo : Seq(Servers), sending : BOOLEAN]
    /\ poll.sending => poll.todo # <<>>
    /\ talk \in [Talks -> Talking \cup {Free}]
    /\ connects \in [Servers -> 0..MaxConnects]
    /\ crossed \in [Servers -> SUBSET {"stray", "late"}]

\* However often a server is connected again, no query is sent while the last one
\* of its kind over the same connection is unanswered: check and set are two steps,
\* and reply threads and onclose reset the flag in between.  The exception is a
\* reply of an earlier connection, which frees the flag of a query it does not answer.
NoStacking ==
    \A s \in Servers, k \in Kinds, t, u \in Talks :
        /\ connected[s] /\ "late" \notin crossed[s]
        /\ Pending(t, s, k) /\ Pending(u, s, k)
        => t = u

\* No flag holds queries back for nothing: while a connection stands, the first or
\* a later one, the query whose reply will reset the flag is under way.  The
\* exception is a flag set after onclose, by an update thread that had checked before.
FlagsAreOwed ==
    \A s \in Servers, k \in Kinds :
        linked[s] /\ "stray" \notin crossed[s] /\ queryFinish[k][s]
            => \E t \in Talks : Pending(t, s, k)

\* The server is connected for good, and no flag is left from before.
Settled(s) == connected[s] /\ "stray" \notin crossed[s]

\* The list comes to match: when the list of a connected server has come to
\* rest, so do the entries of the master, at the same set, whatever replies of
\* this connection or the last are entered late.
ListIsMirrored ==
    \A s \in Servers, ips \in SUBSET Ips :
        <>[](Settled(s) /\ listed[s] = ips) => <>[](cameras[s] = ips)

\* A camera that stops answering is shown offline for good, although replies
\* are entered in any order.
SilentGoesOffline ==
    \A s \in Servers, ip \in Ips :
        <>[](Settled(s) /\ ip \notin alive[s]) => <>[](ip \notin online[s])

PolledAgain(s, k) == []<>(\E t \in Talks : Pending(t, s, k))

\* A server that is connected, for the first time or again, is polled again and
\* again, for everything: the queries and answers its last connection took with it
\* hold nothing back.  The exception is that of FlagsAreOwed.
PollingResumes ==
    \A s \in Servers, k \in Kinds : <>[]Settled(s) => PolledAgain(s, k)

\* A connected server is polled again and again, for everything.
KeepsPolling ==
    \A s \in Servers, k \in Kinds : <>[]connected[s] => PolledAgain(s, k)
=============================================================================
