-------------------------- MODULE MasterSyncProofs --------------------------
(***************************************************************************)
(* Theorems about MasterSync, for every set of servers and cameras, any    *)
(* number of unfinished queries and any number of connections to a server. *)
(***************************************************************************)
EXTENDS MasterSync, SequenceTheorems, TLAPS

\* There is a kind of query to go on with, and its number stays in range.
LEMMA QueryInRange ==
    /\ Len(Queries) \in Nat \ {0}
    /\ \A q \in 1..Len(Queries) : Queries[q] \in Kinds
    /\ \A q \in 1..Len(Queries) : (q % Len(Queries)) + 1 \in 1..Len(Queries)
BY SyncAssumption DEF Kinds

\* A query under way is typed, whatever its stage.
LEMMA TalkType ==
    ASSUME NEW at \in {"asked", "arrived", "listing"}, NEW s \in Servers,
           NEW k \in Kinds, NEW conn \in 0..MaxConnects,
           NEW ips \in SUBSET Ips, NEW good \in SUBSET Ips
    PROVE  Talk(at, s, k, conn, ips, good) \in Talking
BY DEF Talk, Talking

\* What a query under way consists of.
LEMMA TalkParts ==
    ASSUME TypeOK, NEW t \in Talks, talk[t].at # "free"
    PROVE  /\ talk[t] \in Talking
           /\ talk[t].at \in {"asked", "arrived", "listing"}
           /\ talk[t].server \in Servers
           /\ talk[t].kind \in Kinds
           /\ talk[t].conn \in 0..MaxConnects
           /\ talk[t].ips \subseteq Ips
           /\ talk[t].good \subseteq Ips
<1>1. talk[t] \in Talking
    BY DEF TypeOK, Free
<1> QED
    BY <1>1 DEF Talking

-----------------------------------------------------------------------------
(* Type correctness. *)

\* Every reachable state is well typed.
THEOREM TypeCorrect == Spec => []TypeOK
<1>1. Init => TypeOK
    <2> SUFFICES ASSUME Init
                 PROVE  TypeOK
        OBVIOUS
    <2>1. <<>> \in Seq(Servers)
        BY EmptySeq
    <2>2. /\ poll \in [query : 1..Len(Queries), todo : Seq(Servers), sending : BOOLEAN]
          /\ ~poll.sending
        BY <2>1, QueryInRange DEF Init, At
    <2>3. orphans \in 0..MaxOrphans /\ connects \in [Servers -> 0..MaxConnects]
        BY SyncAssumption DEF Init
    <2>4. talk \in [Talks -> Talking \cup {Free}]
        BY DEF Init
    <2> QED
        BY <2>1, <2>2, <2>3, <2>4 DEF Init, TypeOK
<1>2. TypeOK /\ [Next]_vars => TypeOK'
    <2> SUFFICES ASSUME TypeOK, [Next]_vars
                 PROVE  TypeOK'
        OBVIOUS
    <2> USE DEF TypeOK, At, registry, transport, view, flags, Crosses
    <2>1. ASSUME NEW s \in Servers, NEW ip \in Ips, ListChange(s, ip)
          PROVE  TypeOK'
        BY <2>1 DEF ListChange
    <2>2. ASSUME NEW s \in Servers, PingPublish(s)
          PROVE  TypeOK'
        <3>1. PICK ips \in SUBSET listed[s] : alive' = [alive EXCEPT ![s] = ips]
            BY <2>2 DEF PingPublish
        <3>2. listed[s] \subseteq Ips
            OBVIOUS
        <3>3. alive' \in [Servers -> SUBSET Ips]
            BY <3>1, <3>2
        <3> QED
            BY <2>2, <3>3 DEF PingPublish
    <2>3. ASSUME NEW s \in Servers, AddServer(s)
          PROVE  TypeOK'
        BY <2>3 DEF AddServer
    <2>4. ASSUME NEW s \in Servers, Clean(s)
          PROVE  TypeOK'
        <3>1. PICK i \in 1..Len(servers) :
                servers' = SubSeq(servers, 1, i - 1) \o SubSeq(servers, i + 1, Len(servers))
            BY <2>4 DEF Clean
        <3>2. SubSeq(servers, 1, i - 1) \in Seq(Servers)
            BY SubSeqProperties
        <3>3. SubSeq(servers, i + 1, Len(servers)) \in Seq(Servers)
            BY SubSeqProperties
        <3>4. servers' \in Seq(Servers)
            BY <3>1, <3>2, <3>3, ConcatProperties
        <3> QED
            BY <2>4, <3>4 DEF Clean
    <2>5. ASSUME NEW s \in Servers, Reconnect(s)
          PROVE  TypeOK'
        BY <2>5, SyncAssumption DEF Reconnect
    <2>6. ASSUME NEW s \in Servers, LinkLost(s)
          PROVE  TypeOK'
        <3>1. talk' \in [Talks -> Talking \cup {Free}]
            BY <2>6 DEF LinkLost
        <3> QED
            BY <2>6, <3>1 DEF LinkLost
    <2>7. ASSUME NEW s \in Servers, OnClose(s)
          PROVE  TypeOK'
        BY <2>7 DEF OnClose
    <2>8. CASE PollNext
        BY <2>8, QueryInRange DEF PollNext
    <2>9. CASE PollSkip
        <3>1. Tail(poll.todo) \in Seq(Servers)
            BY <2>9, HeadTailProperties DEF PollSkip
        <3> QED
            BY <2>9, <3>1 DEF PollSkip
    <2>10. CASE PollCheck
        BY <2>10 DEF PollCheck
    <2>11. CASE PollSend
        <3> DEFINE s == Head(poll.todo)
        <3>1. s \in Servers /\ Tail(poll.todo) \in Seq(Servers)
            BY <2>11, HeadTailProperties DEF PollSend
        <3>2. Polled \in Kinds
            BY QueryInRange DEF Polled
        <3> HIDE DEF s
        <3>3. talk' \in [Talks -> Talking \cup {Free}]
            <4>1. Asked(s) \in Talking
                BY <3>1, <3>2, TalkType DEF Asked
            <4>2. \/ talk' = [talk EXCEPT ![FreeTalk] = Asked(s)]
                  \/ talk' = talk
                BY <2>11, Zenon DEF PollSend, s
            <4> QED
                BY <4>1, <4>2
        <3>4. queryFinish' \in [Kinds -> [Servers -> BOOLEAN]]
            <4>1. queryFinish' = [queryFinish EXCEPT ![Polled][s] = TRUE]
                BY <2>11, Zenon DEF PollSend, s
            <4> QED
                BY <3>1, <3>2, <4>1
        <3>5. /\ poll' \in [query : 1..Len(Queries), todo : Seq(Servers), sending : BOOLEAN]
              /\ ~poll'.sending
            BY <2>11, <3>1 DEF PollSend
        <3>6. crossed' \in [Servers -> SUBSET {"stray", "late"}]
            <4>1. \/ crossed' = [crossed EXCEPT ![s] = @ \cup {"stray"}]
                  \/ crossed' = crossed
                BY <2>11, Zenon DEF PollSend, s
            <4>2. crossed[s] \cup {"stray"} \in SUBSET {"stray", "late"}
                BY <3>1
            <4> QED
                BY <3>1, <4>1, <4>2
        <3> QED
            BY <2>11, <3>3, <3>4, <3>5, <3>6 DEF PollSend
    <2>12. ASSUME NEW t \in Talks, Answer(t)
           PROVE  TypeOK'
        <3>1. /\ talk[t].server \in Servers
              /\ talk[t].kind \in Kinds
              /\ talk[t].conn \in 0..MaxConnects
            BY <2>12, TalkParts DEF Answer
        <3>2. PICK ips \in SUBSET Ips, good \in SUBSET Ips :
                talk' = [talk EXCEPT ![t] =
                            Talk("arrived", talk[t].server, talk[t].kind,
                                 talk[t].conn, ips, good)]
            <4>1. {} \subseteq Ips /\ listed[talk[t].server] \subseteq Ips
                BY <3>1
            <4>2. \A good \in SUBSET alive[talk[t].server] : good \subseteq Ips
                BY <3>1
            <4>3. alive[talk[t].server] \subseteq Ips
                BY <3>1
            <4> QED
                BY <2>12, <4>1, <4>2, <4>3, Zenon DEF Answer
        <3>3. talk' \in [Talks -> Talking \cup {Free}]
            BY <3>1, <3>2, TalkType
        <3> QED
            BY <2>12, <3>3 DEF Answer
    <2>13. ASSUME NEW t \in Talks, OnIp(t) \/ OnState(t) \/ OnStateEntries(t)
                                            \/ OnLastMedia(t)
           PROVE  TypeOK'
        <3>1. /\ talk[t].server \in Servers
              /\ talk[t].kind \in Kinds
              /\ talk[t].ips \subseteq Ips
              /\ talk[t].good \subseteq Ips
            BY <2>13, TalkParts DEF OnIp, OnState, OnStateEntries, OnLastMedia
        <3>2. Finish(t) => talk' \in [Talks -> Talking \cup {Free}]
            BY DEF Finish
        <3>3. ASSUME Unflag(t)
              PROVE  /\ queryFinish' \in [Kinds -> [Servers -> BOOLEAN]]
                     /\ crossed' \in [Servers -> SUBSET {"stray", "late"}]
            BY <3>1, <3>3 DEF Unflag
        <3>4. CASE OnIp(t)
            BY <3>1, <3>2, <3>3, <3>4 DEF OnIp
        <3>5. CASE OnState(t)
            <4>1. [talk[t] EXCEPT !.at = "listing"] \in Talking
                BY <3>5, TalkParts DEF OnState, Talking
            <4>2. talk' \in [Talks -> Talking \cup {Free}]
                BY <3>5, <4>1 DEF OnState
            <4> QED
                BY <3>3, <3>5, <4>2 DEF OnState
        <3>6. CASE OnStateEntries(t)
            <4>1. orphans' \in 0..MaxOrphans
                BY <3>6, SyncAssumption DEF OnStateEntries
            <4> QED
                BY <3>1, <3>2, <3>6, <4>1 DEF OnStateEntries
        <3>7. CASE OnLastMedia(t)
            BY <3>2, <3>3, <3>7 DEF OnLastMedia
        <3> QED
            BY <2>13, <3>4, <3>5, <3>6, <3>7
    <2>14. CASE UNCHANGED vars
        BY <2>14 DEF vars
    <2> QED
        BY <2>1, <2>2, <2>3, <2>4, <2>5, <2>6, <2>7, <2>8, <2>9, <2>10, <2>11, <2>12,
           <2>13, <2>14
        DEF Next, RegistryStep, ConnectionStep, PollStep, TalkStep
<1> QED
    BY <1>1, <1>2, PTL DEF Spec

-----------------------------------------------------------------------------
(* Queries do not stack, over any number of connections. *)

\* What is under way was asked over a connection there has been.
PastConnections ==
    \A t \in Talks : talk[t].at # "free" => talk[t].conn <= connects[talk[t].server]

\* An open connection is one whose onclose is still to come.
LinkedConnected == \A s \in Servers : linked[s] => connected[s]

\* The flag is set for every unfinished query of the present connection, unless a
\* reply of an earlier one has reset it ...
FlagsHold ==
    \A s \in Servers, k \in Kinds, t \in Talks :
        connected[s] /\ "late" \notin crossed[s] /\ Pending(t, s, k) => queryFinish[k][s]

\* ... and clear for the one that is about to be sent.
SendingClear == poll.sending => ~queryFinish[Polled][Head(poll.todo)]

\* The inductive invariant.
PollInv ==
    /\ PastConnections
    /\ LinkedConnected
    /\ FlagsHold
    /\ SendingClear
    /\ NoStacking

\* The server the update thread is at is one.
LEMMA HeadOfTodo ==
    ASSUME TypeOK, poll.todo # <<>>
    PROVE  Head(poll.todo) \in Servers
BY HeadTailProperties DEF TypeOK

\* What a reply thread does to the flags: it resets one, and leaves its mark if its
\* connection is not the present one.
LEMMA UnflagEffect ==
    ASSUME TypeOK, NEW t \in Talks, talk[t].at # "free", Unflag(t)
    PROVE  /\ ~queryFinish'[talk[t].kind][talk[t].server]
           /\ \A s \in Servers, k \in Kinds :
                ~(s = talk[t].server /\ k = talk[t].kind)
                    => queryFinish'[k][s] = queryFinish[k][s]
           /\ \A s \in Servers : crossed[s] \subseteq crossed'[s]
           /\ \A s \in Servers : "stray" \in crossed'[s] => "stray" \in crossed[s]
           /\ talk[t].conn # connects[talk[t].server]
                => "late" \in crossed'[talk[t].server]
<1> DEFINE r == talk[t].server
           j == talk[t].kind
<1>1. r \in Servers /\ j \in Kinds
    BY TalkParts
<1>2. queryFinish' = [queryFinish EXCEPT ![j][r] = FALSE]
    BY DEF Unflag
<1>3. IF talk[t].conn # connects[r]
      THEN crossed' = [crossed EXCEPT ![r] = @ \cup {"late"}]
      ELSE crossed' = crossed
    BY DEF Unflag, Crosses
<1> HIDE DEF r, j
<1>4. /\ ~queryFinish'[j][r]
      /\ \A s \in Servers, k \in Kinds :
            ~(s = r /\ k = j) => queryFinish'[k][s] = queryFinish[k][s]
    BY <1>1, <1>2 DEF TypeOK
<1>5. /\ \A s \in Servers : crossed[s] \subseteq crossed'[s]
      /\ \A s \in Servers : "stray" \in crossed'[s] => "stray" \in crossed[s]
      /\ talk[t].conn # connects[r] => "late" \in crossed'[r]
    <2>1. CASE talk[t].conn # connects[r]
        <3>1. /\ crossed'[r] = crossed[r] \cup {"late"}
              /\ \A s \in Servers : s # r => crossed'[s] = crossed[s]
            BY <1>1, <1>3, <2>1 DEF TypeOK
        <3> QED
            BY <3>1
    <2>2. CASE talk[t].conn = connects[r]
        BY <1>3, <2>2
    <2> QED
        BY <2>1, <2>2
<1> QED
    BY <1>4, <1>5 DEF r, j

\* Finishing a query whose flag is reset keeps the invariant: there is no other of its
\* kind over the same connection.
LEMMA FinishKeepsPollInv ==
    ASSUME TypeOK, PollInv, NEW t \in Talks, talk[t].at = "arrived",
           Unflag(t),
           talk'[t].at \in {"free", "listing"},
           talk'[t].at = "listing" =>
                talk'[t].server = talk[t].server /\ talk'[t].conn = talk[t].conn,
           \A u \in Talks : u # t => talk'[u] = talk[u],
           UNCHANGED <<linked, connected, connects, poll>>
    PROVE  PollInv'
<1> DEFINE s == talk[t].server
           k == talk[t].kind
<1>1. s \in Servers /\ k \in Kinds
    BY TalkParts
<1>2. /\ \A r \in Servers, j \in Kinds :
            ~(r = s /\ j = k) => queryFinish'[j][r] = queryFinish[j][r]
      /\ \A r \in Servers : "late" \notin crossed'[r] => "late" \notin crossed[r]
      /\ "late" \notin crossed'[s] => Pending(t, s, k)
    BY UnflagEffect DEF Pending
<1>3. \A u \in Talks, r \in Servers, j \in Kinds :
            Pending(u, r, j)' => u # t /\ Pending(u, r, j)
    BY DEF Pending
<1>4. PastConnections' /\ LinkedConnected'
    BY <1>1 DEF PollInv, PastConnections, LinkedConnected
<1>5. FlagsHold'
    <2> SUFFICES ASSUME NEW r \in Servers, NEW j \in Kinds, NEW u \in Talks,
                        connected[r], "late" \notin crossed'[r], Pending(u, r, j)'
                 PROVE  queryFinish'[j][r]
        BY DEF FlagsHold
    <2>1. u # t /\ Pending(u, r, j) /\ "late" \notin crossed[r]
        BY <1>2, <1>3
    <2>2. queryFinish[j][r]
        BY <2>1 DEF PollInv, FlagsHold
    <2>3. ~(r = s /\ j = k)
        BY <1>2, <2>1 DEF PollInv, NoStacking
    <2> QED
        BY <1>2, <2>2, <2>3
<1>6. SendingClear'
    <2> SUFFICES ASSUME poll.sending
                 PROVE  ~queryFinish'[Polled][Head(poll.todo)]
        BY DEF SendingClear, Polled
    <2>1. ~queryFinish[Polled][Head(poll.todo)]
        BY DEF PollInv, SendingClear
    <2>2. Head(poll.todo) \in Servers /\ Polled \in Kinds
        BY HeadOfTodo, QueryInRange DEF TypeOK, Polled
    <2>3. ~queryFinish'[k][s]
        BY UnflagEffect
    <2> HIDE DEF s, k
    <2> QED
        BY <1>2, <2>1, <2>2, <2>3
<1>7. NoStacking'
    BY <1>2, <1>3 DEF PollInv, NoStacking
<1> QED
    BY <1>4, <1>5, <1>6, <1>7 DEF PollInv

\* The invariant is inductive.
LEMMA PollInvStep ==
    ASSUME TypeOK, PollInv, [Next]_vars
    PROVE  PollInv'
<1> USE DEF registry, transport, view, flags
<1>1. ASSUME UNCHANGED <<linked, connected, connects, queryFinish, crossed, talk, poll>>
      PROVE  PollInv'
    BY <1>1
    DEF PollInv, PastConnections, LinkedConnected, FlagsHold, SendingClear, NoStacking,
        Pending, Polled
<1>2. ASSUME NEW s \in Servers, Reconnect(s)
      PROVE  PollInv'
    <2>1. connects[s] \in Nat /\ connects'[s] = connects[s] + 1 /\ linked'[s] /\ connected'[s]
        BY <1>2, SyncAssumption DEF Reconnect, TypeOK
    <2>2. \A r \in Servers : r # s => linked'[r] = linked[r] /\ connected'[r] = connected[r]
                                       /\ connects'[r] = connects[r]
        BY <1>2 DEF Reconnect, TypeOK
    <2>3. UNCHANGED <<queryFinish, crossed, talk, poll>>
        BY <1>2 DEF Reconnect
    <2>4. \A t \in Talks : talk[t].at # "free" =>
            /\ talk[t].conn \in Nat
            /\ talk[t].server \in Servers
            /\ talk[t].conn <= connects[talk[t].server]
            /\ connects[talk[t].server] \in Nat
        BY TalkParts, SyncAssumption DEF PollInv, PastConnections, TypeOK
    <2>5. PastConnections' /\ LinkedConnected'
        BY <2>1, <2>2, <2>3, <2>4 DEF PollInv, PastConnections, LinkedConnected
    <2>6. \A t \in Talks, r \in Servers, k \in Kinds :
             Pending(t, r, k)' => r # s /\ Pending(t, r, k)
        BY <2>1, <2>2, <2>3, <2>4 DEF Pending
    <2>7. FlagsHold' /\ NoStacking'
        BY <2>2, <2>3, <2>6 DEF PollInv, FlagsHold, NoStacking
    <2>8. SendingClear'
        BY <2>3 DEF PollInv, SendingClear, Polled
    <2> QED
        BY <2>5, <2>7, <2>8 DEF PollInv
<1>3. ASSUME NEW s \in Servers, LinkLost(s)
      PROVE  PollInv'
    <2>1. \A r \in Servers : linked'[r] => linked[r]
        BY <1>3 DEF LinkLost, TypeOK
    <2>2. \A t \in Talks : talk'[t] = Free \/ talk'[t] = talk[t]
        BY <1>3 DEF LinkLost
    <2>3. UNCHANGED <<connected, connects, queryFinish, crossed, poll>>
        BY <1>3 DEF LinkLost
    <2>4. \A t \in Talks, r \in Servers, k \in Kinds : Pending(t, r, k)' => Pending(t, r, k)
        BY <2>2, <2>3 DEF Pending, Free
    <2>5. PastConnections' /\ LinkedConnected'
        BY <2>1, <2>2, <2>3 DEF PollInv, PastConnections, LinkedConnected, Free
    <2> QED
        BY <2>3, <2>4, <2>5 DEF PollInv, FlagsHold, SendingClear, NoStacking, Polled
<1>4. ASSUME NEW s \in Servers, OnClose(s)
      PROVE  PollInv'
    <2>1. UNCHANGED <<linked, connects, talk, poll>> /\ ~linked[s]
        BY <1>4 DEF OnClose
    <2>2. \A r \in Servers : r # s =>
             /\ connected'[r] = connected[r]
             /\ crossed'[r] = crossed[r]
             /\ \A k \in Kinds : queryFinish'[k][r] = queryFinish[k][r]
        BY <1>4 DEF OnClose, TypeOK
    <2>3. ~connected'[s]
        BY <1>4 DEF OnClose, TypeOK
    <2>4. \A r \in Servers, k \in Kinds : queryFinish'[k][r] => queryFinish[k][r]
        BY <1>4 DEF OnClose, TypeOK
    <2>5. PastConnections' /\ LinkedConnected'
        BY <2>1, <2>2, <2>3 DEF PollInv, PastConnections, LinkedConnected
    <2>6. FlagsHold'
        BY <2>1, <2>2, <2>3 DEF PollInv, FlagsHold, Pending
    <2>7. SendingClear'
        <3>1. poll.sending => Head(poll.todo) \in Servers /\ Polled \in Kinds
            BY HeadOfTodo, QueryInRange DEF TypeOK, Polled
        <3> QED
            BY <2>1, <2>4, <3>1 DEF PollInv, SendingClear, Polled
    <2>8. NoStacking'
        BY <2>1, <2>2, <2>3 DEF PollInv, NoStacking, Pending
    <2> QED
        BY <2>5, <2>6, <2>7, <2>8 DEF PollInv
<1>5. ASSUME PollNext \/ PollSkip
      PROVE  PollInv'
    <2>1. /\ UNCHANGED <<linked, connected, connects, queryFinish, crossed, talk>>
          /\ ~poll'.sending
        BY <1>5 DEF PollNext, PollSkip, At
    <2> QED
        BY <2>1
        DEF PollInv, PastConnections, LinkedConnected, FlagsHold, SendingClear, NoStacking,
            Pending
<1>6. CASE PollCheck
    <2>1. /\ UNCHANGED <<linked, connected, connects, queryFinish, crossed, talk>>
          /\ poll'.query = poll.query /\ poll'.todo = poll.todo
          /\ ~queryFinish[Polled][Head(poll.todo)]
        BY <1>6 DEF PollCheck, At
    <2> QED
        BY <2>1
        DEF PollInv, PastConnections, LinkedConnected, FlagsHold, SendingClear, NoStacking,
            Pending, Polled
<1>7. CASE PollSend
    <2> DEFINE s == Head(poll.todo)
    <2>1. s \in Servers /\ Polled \in Kinds
        BY <1>7, HeadOfTodo, QueryInRange DEF PollSend, TypeOK, Polled
    <2>2. UNCHANGED <<linked, connected, connects>> /\ ~poll'.sending
        BY <1>7 DEF PollSend, At
    <2>3. /\ queryFinish'[Polled][s]
          /\ \A r \in Servers, k \in Kinds : queryFinish[k][r] => queryFinish'[k][r]
          /\ \A r \in Servers : crossed[r] \subseteq crossed'[r]
        BY <1>7, <2>1 DEF PollSend, TypeOK, Crosses
    <2>4. SendingClear'
        BY <2>2 DEF SendingClear
    <2>5. LinkedConnected'
        BY <2>2 DEF PollInv, LinkedConnected
    <2>6. CASE ~linked[s]
        <3>1. talk' = talk
            BY <1>7, <2>6 DEF PollSend
        <3>2. PastConnections'
            BY <2>2, <3>1 DEF PollInv, PastConnections
        <3>3. FlagsHold' /\ NoStacking'
            BY <2>2, <2>3, <3>1 DEF PollInv, FlagsHold, NoStacking, Pending
        <3> QED
            BY <2>4, <2>5, <3>2, <3>3 DEF PollInv
    <2>7. CASE linked[s]
        <3>1. "late" \notin crossed[s] => \A t \in Talks : ~Pending(t, s, Polled)
            BY <1>7, <2>1, <2>7
            DEF PollSend, PollInv, FlagsHold, SendingClear, LinkedConnected
        <3>2. FreeTalk \in Talks
            BY <1>7, <2>7 DEF PollSend, FreeTalk
        <3>3. /\ talk'[FreeTalk] = Asked(s)
              /\ \A t \in Talks : t # FreeTalk => talk'[t] = talk[t]
            BY <1>7, <2>7, <3>2 DEF PollSend, TypeOK
        <3>4. \A t \in Talks, r \in Servers, k \in Kinds :
                 Pending(t, r, k)' =>
                    \/ t = FreeTalk /\ r = s /\ k = Polled
                    \/ t # FreeTalk /\ Pending(t, r, k)
            BY <2>2, <3>3 DEF Pending, Asked, Talk
        <3>5. PastConnections'
            <4>1. Asked(s).conn <= connects[Asked(s).server]
                BY <2>1, SyncAssumption DEF Asked, Talk, TypeOK
            <4> QED
                BY <2>2, <3>3, <4>1 DEF PollInv, PastConnections
        <3>6. FlagsHold'
            BY <2>2, <2>3, <3>4 DEF PollInv, FlagsHold
        <3>7. NoStacking'
            BY <2>2, <2>3, <3>1, <3>4 DEF PollInv, NoStacking
        <3> QED
            BY <2>4, <2>5, <3>5, <3>6, <3>7 DEF PollInv
    <2> QED
        BY <2>6, <2>7
<1>8. ASSUME NEW t \in Talks, Answer(t)
      PROVE  PollInv'
    <2>1. UNCHANGED <<linked, connected, connects, queryFinish, crossed, poll>>
        BY <1>8 DEF Answer
    <2>2. /\ talk[t].at = "asked" /\ talk'[t].at = "arrived"
          /\ talk'[t].server = talk[t].server /\ talk'[t].kind = talk[t].kind
          /\ talk'[t].conn = talk[t].conn
          /\ \A u \in Talks : u # t => talk'[u] = talk[u]
        BY <1>8 DEF Answer, TypeOK, Talk
    <2>3. \A u \in Talks, r \in Servers, k \in Kinds : Pending(u, r, k)' <=> Pending(u, r, k)
        BY <2>1, <2>2 DEF Pending
    <2>4. PastConnections'
        BY <2>1, <2>2 DEF PollInv, PastConnections
    <2> QED
        BY <2>1, <2>3, <2>4
        DEF PollInv, LinkedConnected, FlagsHold, SendingClear, NoStacking, Polled
<1>9. ASSUME NEW t \in Talks, OnIp(t) \/ OnState(t) \/ OnLastMedia(t)
      PROVE  PollInv'
    <2>1. /\ talk[t].at = "arrived"
          /\ Unflag(t)
          /\ UNCHANGED <<linked, connected, connects, poll>>
        BY <1>9 DEF OnIp, OnState, OnLastMedia
    <2>2. /\ talk'[t] = Free \/ talk'[t] = [talk[t] EXCEPT !.at = "listing"]
          /\ \A u \in Talks : u # t => talk'[u] = talk[u]
        BY <1>9 DEF OnIp, OnState, OnLastMedia, Finish, TypeOK
    <2>3. talk[t] \in Talking
        BY <2>1, TalkParts
    <2>4. /\ talk'[t].at \in {"free", "listing"}
          /\ talk'[t].at = "listing" =>
                talk'[t].server = talk[t].server /\ talk'[t].conn = talk[t].conn
        BY <2>2, <2>3 DEF Free, Talking
    <2> QED
        BY <2>1, <2>2, <2>4, FinishKeepsPollInv
<1>10. ASSUME NEW t \in Talks, OnStateEntries(t)
       PROVE  PollInv'
    <2>1. UNCHANGED <<linked, connected, connects, queryFinish, crossed, poll>>
        BY <1>10 DEF OnStateEntries
    <2>2. talk'[t] = Free /\ \A u \in Talks : u # t => talk'[u] = talk[u]
        BY <1>10 DEF OnStateEntries, Finish, TypeOK
    <2>3. \A u \in Talks, r \in Servers, k \in Kinds : Pending(u, r, k)' => Pending(u, r, k)
        BY <2>1, <2>2 DEF Pending, Free
    <2>4. PastConnections'
        BY <2>1, <2>2 DEF PollInv, PastConnections, Free
    <2> QED
        BY <2>1, <2>3, <2>4
        DEF PollInv, LinkedConnected, FlagsHold, SendingClear, NoStacking, Polled
<1>11. ASSUME NEW s \in Servers, RegistryStep(s) \/ AddServer(s) \/ Clean(s)
       PROVE  PollInv'
    BY <1>1, <1>11 DEF RegistryStep, ListChange, PingPublish, AddServer, Clean
<1>12. CASE UNCHANGED vars
    BY <1>1, <1>12 DEF vars
<1> QED
    BY <1>2, <1>3, <1>4, <1>5, <1>6, <1>7, <1>8, <1>9, <1>10, <1>11, <1>12
    DEF Next, ConnectionStep, PollStep, TalkStep

\* It is an invariant.
LEMMA PollInvCorrect == Spec => []PollInv
<1>1. Init => PollInv
    BY DEF Init, PollInv, PastConnections, LinkedConnected, FlagsHold, SendingClear,
        NoStacking, Pending, Free, At
<1>2. TypeOK /\ PollInv /\ [Next]_vars => PollInv'
    BY PollInvStep
<1> QED
    BY <1>1, <1>2, TypeCorrect, PTL DEF Spec

\* However often a server is connected again, no query is sent while the last of its
\* kind over the same connection is unanswered, unless a reply of an earlier
\* connection came late.
THEOREM NoStackingCorrect == Spec => []NoStacking
<1>1. PollInv => NoStacking
    BY DEF PollInv
<1> QED
    BY <1>1, PollInvCorrect, PTL

-----------------------------------------------------------------------------
(* Flags do not stay set, over any number of connections. *)

\* Between two connections no flag is set, unless the update thread was late.
FlagInv ==
    /\ FlagsAreOwed
    /\ \A s \in Servers, k \in Kinds :
          ~connected[s] /\ "stray" \notin crossed[s] => ~queryFinish[k][s]

\* A step that sets no flag, forgets no stray one and ends no query.
LEMMA FlagInvKept ==
    ASSUME FlagInv, UNCHANGED connected,
           \A s \in Servers : linked'[s] => linked[s],
           \A s \in Servers : "stray" \in crossed[s] => "stray" \in crossed'[s],
           \A s \in Servers, k \in Kinds : queryFinish'[k][s] => queryFinish[k][s],
           \A s \in Servers, k \in Kinds, t \in Talks :
              linked'[s] /\ queryFinish'[k][s] /\ Pending(t, s, k) => Pending(t, s, k)'
    PROVE  FlagInv'
BY DEF FlagInv, FlagsAreOwed

\* A reply ends its query and resets the flag the query was held back by.
LEMMA ReplyKeepsFlagInv ==
    ASSUME TypeOK, FlagInv, NEW t \in Talks, talk[t].at # "free", Unflag(t),
           \A u \in Talks : u # t => talk'[u] = talk[u],
           UNCHANGED <<linked, connected, connects>>
    PROVE  FlagInv'
<1> DEFINE s == talk[t].server
           k == talk[t].kind
<1>1. /\ ~queryFinish'[k][s]
      /\ \A r \in Servers, j \in Kinds :
            ~(r = s /\ j = k) => queryFinish'[j][r] = queryFinish[j][r]
      /\ \A r \in Servers : crossed[r] \subseteq crossed'[r]
    BY UnflagEffect
<1>2. \A u \in Talks, r \in Servers, j \in Kinds :
            ~(r = s /\ j = k) /\ Pending(u, r, j) => Pending(u, r, j)'
    BY DEF Pending
<1>3. \A r \in Servers, j \in Kinds : queryFinish'[j][r] => queryFinish[j][r]
    BY <1>1
<1> QED
    BY <1>1, <1>2, <1>3, FlagInvKept

\* The update thread sets a flag and sends the query that goes with it, or leaves
\* its mark.
LEMMA SendKeepsFlagInv ==
    ASSUME TypeOK, FlagInv, PollSend
    PROVE  FlagInv'
<1> DEFINE s == Head(poll.todo)
<1>1. s \in Servers /\ Polled \in Kinds
    BY HeadOfTodo, QueryInRange DEF PollSend, TypeOK, Polled
<1>2. UNCHANGED <<linked, connected, connects>>
    BY DEF PollSend, transport
<1>3. \A r \in Servers, k \in Kinds :
         ~(r = s /\ k = Polled) => queryFinish'[k][r] = queryFinish[k][r]
    BY <1>1 DEF PollSend, TypeOK
<1>4. /\ \A r \in Servers : crossed[r] \subseteq crossed'[r]
      /\ ~connected[s] => "stray" \in crossed'[s]
    BY <1>1 DEF PollSend, TypeOK, Crosses
<1>5. \A r \in Servers, k \in Kinds :
          ~connected'[r] /\ "stray" \notin crossed'[r] => ~queryFinish'[k][r]
    BY <1>2, <1>3, <1>4 DEF FlagInv
<1>6. CASE ~linked[s]
    <2>1. talk' = talk
        BY <1>6 DEF PollSend
    <2>2. FlagsAreOwed'
        BY <1>2, <1>3, <1>4, <1>6, <2>1 DEF FlagInv, FlagsAreOwed, Pending
    <2> QED
        BY <1>5, <2>2 DEF FlagInv
<1>7. CASE linked[s]
    <2>1. FreeTalk \in Talks /\ talk[FreeTalk] = Free
        BY <1>7 DEF PollSend, FreeTalk
    <2>2. /\ talk'[FreeTalk] = Asked(s)
          /\ \A t \in Talks : t # FreeTalk => talk'[t] = talk[t]
        BY <1>7, <2>1 DEF PollSend, TypeOK
    <2>3. ASSUME NEW r \in Servers, NEW k \in Kinds, r = s, k = Polled
          PROVE  \E t \in Talks : Pending(t, r, k)'
        <3>1. PICK t \in Talks : talk'[t] = Talk("asked", r, k, connects[r], {}, {})
            BY <2>1, <2>2, <2>3 DEF Asked
        <3> QED
            BY <1>2, <3>1 DEF Pending, Talk
    <2>4. \A t \in Talks, r \in Servers, k \in Kinds : Pending(t, r, k) => Pending(t, r, k)'
        BY <1>2, <2>1, <2>2 DEF Pending, Free
    <2>5. FlagsAreOwed'
        BY <1>2, <1>3, <1>4, <2>1, <2>3, <2>4 DEF FlagInv, FlagsAreOwed
    <2> QED
        BY <1>5, <2>5 DEF FlagInv
<1> QED
    BY <1>6, <1>7

\* The invariant is inductive.
LEMMA FlagInvStep ==
    ASSUME TypeOK, FlagInv, [Next]_vars
    PROVE  FlagInv'
<1> USE DEF registry, transport, view, flags
<1>1. ASSUME UNCHANGED <<linked, connected, connects, queryFinish, crossed, talk>>
      PROVE  FlagInv'
    BY <1>1 DEF FlagInv, FlagsAreOwed, Pending
<1>2. ASSUME NEW s \in Servers, Reconnect(s)
      PROVE  FlagInv'
    <2>1. ~connected[s] /\ connected'[s]
        BY <1>2 DEF Reconnect, TypeOK
    <2>2. \A r \in Servers : r # s =>
            linked'[r] = linked[r] /\ connected'[r] = connected[r] /\ connects'[r] = connects[r]
        BY <1>2 DEF Reconnect, TypeOK
    <2>3. UNCHANGED <<queryFinish, crossed, talk>>
        BY <1>2 DEF Reconnect
    <2> QED
        BY <2>1, <2>2, <2>3 DEF FlagInv, FlagsAreOwed, Pending
<1>3. ASSUME NEW s \in Servers, LinkLost(s)
      PROVE  FlagInv'
    <2>1. ~linked'[s] /\ \A r \in Servers : linked'[r] => linked[r]
        BY <1>3 DEF LinkLost, TypeOK
    <2>2. \A t \in Talks : talk[t].server # s => talk'[t] = talk[t]
        BY <1>3 DEF LinkLost
    <2>3. UNCHANGED <<connected, connects, queryFinish, crossed>>
        BY <1>3 DEF LinkLost
    <2> QED
        BY <2>1, <2>2, <2>3, FlagInvKept DEF Pending
<1>4. ASSUME NEW s \in Servers, OnClose(s)
      PROVE  FlagInv'
    <2>1. UNCHANGED <<linked, connects, talk>> /\ ~linked[s]
        BY <1>4 DEF OnClose
    <2>2. \A r \in Servers : r # s =>
             /\ connected'[r] = connected[r]
             /\ crossed'[r] = crossed[r]
             /\ \A k \in Kinds : queryFinish'[k][r] = queryFinish[k][r]
        BY <1>4 DEF OnClose, TypeOK
    <2>3. \A k \in Kinds : ~queryFinish'[k][s]
        BY <1>4 DEF OnClose, TypeOK
    <2> QED
        BY <2>1, <2>2, <2>3 DEF FlagInv, FlagsAreOwed, Pending
<1>5. ASSUME PollNext \/ PollSkip \/ PollCheck
      PROVE  FlagInv'
    BY <1>1, <1>5 DEF PollNext, PollSkip, PollCheck
<1>6. ASSUME NEW t \in Talks, Answer(t)
      PROVE  FlagInv'
    <2>1. UNCHANGED <<linked, connected, connects, queryFinish, crossed>>
        BY <1>6 DEF Answer
    <2>2. /\ talk[t].at = "asked" /\ talk'[t].at = "arrived"
          /\ talk'[t].server = talk[t].server /\ talk'[t].kind = talk[t].kind
          /\ talk'[t].conn = talk[t].conn
          /\ \A u \in Talks : u # t => talk'[u] = talk[u]
        BY <1>6 DEF Answer, TypeOK, Talk
    <2> QED
        BY <2>1, <2>2, FlagInvKept DEF Pending
<1>7. ASSUME NEW t \in Talks, OnIp(t) \/ OnState(t) \/ OnLastMedia(t)
      PROVE  FlagInv'
    <2>1. /\ talk[t].at # "free"
          /\ Unflag(t)
          /\ UNCHANGED <<linked, connected, connects>>
        BY <1>7 DEF OnIp, OnState, OnLastMedia
    <2>2. \A u \in Talks : u # t => talk'[u] = talk[u]
        BY <1>7 DEF OnIp, OnState, OnLastMedia, Finish, TypeOK
    <2> QED
        BY <2>1, <2>2, ReplyKeepsFlagInv
<1>8. ASSUME NEW t \in Talks, OnStateEntries(t)
      PROVE  FlagInv'
    <2>1. /\ UNCHANGED <<linked, connected, connects, queryFinish, crossed>>
          /\ talk[t].at = "listing"
        BY <1>8 DEF OnStateEntries
    <2>2. \A u \in Talks : u # t => talk'[u] = talk[u]
        BY <1>8 DEF OnStateEntries, Finish, TypeOK
    <2> QED
        BY <2>1, <2>2, FlagInvKept DEF Pending
<1>9. ASSUME NEW s \in Servers, RegistryStep(s) \/ AddServer(s) \/ Clean(s)
      PROVE  FlagInv'
    BY <1>1, <1>9 DEF RegistryStep, ListChange, PingPublish, AddServer, Clean
<1>10. CASE UNCHANGED vars
    BY <1>1, <1>10 DEF vars
<1> QED
    BY <1>2, <1>3, <1>4, <1>5, <1>6, <1>7, <1>8, <1>9, <1>10, SendKeepsFlagInv
    DEF Next, ConnectionStep, PollStep, TalkStep

\* While a connection stands, the first or a later one, every flag that holds back a
\* query belongs to one that is under way, unless the flag was set after the onclose
\* of the last connection.
THEOREM FlagsAreOwedCorrect == Spec => []FlagsAreOwed
<1>1. Init => FlagInv
    BY DEF Init, FlagInv, FlagsAreOwed
<1>2. TypeOK /\ FlagInv /\ [Next]_vars => FlagInv'
    BY FlagInvStep
<1>3. FlagInv => FlagsAreOwed
    BY DEF FlagInv
<1> QED
    BY <1>1, <1>2, <1>3, TypeCorrect, PTL DEF Spec
=============================================================================
