--------------------------- MODULE ApplySettings ---------------------------
(***************************************************************************)
(* Applying settings to all cameras: the buttons of a master and its two   *)
(* variables applying_all and applying_all_count (src/src/master), the     *)
(* message "setall" to every server, and the thread per message with which *)
(* a server (setSettingAll, src/src/server/controller/query.cpp) writes    *)
(* one setting after the other to one camera after the other.              *)
(*                                                                         *)
(* The n-th apply writes the value n to every setting its preset mode      *)
(* selects; all applies have the same mode.  Cameras start with value 0.   *)
(*                                                                         *)
(* Atomicity.  A setting is one HTTP call and one step.  Nothing guards    *)
(* the two variables of the master: the UI thread sends before or after it *)
(* sets applying_all, and `applying_all_count++` is a read and a write.    *)
(***************************************************************************)
EXTENDS Integers, FiniteSets

CONSTANTS
    Servers,      \* the servers of the master
    Cameras,
    Home,         \* camera -> the server it is plugged into
    NumSettings,  \* how many settings the preset mode selects
    NoCamera,     \* the source of a preset: none
    MaxApplies,   \* bound on the clicks that apply
    MaxAgain,     \* bound on the clicks in the preview while an apply is under way
    MaxStops,     \* bound on the clicks that stop
    MaxFaults     \* bound on what goes wrong

Applies == 1..MaxApplies
Settings == 1..NumSettings
Jobs == Servers \X Applies

ASSUME ApplyAssumption ==
    /\ IsFiniteSet(Servers)
    /\ Home \in [Cameras -> Servers]
    /\ NumSettings \in Nat \ {0}
    /\ NoCamera \notin Cameras
    /\ MaxApplies \in Nat
    /\ MaxAgain \in Nat
    /\ MaxStops \in Nat
    /\ MaxFaults \in Nat

VARIABLES
    camset,             \* camera -> setting -> the apply its value is from
    alive,              \* server -> camera_alive_ips
    applying_cancel,    \* server -> its flag
    cancels,            \* server -> "setall_cancel" messages under way
    connected,          \* ServerConnection::connected
    job,                \* server, apply -> what has come of the message "setall"
    source,             \* apply -> the camera its settings were taken from
    sending,            \* apply -> servers its sender thread has not got to yet
    ui,                 \* what a click still has to do
    applying_all,
    applying_all_count,
    clicks,             \* applies so far
    again,              \* those in the preview while applying_all was set
    stops,
    faults

vars == <<camset, alive, applying_cancel, cancels, connected, job, source, sending, ui,
          applying_all, applying_all_count, clicks, again, stops, faults>>

\* Groups of variables an action leaves alone together.
feedback == <<applying_all, applying_all_count>>
user == <<source, ui, clicks, again, stops>>
world == <<camset, alive, connected>>
canceling == <<applying_cancel, cancels>>

\* `next` is for each camera the setting it gets next: NumSettings + 1 when it has
\* them all, 0 when it is not a target.  `seen` is applying_all_count as the reply
\* read it.
Job(at, next, seen) == [at |-> at, next |-> next, seen |-> seen]

Untouched == [c \in Cameras |-> 0]

Writing == {"running", "orphan"}

Move(j, at) == job' = [job EXCEPT ![j] = Job(at, job[j].next, job[j].seen)]

Fault == faults < MaxFaults /\ faults' = faults + 1

-----------------------------------------------------------------------------
Init ==
    /\ camset = [c \in Cameras |-> [k \in Settings |-> 0]]
    /\ alive = [s \in Servers |-> {c \in Cameras : Home[c] = s}]
    /\ applying_cancel = [s \in Servers |-> FALSE]
    /\ cancels = [s \in Servers |-> 0]
    /\ connected = [s \in Servers |-> TRUE]
    /\ job = [j \in Jobs |-> Job("none", Untouched, 0)]
    /\ source = [a \in Applies |-> NoCamera]
    /\ sending = [a \in Applies |-> {}]
    /\ ui = "idle"
    /\ applying_all = FALSE
    /\ applying_all_count = 0
    /\ clicks = 0
    /\ again = 0
    /\ stops = 0
    /\ faults = 0

-----------------------------------------------------------------------------
(* The master's buttons, on the UI thread. *)

\* Variant whose buttons stay enabled.
ClickEnabled(c) ==
    /\ ui = "idle"
    /\ clicks < MaxApplies
    /\ clicks' = clicks + 1
    /\ source' = [source EXCEPT ![clicks + 1] = c]
    /\ sending' = [sending EXCEPT ![clicks + 1] = Servers]
    /\ ui' = "mark"
    /\ UNCHANGED <<world, canceling, job, feedback, again, stops, faults>>

\* Quick Apply All of the inspector copies the settings of the selected camera,
\* Apply of the preset manager a preset; both are hidden or disabled while
\* applying_all is set, and both set it after the sender has been started.
Click(c) ==
    /\ ui = "idle"
    /\ ~applying_all
    /\ clicks < MaxApplies
    /\ clicks' = clicks + 1
    /\ source' = [source EXCEPT ![clicks + 1] = c]
    /\ sending' = [sending EXCEPT ![clicks + 1] = Servers]
    /\ ui' = "mark"
    /\ UNCHANGED <<world, canceling, job, feedback, again, stops, faults>>

\* quickApplyAll sends nothing when the settings of the camera are not known yet.
ClickUnknown(c) ==
    /\ Fault
    /\ ui = "idle"
    /\ ~applying_all
    /\ clicks < MaxApplies
    /\ clicks' = clicks + 1
    /\ source' = [source EXCEPT ![clicks + 1] = c]
    /\ ui' = "mark"
    /\ UNCHANGED <<world, canceling, job, sending, feedback, again, stops>>

MarkApplying ==
    /\ ui = "mark"
    /\ ui' = "idle"
    /\ applying_all' = TRUE
    /\ UNCHANGED <<world, canceling, job, source, sending, applying_all_count, clicks,
                   again, stops, faults>>

\* The preview popup has the same button, never disabled; it sets applying_all first.
ClickPreview(c) ==
    /\ ui = "idle"
    /\ clicks < MaxApplies
    /\ applying_all => again < MaxAgain
    /\ again' = IF applying_all THEN again + 1 ELSE again
    /\ clicks' = clicks + 1
    /\ source' = [source EXCEPT ![clicks + 1] = c]
    /\ ui' = "send"
    /\ applying_all' = TRUE
    /\ UNCHANGED <<world, canceling, job, sending, applying_all_count, stops, faults>>

SendPreview ==
    /\ ui = "send"
    /\ ui' = "idle"
    /\ sending' = [sending EXCEPT ![clicks] = Servers]
    /\ UNCHANGED <<world, canceling, job, source, feedback, clicks, again, stops, faults>>

\* Stop Apply All: a thread sends "setall_cancel" to every server.
ClickStop ==
    /\ ui = "idle"
    /\ applying_all
    /\ stops < MaxStops
    /\ stops' = stops + 1
    /\ cancels' = [s \in Servers |-> cancels[s] + 1]
    /\ UNCHANGED <<world, applying_cancel, job, source, sending, ui, feedback, clicks,
                   again, faults>>

\* The sender thread gets to a server; it skips one that is not connected.
SendTo(a, s) ==
    /\ s \in sending[a]
    /\ sending' = [sending EXCEPT ![a] = @ \ {s}]
    /\ job' = IF connected[s] THEN [job EXCEPT ![<<s, a>>] = Job("sent", Untouched, 0)]
              ELSE job
    /\ UNCHANGED <<world, canceling, user, feedback, faults>>

-----------------------------------------------------------------------------
(* A server: a thread per message. *)

\* A round of pings ends.
PingPublish(s, cams) ==
    /\ \A c \in cams : Home[c] = s
    /\ alive' = [alive EXCEPT ![s] = cams]
    /\ UNCHANGED <<camset, connected, canceling, job, sending, user, feedback, faults>>

\* Variant that does not leave out the source.
TargetsAll(j) == alive[j[1]]

\* The cameras alive now, but for the source.
Targets(j) == alive[j[1]] \ {source[j[2]]}

\* setSettingAll takes back any cancel, then chooses the cameras.
StartApply(j) ==
    /\ job[j].at = "sent"
    /\ applying_cancel' = [applying_cancel EXCEPT ![j[1]] = FALSE]
    /\ job' = [job EXCEPT ![j] =
                 Job("running", [c \in Cameras |-> IF c \in Targets(j) THEN 1 ELSE 0], 0)]
    /\ UNCHANGED <<world, cancels, sending, user, feedback, faults>>

\* One camera after the other, one setting after the other.
Current(j, c) ==
    /\ job[j].next[c] \in Settings
    /\ \A d \in Cameras \ {c} : job[j].next[d] \in {0, 1, NumSettings + 1}

Advance(j, c) ==
    job' = [job EXCEPT ![j] =
              Job(job[j].at, [job[j].next EXCEPT ![c] = @ + 1], job[j].seen)]

\* Variant that has the camera miss its last setting.
SetSettingShort(j, c) ==
    /\ job[j].at \in Writing
    /\ Current(j, c)
    /\ camset' = IF job[j].next[c] = NumSettings THEN camset
                 ELSE [camset EXCEPT ![c][job[j].next[c]] = j[2]]
    /\ Advance(j, c)
    /\ UNCHANGED <<alive, connected, canceling, sending, user, feedback, faults>>

\* The camera takes the value.
SetSetting(j, c) ==
    /\ job[j].at \in Writing
    /\ Current(j, c)
    /\ camset' = [camset EXCEPT ![c][job[j].next[c]] = j[2]]
    /\ Advance(j, c)
    /\ UNCHANGED <<alive, connected, canceling, sending, user, feedback, faults>>

\* The call gets no answer, which nobody minds.
MissSetting(j, c) ==
    /\ Fault
    /\ job[j].at \in Writing
    /\ Current(j, c)
    /\ Advance(j, c)
    /\ UNCHANGED <<world, canceling, sending, user, feedback>>

AllSet(j) == \A c \in Cameras : job[j].next[c] \notin Settings

\* Variant that does not answer once it is cancelled.
ReportUncancelled(j) ==
    /\ job[j].at \in Writing
    /\ AllSet(j)
    /\ Move(j, IF job[j].at = "orphan" \/ applying_cancel[j[1]] THEN "lost" ELSE "full")
    /\ UNCHANGED <<world, canceling, sending, user, feedback, faults>>

\* Only now does a cancel matter: the report is then blank.  It goes to the channel
\* the message came on.
Report(j) ==
    /\ job[j].at \in Writing
    /\ AllSet(j)
    /\ Move(j, IF job[j].at = "orphan" THEN "lost"
               ELSE IF applying_cancel[j[1]] THEN "blank" ELSE "full")
    /\ UNCHANGED <<world, canceling, sending, user, feedback, faults>>

\* "setall_cancel" arrives, or has been sent to a server that is not connected.
CancelAll(s) ==
    /\ cancels[s] > 0
    /\ cancels' = [cancels EXCEPT ![s] = @ - 1]
    /\ applying_cancel' = IF connected[s] THEN [applying_cancel EXCEPT ![s] = TRUE]
                          ELSE applying_cancel
    /\ UNCHANGED <<world, job, sending, user, feedback, faults>>

-----------------------------------------------------------------------------
(* The master's thread for a reply: applyAllFeedback.  The report is not read. *)

ReadCount(j) ==
    /\ job[j].at \in {"full", "blank"}
    /\ job' = [job EXCEPT ![j] = Job("read", job[j].next, applying_all_count)]
    /\ UNCHANGED <<world, canceling, sending, user, feedback, faults>>

\* Variant that counts down.
WriteCountDown(j) ==
    /\ job[j].at = "read"
    /\ applying_all_count' = job[j].seen - 1
    /\ Move(j, "test")
    /\ UNCHANGED <<world, canceling, sending, user, applying_all, faults>>

WriteCount(j) ==
    /\ job[j].at = "read"
    /\ applying_all_count' = job[j].seen + 1
    /\ Move(j, "test")
    /\ UNCHANGED <<world, canceling, sending, user, applying_all, faults>>

\* getServerCount counts servers, connected or not; the count is of all replies ever.
Enough == applying_all_count >= Cardinality(Servers)

TestCount(j) ==
    /\ job[j].at = "test"
    /\ applying_all' = IF Enough THEN FALSE ELSE applying_all
    /\ Move(j, "done")
    /\ UNCHANGED <<world, canceling, sending, user, applying_all_count, faults>>

-----------------------------------------------------------------------------
(* Connections. *)

\* What is on the connection goes with it; a thread of the server goes on writing.
Cut(at) ==
    IF at \in {"sent", "full", "blank"} THEN "lost"
    ELSE IF at = "running" THEN "orphan" ELSE at

LoseLink(s) ==
    /\ Fault
    /\ connected[s]
    /\ connected' = [connected EXCEPT ![s] = FALSE]
    /\ job' = [j \in Jobs |-> IF j[1] = s THEN Job(Cut(job[j].at), job[j].next, job[j].seen)
                              ELSE job[j]]
    /\ UNCHANGED <<camset, alive, canceling, sending, user, feedback>>

Reconnect(s) ==
    /\ ~connected[s]
    /\ connected' = [connected EXCEPT ![s] = TRUE]
    /\ UNCHANGED <<camset, alive, canceling, job, sending, user, feedback, faults>>

-----------------------------------------------------------------------------
Users ==
    \/ \E c \in Cameras \cup {NoCamera} : Click(c)
    \/ \E c \in Cameras : ClickUnknown(c) \/ ClickPreview(c)
    \/ ClickStop

Finishing == MarkApplying \/ SendPreview

JobStep(j) ==
    \/ StartApply(j) \/ Report(j)
    \/ \E c \in Cameras : SetSetting(j, c) \/ MissSetting(j, c)

ReplyStep(j) == ReadCount(j) \/ WriteCount(j) \/ TestCount(j)

Next ==
    \/ Users \/ Finishing
    \/ \E a \in Applies, s \in Servers : SendTo(a, s)
    \/ \E j \in Jobs : JobStep(j) \/ ReplyStep(j)
    \/ \E s \in Servers : CancelAll(s) \/ LoseLink(s) \/ Reconnect(s)
    \/ \E s \in Servers, cams \in SUBSET Cameras : PingPublish(s, cams)

Spec == Init /\ [][Next]_vars

(***************************************************************************)
(* Fairness.  Threads run, and their HTTP calls end after 1.5 s at most.   *)
(* What the user, the pings and the network do is not fair.                *)
(***************************************************************************)
Fairness ==
    /\ WF_vars(Finishing)
    /\ \A a \in Applies, s \in Servers : WF_vars(SendTo(a, s))
    /\ \A j \in Jobs : WF_vars(JobStep(j)) /\ WF_vars(ReplyStep(j))

LiveSpec == Spec /\ Fairness

-----------------------------------------------------------------------------
(* Properties. *)

Stages == {"none", "sent", "running", "orphan", "full", "blank", "read", "test",
           "done", "lost"}

TypeOK ==
    /\ camset \in [Cameras -> [Settings -> 0..MaxApplies]]
    /\ alive \in [Servers -> SUBSET Cameras]
    /\ applying_cancel \in [Servers -> BOOLEAN]
    /\ cancels \in [Servers -> Nat]
    /\ connected \in [Servers -> BOOLEAN]
    /\ job \in [Jobs -> [at : Stages, next : [Cameras -> 0..(NumSettings + 1)], seen : Nat]]
    /\ source \in [Applies -> Cameras \cup {NoCamera}]
    /\ sending \in [Applies -> SUBSET Servers]
    /\ ui \in {"idle", "mark", "send"}
    /\ applying_all \in BOOLEAN
    /\ applying_all_count \in Nat
    /\ clicks \in 0..MaxApplies
    /\ again \in 0..MaxAgain
    /\ stops \in 0..MaxStops
    /\ faults \in 0..MaxFaults

\* No apply is on its way to a server or being written by one.
Quiet ==
    /\ ui # "send"
    /\ \A a \in Applies : sending[a] = {}
    /\ \A j \in Jobs : job[j].at \notin Writing \cup {"sent"}

\* Custom preset settings are synchronised to all: once nothing is under way and if
\* nothing went wrong, each camera that the last apply was for has all its settings
\* from that apply, and no mixture of two.
SyncedToAll ==
    faults = 0 /\ Quiet /\ clicks > 0 =>
        \A s \in Servers, c \in Cameras :
            job[<<s, clicks>>].next[c] = NumSettings + 1 =>
                \A k \in Settings : camset[c][k] = clicks

\* The buttons keep applies apart: once the next is clicked, nothing of an earlier one
\* is on its way to a server or being written by one.
NoOverlap == \A j \in Jobs : job[j].at \in Writing \cup {"sent"} => j[2] = clicks

\* A camera never gets settings from an apply it was itself the source of, on
\* whatever server and however late.
SourceKept ==
    \A c \in Cameras, k \in Settings :
        camset[c][k] # 0 => source[camset[c][k]] # c

\* Every apply is answered by every server and every answer counted, cancelled or
\* not, unless something goes wrong.
EveryApplyCounts ==
    \A n \in Applies :
        clicks = n ~> applying_all_count >= n * Cardinality(Servers) \/ faults > 0
=============================================================================
