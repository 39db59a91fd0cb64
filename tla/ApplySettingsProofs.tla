------------------------ MODULE ApplySettingsProofs ------------------------
(***************************************************************************)
(* Theorems about ApplySettings, for any servers, cameras, settings and    *)
(* bounds.  The last two assume InOrder.                                   *)
(***************************************************************************)
EXTENDS ApplySettings, FiniteSetTheorems, TLAPS

JobType == [at : Stages, next : [Cameras -> 0..(NumSettings + 1)], seen : Nat]

\* What a job consists of.
LEMMA JobParts ==
    ASSUME TypeOK, NEW j \in Jobs
    PROVE  /\ job[j] \in JobType
           /\ job[j].at \in Stages
           /\ job[j].next \in [Cameras -> 0..(NumSettings + 1)]
           /\ job[j].seen \in Nat
           /\ j[1] \in Servers
           /\ j[2] \in Applies
BY DEF TypeOK, JobType, Jobs

\* A server and an apply make a job.
LEMMA JobOf ==
    ASSUME NEW s \in Servers, NEW a \in Applies
    PROVE  <<s, a>> \in Jobs /\ <<s, a>>[1] = s /\ <<s, a>>[2] = a
BY DEF Jobs

\* A job that is made of such parts is a job.
LEMMA JobMade ==
    ASSUME NEW at \in Stages, NEW next \in [Cameras -> 0..(NumSettings + 1)], NEW seen \in Nat
    PROVE  /\ Job(at, next, seen) \in JobType
           /\ Job(at, next, seen).at = at
           /\ Job(at, next, seen).next = next
           /\ Job(at, next, seen).seen = seen
BY DEF Job, JobType

\* One job changes into another.
LEMMA JobSet ==
    ASSUME TypeOK, NEW j \in Jobs, NEW new \in JobType, job' = [job EXCEPT ![j] = new]
    PROVE  /\ job' \in [Jobs -> JobType]
           /\ job'[j] = new
           /\ \A i \in Jobs \ {j} : job'[i] = job[i]
BY DEF TypeOK, JobType

\* What a job that moves on keeps.
LEMMA Moved ==
    ASSUME TypeOK, NEW j \in Jobs, NEW at \in Stages, Move(j, at)
    PROVE  /\ job' \in [Jobs -> JobType]
           /\ job'[j].at = at
           /\ job'[j].next = job[j].next
           /\ job'[j].seen = job[j].seen
           /\ \A i \in Jobs \ {j} : job'[i] = job[i]
<1> DEFINE new == Job(at, job[j].next, job[j].seen)
<1>1. /\ new \in JobType
      /\ new.at = at
      /\ new.next = job[j].next
      /\ new.seen = job[j].seen
    BY JobParts, JobMade
<1>2. job' = [job EXCEPT ![j] = new]
    BY DEF Move
<1> HIDE DEF new
<1> QED
    BY <1>1, <1>2, JobSet

\* What the next setting of a camera is once one is set.
LEMMA Advanced ==
    ASSUME TypeOK, NEW j \in Jobs, NEW c \in Cameras, Advance(j, c), Current(j, c)
    PROVE  /\ job' \in [Jobs -> JobType]
           /\ job'[j].at = job[j].at
           /\ job'[j].seen = job[j].seen
           /\ job'[j].next[c] = job[j].next[c] + 1
           /\ \A d \in Cameras \ {c} : job'[j].next[d] = job[j].next[d]
           /\ \A i \in Jobs \ {j} : job'[i] = job[i]
<1> DEFINE next == [job[j].next EXCEPT ![c] = @ + 1]
           new == Job(job[j].at, next, job[j].seen)
<1>1. job[j].next[c] \in 1..NumSettings
    BY DEF Current, Settings
<1>2. /\ next \in [Cameras -> 0..(NumSettings + 1)]
      /\ next[c] = job[j].next[c] + 1
      /\ \A d \in Cameras \ {c} : next[d] = job[j].next[d]
    BY <1>1, JobParts, ApplyAssumption
<1> HIDE DEF next
<1>3. /\ new \in JobType
      /\ new.at = job[j].at
      /\ new.next = next
      /\ new.seen = job[j].seen
    BY <1>2, JobParts, JobMade
<1>4. job' = [job EXCEPT ![j] = new]
    BY DEF Advance, next
<1> HIDE DEF new
<1> QED
    BY <1>2, <1>3, <1>4, JobSet

\* What a server that starts an apply has it do.
LEMMA Started ==
    ASSUME TypeOK, NEW j \in Jobs, StartApply(j)
    PROVE  /\ job' \in [Jobs -> JobType]
           /\ job'[j].at = "running"
           /\ \A c \in Cameras : job'[j].next[c] = IF c \in Targets(j) THEN 1 ELSE 0
           /\ \A i \in Jobs \ {j} : job'[i] = job[i]
<1> DEFINE next == [c \in Cameras |-> IF c \in Targets(j) THEN 1 ELSE 0]
           new == Job("running", next, 0)
<1>1. next \in [Cameras -> 0..(NumSettings + 1)]
    BY ApplyAssumption
<1>2. \A c \in Cameras : next[c] = IF c \in Targets(j) THEN 1 ELSE 0
    OBVIOUS
<1> HIDE DEF next
<1>3. /\ new \in JobType
      /\ new.at = "running"
      /\ new.next = next
    BY <1>1, JobMade DEF Stages
<1>4. job' = [job EXCEPT ![j] = new]
    BY DEF StartApply, next
<1> HIDE DEF new
<1> QED
    BY <1>2, <1>3, <1>4, JobSet

\* No camera is a target: well typed too.
LEMMA UntouchedType == Untouched \in [Cameras -> 0..(NumSettings + 1)]
BY ApplyAssumption DEF Untouched

\* A message that a sender thread sends.
LEMMA Sent ==
    ASSUME TypeOK, NEW a \in Applies, NEW s \in Servers, SendTo(a, s)
    PROVE  /\ job' \in [Jobs -> JobType]
           /\ \/ job' = job
              \/ /\ job'[<<s, a>>].at = "sent"
                 /\ job'[<<s, a>>].next = Untouched
                 /\ \A i \in Jobs \ {<<s, a>>} : job'[i] = job[i]
<1> DEFINE new == Job("sent", Untouched, 0)
<1>1. new \in JobType /\ new.at = "sent" /\ new.next = Untouched
    BY UntouchedType, JobMade DEF Stages
<1>2. job' = job \/ job' = [job EXCEPT ![<<s, a>>] = new]
    BY Zenon DEF SendTo
<1> HIDE DEF new
<1>3. CASE job' = job
    BY <1>3 DEF TypeOK, JobType
<1>4. CASE job' = [job EXCEPT ![<<s, a>>] = new]
    BY <1>1, <1>4, JobSet, JobOf
<1> QED
    BY <1>2, <1>3, <1>4

\* What a lost connection does to the jobs.
LEMMA LinkLost ==
    ASSUME TypeOK, NEW s \in Servers, LoseLink(s)
    PROVE  /\ job' \in [Jobs -> JobType]
           /\ \A j \in Jobs : /\ job'[j].next = job[j].next
                              /\ job'[j].seen = job[j].seen
                              /\ job'[j].at = job[j].at \/ job'[j].at = Cut(job[j].at)
<1> DEFINE new(j) == Job(Cut(job[j].at), job[j].next, job[j].seen)
<1>1. ASSUME NEW j \in Jobs
      PROVE  /\ new(j) \in JobType
             /\ new(j).at = Cut(job[j].at)
             /\ new(j).next = job[j].next
             /\ new(j).seen = job[j].seen
    <2>1. Cut(job[j].at) \in Stages
        BY JobParts DEF Cut, Stages
    <2> QED
        BY <2>1, JobParts, JobMade
<1>2. job' = [j \in Jobs |-> IF j[1] = s THEN new(j) ELSE job[j]]
    BY DEF LoseLink
<1> HIDE DEF new
<1>3. \A j \in Jobs : job[j] \in JobType
    BY JobParts
<1> QED
    BY <1>1, <1>2, <1>3

-----------------------------------------------------------------------------
(* Type correctness. *)

\* What a camera that takes a setting has then.
LEMMA SettingTaken ==
    ASSUME TypeOK, NEW j \in Jobs, NEW c \in Cameras, NEW k \in Settings,
           k = job[j].next[c], SetSetting(j, c)
    PROVE  /\ camset' \in [Cameras -> [Settings -> 0..MaxApplies]]
           /\ camset'[c][k] = j[2]
           /\ \A d \in Cameras, i \in Settings :
                 d # c \/ i # k => camset'[d][i] = camset[d][i]
<1> DEFINE new == [camset[c] EXCEPT ![k] = j[2]]
<1>1. j[2] \in 0..MaxApplies
    BY JobParts, ApplyAssumption DEF Applies
<1>2. /\ new \in [Settings -> 0..MaxApplies]
      /\ new[k] = j[2]
      /\ \A i \in Settings \ {k} : new[i] = camset[c][i]
    BY <1>1 DEF TypeOK
<1>3. camset' = [camset EXCEPT ![c] = new]
    BY DEF SetSetting
<1> HIDE DEF new
<1> QED
    BY <1>2, <1>3 DEF TypeOK

\* Every reachable state is well typed.
THEOREM TypeCorrect == Spec => []TypeOK
<1>1. Init => TypeOK
    <2> SUFFICES ASSUME Init
                 PROVE  TypeOK
        OBVIOUS
    <2>1. Job("none", Untouched, 0) \in JobType
        BY UntouchedType, JobMade DEF Stages
    <2>2. job \in [Jobs -> JobType]
        BY <2>1 DEF Init
    <2>3. camset \in [Cameras -> [Settings -> 0..MaxApplies]]
        BY ApplyAssumption DEF Init
    <2>4. alive \in [Servers -> SUBSET Cameras]
        BY DEF Init
    <2>5. /\ applying_cancel \in [Servers -> BOOLEAN]
          /\ cancels \in [Servers -> Nat]
          /\ connected \in [Servers -> BOOLEAN]
          /\ source \in [Applies -> Cameras \cup {NoCamera}]
          /\ sending \in [Applies -> SUBSET Servers]
        BY DEF Init
    <2>6. ui \in {"idle", "mark", "send"} /\ applying_all \in BOOLEAN
        BY Zenon DEF Init
    <2>7. /\ applying_all_count = 0
          /\ clicks = 0
          /\ again = 0
          /\ stops = 0
          /\ faults = 0
        BY Zenon DEF Init
    <2>8. /\ applying_all_count \in Nat
          /\ clicks \in 0..MaxApplies
          /\ again \in 0..MaxAgain
          /\ stops \in 0..MaxStops
          /\ faults \in 0..MaxFaults
        BY <2>7, ApplyAssumption
    <2> QED
        BY <2>2, <2>3, <2>4, <2>5, <2>6, <2>8, Zenon DEF TypeOK, JobType
<1>2. TypeOK /\ [Next]_vars => TypeOK'
    <2> SUFFICES ASSUME TypeOK, [Next]_vars
                 PROVE  TypeOK'
        OBVIOUS
    <2> USE DEF user, feedback, canceling, world
    <2>1. faults' = faults \/ Fault => faults' \in 0..MaxFaults
        BY ApplyAssumption DEF Fault, TypeOK
    <2>2. clicks < MaxApplies => clicks + 1 \in Applies /\ clicks + 1 \in 0..MaxApplies
        BY ApplyAssumption DEF TypeOK, Applies
    <2>3. ASSUME NEW c \in Cameras \cup {NoCamera}, Click(c)
          PROVE  TypeOK'
        BY <2>2, <2>3 DEF Click, TypeOK
    <2>4. ASSUME NEW c \in Cameras, ClickUnknown(c)
          PROVE  TypeOK'
        BY <2>1, <2>2, <2>4 DEF ClickUnknown, TypeOK
    <2>5. ASSUME NEW c \in Cameras, ClickPreview(c)
          PROVE  TypeOK'
        <3>1. again' \in 0..MaxAgain
            BY <2>5, ApplyAssumption DEF ClickPreview, TypeOK
        <3> QED
            BY <2>2, <2>5, <3>1 DEF ClickPreview, TypeOK
    <2>6. CASE ClickStop
        BY <2>6, ApplyAssumption DEF ClickStop, TypeOK
    <2>7. CASE MarkApplying
        BY <2>7 DEF MarkApplying, TypeOK
    <2>8. CASE SendPreview
        BY <2>8 DEF SendPreview, TypeOK
    <2>9. ASSUME NEW a \in Applies, NEW s \in Servers, SendTo(a, s)
          PROVE  TypeOK'
        <3>1. job' \in [Jobs -> JobType]
            BY <2>9, Sent
        <3>2. sending' \in [Applies -> SUBSET Servers]
            BY <2>9 DEF SendTo, TypeOK
        <3> QED
            BY <2>9, <3>1, <3>2 DEF SendTo, TypeOK, JobType
    <2>10. ASSUME NEW s \in Servers, NEW cams \in SUBSET Cameras, PingPublish(s, cams)
           PROVE  TypeOK'
        BY <2>10 DEF PingPublish, TypeOK
    <2>11. ASSUME NEW j \in Jobs, StartApply(j)
           PROVE  TypeOK'
        <3>1. job' \in [Jobs -> JobType]
            BY <2>11, Started
        <3>2. applying_cancel' \in [Servers -> BOOLEAN]
            BY <2>11 DEF StartApply, TypeOK
        <3> QED
            BY <2>11, <3>1, <3>2 DEF StartApply, TypeOK, JobType
    <2>12. ASSUME NEW j \in Jobs, NEW c \in Cameras, SetSetting(j, c)
           PROVE  TypeOK'
        <3>1. job' \in [Jobs -> JobType]
            BY <2>12, Advanced DEF SetSetting
        <3>2. camset' \in [Cameras -> [Settings -> 0..MaxApplies]]
            BY <2>12, SettingTaken DEF SetSetting, Current
        <3> QED
            BY <2>12, <3>1, <3>2 DEF SetSetting, TypeOK, JobType
    <2>13. ASSUME NEW j \in Jobs, NEW c \in Cameras, MissSetting(j, c)
           PROVE  TypeOK'
        <3>1. job' \in [Jobs -> JobType]
            BY <2>13, Advanced DEF MissSetting
        <3> QED
            BY <2>1, <2>13, <3>1 DEF MissSetting, TypeOK, JobType
    <2>14. ASSUME NEW j \in Jobs, NEW at \in Stages, Move(j, at)
           PROVE  job' \in [Jobs -> JobType]
        BY <2>14, Moved
    <2>15. ASSUME NEW j \in Jobs, Report(j)
           PROVE  TypeOK'
        <3>1. \E at \in Stages : Move(j, at)
            BY <2>15 DEF Report, Stages
        <3> QED
            BY <2>14, <2>15, <3>1 DEF Report, TypeOK, JobType
    <2>16. ASSUME NEW j \in Jobs, ReadCount(j)
           PROVE  TypeOK'
        <3>1. Job("read", job[j].next, applying_all_count) \in JobType
            BY JobParts, JobMade DEF Stages, TypeOK
        <3>2. job' \in [Jobs -> JobType]
            BY <2>16, <3>1, JobSet DEF ReadCount
        <3> QED
            BY <2>16, <3>2 DEF ReadCount, TypeOK, JobType
    <2>17. ASSUME NEW j \in Jobs, WriteCount(j)
           PROVE  TypeOK'
        <3>1. job' \in [Jobs -> JobType]
            BY <2>14, <2>17 DEF WriteCount, Stages
        <3>2. applying_all_count' \in Nat
            BY <2>17, JobParts DEF WriteCount
        <3> QED
            BY <2>17, <3>1, <3>2 DEF WriteCount, TypeOK, JobType
    <2>18. ASSUME NEW j \in Jobs, TestCount(j)
           PROVE  TypeOK'
        <3>1. job' \in [Jobs -> JobType]
            BY <2>14, <2>18 DEF TestCount, Stages
        <3>2. applying_all' \in BOOLEAN
            BY <2>18, Zenon DEF TestCount, TypeOK
        <3> QED
            BY <2>18, <3>1, <3>2 DEF TestCount, TypeOK, JobType
    <2>19. ASSUME NEW s \in Servers, CancelAll(s)
           PROVE  TypeOK'
        <3>1. \/ applying_cancel' = [applying_cancel EXCEPT ![s] = TRUE]
              \/ applying_cancel' = applying_cancel
            BY <2>19, Zenon DEF CancelAll
        <3>2. applying_cancel' \in [Servers -> BOOLEAN]
            BY <3>1 DEF TypeOK
        <3>3. cancels' \in [Servers -> Nat]
            BY <2>19 DEF CancelAll, TypeOK
        <3> QED
            BY <2>19, <3>2, <3>3 DEF CancelAll, TypeOK
    <2>20. ASSUME NEW s \in Servers, LoseLink(s)
           PROVE  TypeOK'
        <3>1. job' \in [Jobs -> JobType]
            BY <2>20, LinkLost
        <3>2. connected' \in [Servers -> BOOLEAN]
            BY <2>20 DEF LoseLink, TypeOK
        <3> QED
            BY <2>1, <2>20, <3>1, <3>2 DEF LoseLink, TypeOK, JobType
    <2>21. ASSUME NEW s \in Servers, Reconnect(s)
           PROVE  TypeOK'
        BY <2>21 DEF Reconnect, TypeOK
    <2>22. CASE UNCHANGED vars
        BY <2>22 DEF vars, TypeOK
    <2> QED
        BY <2>3, <2>4, <2>5, <2>6, <2>7, <2>8, <2>9, <2>10, <2>11, <2>12, <2>13, <2>15,
           <2>16, <2>17, <2>18, <2>19, <2>20, <2>21, <2>22, Zenon
        DEF Next, Users, Finishing, JobStep, ReplyStep
<1> QED
    BY <1>1, <1>2, PTL DEF Spec
-----------------------------------------------------------------------------
(* The source of an apply. *)

\* Settings come from applies there have been.
Past == \A c \in Cameras, k \in Settings : camset[c][k] <= clicks

\* What is not yet an apply has gone nowhere.
NotYet ==
    /\ \A j \in Jobs : j[2] > clicks => job[j].at = "none" /\ job[j].next = Untouched
    /\ \A a \in Applies : a > clicks => sending[a] = {}

\* A server leaves out the source.
TargetKept == \A j \in Jobs, c \in Cameras : job[j].next[c] # 0 => source[j[2]] # c

\* SourceKept is not inductive: a setting is written long after the source was
\* compared, and the apply chosen next must not be one a camera already has.
SourceInv == SourceKept /\ Past /\ NotYet /\ TargetKept

\* A step that neither applies nor writes a setting, and under which a job advances
\* only if it had a message.
LEMMA SourceStep ==
    ASSUME TypeOK, SourceInv, UNCHANGED <<camset, source, clicks>>,
           \A j \in Jobs, c \in Cameras :
              job'[j].next[c] # 0 => job[j].next[c] # 0 \/ source[j[2]] # c,
           \A j \in Jobs :
              job[j].at = "none" => job'[j].next = job[j].next /\ (j[2] > clicks => job'[j].at = "none"),
           \A a \in Applies : a > clicks => sending'[a] = {}
    PROVE  SourceInv'
<1>1. SourceKept'
    BY DEF SourceInv, SourceKept
<1>2. Past'
    BY DEF SourceInv, Past
<1>3. NotYet'
    BY DEF SourceInv, NotYet, Untouched
<1>4. TargetKept'
    BY DEF SourceInv, TargetKept
<1> QED
    BY <1>1, <1>2, <1>3, <1>4 DEF SourceInv

\* A click is an apply there has not been, so no camera has a setting of it.
LEMMA SourceClick ==
    ASSUME TypeOK, SourceInv, UNCHANGED <<camset, job>>, NEW c \in Cameras \cup {NoCamera},
           clicks < MaxApplies, clicks' = clicks + 1,
           source' = [source EXCEPT ![clicks + 1] = c],
           \A a \in Applies : a > clicks + 1 => sending'[a] = sending[a]
    PROVE  SourceInv'
<1>1. /\ clicks \in Nat
      /\ \A d \in Cameras, k \in Settings : camset[d][k] \in Nat
    BY ApplyAssumption DEF TypeOK
<1>2. \A a \in Applies : a # clicks + 1 => source'[a] = source[a]
    BY DEF TypeOK
<1>3. SourceKept'
    <2> SUFFICES ASSUME NEW d \in Cameras, NEW k \in Settings, camset[d][k] # 0
                 PROVE  source'[camset[d][k]] # d
        BY DEF SourceKept
    <2>1. camset[d][k] \in Applies /\ camset[d][k] # clicks + 1
        BY <1>1 DEF SourceInv, Past, TypeOK, Applies
    <2> QED
        BY <1>2, <2>1 DEF SourceInv, SourceKept
<1>4. Past'
    BY <1>1 DEF SourceInv, Past
<1>5. NotYet'
    BY <1>1 DEF SourceInv, NotYet, Untouched, Applies, Jobs
<1>6. TargetKept'
    <2> SUFFICES ASSUME NEW j \in Jobs, NEW d \in Cameras, job[j].next[d] # 0
                 PROVE  source'[j[2]] # d
        BY DEF TargetKept
    <2>1. ~(j[2] > clicks)
        BY DEF SourceInv, NotYet, Untouched
    <2>2. j[2] \in Applies /\ j[2] # clicks + 1
        BY <1>1, <2>1 DEF Jobs, Applies
    <2> QED
        BY <1>2, <2>2 DEF SourceInv, TargetKept
<1> QED
    BY <1>3, <1>4, <1>5, <1>6 DEF SourceInv

\* It is an invariant.
LEMMA SourceInvCorrect == Spec => []SourceInv
<1>1. Init => SourceInv
    <2> SUFFICES ASSUME Init
                 PROVE  SourceInv
        OBVIOUS
    <2>1. SourceKept /\ Past
        BY DEF Init, SourceKept, Past
    <2>2. \A j \in Jobs : job[j].at = "none" /\ job[j].next = Untouched
        BY DEF Init, Job
    <2>3. NotYet
        BY <2>2 DEF Init, NotYet
    <2>4. TargetKept
        BY <2>2 DEF TargetKept, Untouched
    <2> QED
        BY <2>1, <2>3, <2>4 DEF SourceInv
<1>2. TypeOK /\ SourceInv /\ [Next]_vars => SourceInv'
    <2> SUFFICES ASSUME TypeOK, SourceInv, [Next]_vars
                 PROVE  SourceInv'
        OBVIOUS
    <2> USE DEF user, feedback, canceling, world
    <2>1. \A a \in Applies : a > clicks => sending[a] = {}
        BY DEF SourceInv, NotYet
    <2>2. \A j \in Jobs : job[j].at # "none" => ~(j[2] > clicks)
        BY DEF SourceInv, NotYet
    <2>3. clicks \in Nat
        BY ApplyAssumption DEF TypeOK
    <2>4. ASSUME NEW c \in Cameras \cup {NoCamera}, Click(c)
          PROVE  SourceInv'
        <3>1. \A a \in Applies : a > clicks + 1 => sending'[a] = sending[a]
            BY <2>3, <2>4 DEF Click, TypeOK
        <3> QED
            BY <2>4, <3>1, SourceClick DEF Click
    <2>5. ASSUME NEW c \in Cameras, ClickUnknown(c) \/ ClickPreview(c)
          PROVE  SourceInv'
        BY <2>5, SourceClick DEF ClickUnknown, ClickPreview
    <2>6. CASE ClickStop \/ MarkApplying
        BY <2>1, <2>6, SourceStep DEF ClickStop, MarkApplying
    <2>7. CASE SendPreview
        <3>1. \A a \in Applies : a > clicks => sending'[a] = {}
            BY <2>1, <2>3, <2>7 DEF SendPreview, TypeOK
        <3> QED
            BY <2>7, <3>1, SourceStep DEF SendPreview
    <2>8. ASSUME NEW a \in Applies, NEW s \in Servers, SendTo(a, s)
          PROVE  SourceInv'
        <3>1. s \in sending[a] /\ ~(a > clicks)
            BY <2>1, <2>8 DEF SendTo
        <3>2. \A b \in Applies : b > clicks => sending'[b] = {}
            BY <2>1, <2>8, <3>1 DEF SendTo, TypeOK
        <3>3. CASE job' = job
            BY <2>8, <3>2, <3>3, SourceStep DEF SendTo
        <3>4. CASE /\ job'[<<s, a>>].at = "sent"
                   /\ job'[<<s, a>>].next = Untouched
                   /\ \A i \in Jobs \ {<<s, a>>} : job'[i] = job[i]
            <4>1. SourceKept' /\ Past'
                BY <2>8 DEF SendTo, SourceInv, SourceKept, Past
            <4>2. NotYet'
                BY <2>8, <3>1, <3>2, <3>4, JobOf DEF SendTo, SourceInv, NotYet, Untouched
            <4>3. TargetKept'
                BY <2>8, <3>4, JobOf DEF SendTo, SourceInv, TargetKept, Untouched
            <4> QED
                BY <4>1, <4>2, <4>3 DEF SourceInv
        <3> QED
            BY <2>8, <3>3, <3>4, Sent
    <2>9. ASSUME NEW s \in Servers, NEW cams \in SUBSET Cameras, PingPublish(s, cams)
          PROVE  SourceInv'
        BY <2>1, <2>9, SourceStep DEF PingPublish
    <2>10. ASSUME NEW j \in Jobs, StartApply(j)
           PROVE  SourceInv'
        <3>1. /\ UNCHANGED <<camset, source, clicks, sending>>
              /\ job[j].at = "sent"
            BY <2>10 DEF StartApply
        <3>2. \A c \in Cameras : job'[j].next[c] # 0 => source[j[2]] # c
            BY <2>10, Started DEF Targets
        <3>3. \A i \in Jobs \ {j} : job'[i] = job[i]
            BY <2>10, Started
        <3> QED
            BY <2>1, <3>1, <3>2, <3>3, SourceStep
    <2>11. ASSUME NEW j \in Jobs, NEW c \in Cameras, Advance(j, c), Current(j, c),
                  job[j].at \in Writing
           PROVE  /\ \A d \in Cameras : job'[j].next[d] # 0 => source[j[2]] # d
                  /\ \A i \in Jobs \ {j} : job'[i] = job[i]
                  /\ job[j].at # "none"
        <3>1. \A d \in Cameras : job'[j].next[d] # 0 => job[j].next[d] # 0
            BY <2>11, Advanced DEF Current, Settings
        <3> QED
            BY <2>11, <3>1, Advanced DEF SourceInv, TargetKept, Writing
    <2>12. ASSUME NEW j \in Jobs, NEW c \in Cameras, SetSetting(j, c)
           PROVE  SourceInv'
        <3>1. PICK k \in Settings : k = job[j].next[c]
            BY <2>12 DEF SetSetting, Current
        <3>2. /\ Advance(j, c) /\ Current(j, c) /\ job[j].at \in Writing
              /\ UNCHANGED <<source, clicks, sending>>
            BY <2>12 DEF SetSetting
        <3>3. /\ camset'[c][k] = j[2]
              /\ \A d \in Cameras, i \in Settings : d # c \/ i # k => camset'[d][i] = camset[d][i]
            BY <2>12, <3>1, SettingTaken
        <3>4. j[2] <= clicks /\ source[j[2]] # c
            <4>1. j[2] \in Applies /\ k # 0
                BY <3>1, JobParts DEF Settings
            <4> QED
                BY <2>2, <2>3, <2>11, <3>1, <3>2, <4>1 DEF SourceInv, TargetKept, Applies
        <3>5. SourceKept'
            BY <3>2, <3>3, <3>4 DEF SourceInv, SourceKept
        <3>6. Past'
            BY <3>2, <3>3, <3>4 DEF SourceInv, Past
        <3>7. NotYet'
            BY <2>2, <2>11, <3>2 DEF SourceInv, NotYet, Untouched
        <3>8. TargetKept'
            BY <2>11, <3>2 DEF SourceInv, TargetKept
        <3> QED
            BY <3>5, <3>6, <3>7, <3>8 DEF SourceInv
    <2>13. ASSUME NEW j \in Jobs, NEW c \in Cameras, MissSetting(j, c)
           PROVE  SourceInv'
        <3>1. /\ Advance(j, c) /\ Current(j, c) /\ job[j].at \in Writing
              /\ UNCHANGED <<camset, source, clicks, sending>>
            BY <2>13 DEF MissSetting
        <3> QED
            BY <2>1, <2>11, <3>1, SourceStep
    <2>14. ASSUME NEW j \in Jobs, NEW at \in Stages, Move(j, at), job[j].at # "none",
                  UNCHANGED <<camset, source, clicks, sending>>
           PROVE  SourceInv'
        <3>1. /\ job'[j].next = job[j].next
              /\ \A i \in Jobs \ {j} : job'[i] = job[i]
            BY <2>14, Moved
        <3> QED
            BY <2>1, <2>14, <3>1, SourceStep
    <2>15. ASSUME NEW j \in Jobs, Report(j)
           PROVE  SourceInv'
        <3>1. \E at \in Stages : Move(j, at)
            BY <2>15 DEF Report, Stages
        <3> QED
            BY <2>14, <2>15, <3>1 DEF Report, Writing
    <2>16. ASSUME NEW j \in Jobs, ReadCount(j)
           PROVE  SourceInv'
        <3> DEFINE new == Job("read", job[j].next, applying_all_count)
        <3>1. new \in JobType /\ new.next = job[j].next
            <4>1. applying_all_count \in Nat
                BY DEF TypeOK
            <4> QED
                BY <4>1, JobParts, JobMade DEF Stages
        <3>2. job' = [job EXCEPT ![j] = new] /\ job[j].at # "none"
            BY <2>16 DEF ReadCount
        <3> HIDE DEF new
        <3>3. /\ job'[j].next = job[j].next
              /\ \A i \in Jobs \ {j} : job'[i] = job[i]
            BY <3>1, <3>2, JobSet
        <3>4. UNCHANGED <<camset, source, clicks, sending>>
            BY <2>16 DEF ReadCount
        <3> QED
            BY <2>1, <3>2, <3>3, <3>4, SourceStep
    <2>17. ASSUME NEW j \in Jobs, WriteCount(j) \/ TestCount(j)
           PROVE  SourceInv'
        BY <2>14, <2>17 DEF WriteCount, TestCount, Stages
    <2>18. ASSUME NEW s \in Servers, CancelAll(s) \/ Reconnect(s)
           PROVE  SourceInv'
        BY <2>1, <2>18, SourceStep DEF CancelAll, Reconnect
    <2>19. ASSUME NEW s \in Servers, LoseLink(s)
           PROVE  SourceInv'
        <3>1. UNCHANGED <<camset, source, clicks, sending>>
            BY <2>19 DEF LoseLink
        <3>2. \A j \in Jobs : /\ job'[j].next = job[j].next
                              /\ job[j].at = "none" => job'[j].at = "none"
            BY <2>19, LinkLost DEF Cut
        <3> QED
            BY <2>1, <3>1, <3>2, SourceStep
    <2>20. CASE UNCHANGED vars
        BY <2>1, <2>20, SourceStep DEF vars
    <2> QED
        BY <2>4, <2>5, <2>6, <2>7, <2>8, <2>9, <2>10, <2>12, <2>13, <2>15, <2>16, <2>17,
           <2>18, <2>19, <2>20, Zenon
        DEF Next, Users, Finishing, JobStep, ReplyStep
<1> QED
    BY <1>1, <1>2, TypeCorrect, PTL DEF Spec

\* On no server and however late does a camera get settings from an apply it was
\* itself the source of, whatever connections are lost and whatever is cancelled.
THEOREM SourceKeptCorrect == Spec => []SourceKept
<1>1. SourceInv => SourceKept
    BY DEF SourceInv
<1> QED
    BY <1>1, SourceInvCorrect, PTL

-----------------------------------------------------------------------------
(* What the threads of servers and replies do to the jobs. *)

\* Every step but those of the UI thread and of the sender threads.
ThreadStep ==
    \/ \E j \in Jobs : JobStep(j) \/ ReplyStep(j)
    \/ \E s \in Servers : CancelAll(s) \/ LoseLink(s) \/ Reconnect(s)
    \/ \E s \in Servers, cams \in SUBSET Cameras : PingPublish(s, cams)
    \/ UNCHANGED vars

\* Where a message "setall" gets to from where.
Onward(from, to) ==
    \/ from = "sent" /\ to \in {"running", "lost"}
    \/ from = "running" /\ to \in {"full", "blank", "orphan"}
    \/ from = "orphan" /\ to = "lost"
    \/ from \in {"full", "blank"} /\ to \in {"read", "lost"}
    \/ from = "read" /\ to = "test"
    \/ from = "test" /\ to = "done"

GoesOn(j) == job'[j].at = job[j].at \/ Onward(job[j].at, job'[j].at)

\* A reply that is counted.
LEMMA CountRead ==
    ASSUME TypeOK, NEW j \in Jobs, ReadCount(j)
    PROVE  /\ job'[j].at = "read"
           /\ job'[j].next = job[j].next
           /\ job'[j].seen = applying_all_count
           /\ \A i \in Jobs \ {j} : job'[i] = job[i]
<1> DEFINE new == Job("read", job[j].next, applying_all_count)
<1>1. applying_all_count \in Nat
    BY DEF TypeOK
<1>2. new \in JobType /\ new.at = "read" /\ new.next = job[j].next /\ new.seen = applying_all_count
    BY <1>1, JobParts, JobMade DEF Stages
<1>3. job' = [job EXCEPT ![j] = new]
    BY DEF ReadCount
<1> HIDE DEF new
<1> QED
    BY <1>2, <1>3, JobSet

\* The threads leave clicks and senders alone, and every job where it is or take it on.
LEMMA JobsGoOn ==
    ASSUME TypeOK, ThreadStep
    PROVE  /\ UNCHANGED <<clicks, ui, sending>>
           /\ \A j \in Jobs : GoesOn(j)
           /\ UNCHANGED applying_all \/ \E j \in Jobs : TestCount(j)
<1> DEFINE Goal == /\ UNCHANGED <<clicks, ui, sending>>
                   /\ \A j \in Jobs : GoesOn(j)
                   /\ UNCHANGED applying_all \/ \E j \in Jobs : TestCount(j)
<1> USE DEF user, feedback, canceling, world
<1>1. ASSUME NEW j \in Jobs, StartApply(j)
      PROVE  Goal
    <2>1. job[j].at = "sent"
        BY <1>1 DEF StartApply
    <2>2. \A i \in Jobs : GoesOn(i)
        BY <1>1, <2>1, Started DEF GoesOn, Onward
    <2> QED
        BY <1>1, <2>2 DEF StartApply
<1>2. ASSUME NEW j \in Jobs, NEW c \in Cameras, SetSetting(j, c) \/ MissSetting(j, c)
      PROVE  Goal
    <2>1. \A i \in Jobs : GoesOn(i)
        BY <1>2, Advanced DEF SetSetting, MissSetting, GoesOn
    <2> QED
        BY <1>2, <2>1 DEF SetSetting, MissSetting
<1>3. ASSUME NEW j \in Jobs, NEW at \in Stages, Move(j, at), Onward(job[j].at, at)
      PROVE  \A i \in Jobs : GoesOn(i)
    BY <1>3, Moved DEF GoesOn
<1>4. ASSUME NEW j \in Jobs, Report(j)
      PROVE  Goal
    <2>1. CASE job[j].at = "orphan"
        BY <1>3, <1>4, <2>1 DEF Report, Onward, Stages
    <2>2. CASE job[j].at # "orphan"
        <3>1. \E at \in {"blank", "full"} : Move(j, at)
            BY <1>4, <2>2 DEF Report
        <3>2. job[j].at = "running"
            BY <1>4, <2>2 DEF Report, Writing
        <3> QED
            BY <1>3, <1>4, <3>1, <3>2 DEF Report, Onward, Stages
    <2> QED
        BY <2>1, <2>2
<1>5. ASSUME NEW j \in Jobs, ReadCount(j)
      PROVE  Goal
    <2>1. \A i \in Jobs : GoesOn(i)
        BY <1>5, CountRead DEF ReadCount, GoesOn, Onward
    <2> QED
        BY <1>5, <2>1 DEF ReadCount
<1>6. ASSUME NEW j \in Jobs, WriteCount(j)
      PROVE  Goal
    BY <1>3, <1>6 DEF WriteCount, Onward, Stages
<1>7. ASSUME NEW j \in Jobs, TestCount(j)
      PROVE  Goal
    <2>1. \A i \in Jobs : GoesOn(i)
        BY <1>3, <1>7 DEF TestCount, Onward, Stages
    <2> QED
        BY <1>7, <2>1, Zenon DEF TestCount
<1>8. ASSUME NEW s \in Servers, CancelAll(s) \/ Reconnect(s)
      PROVE  Goal
    BY <1>8 DEF CancelAll, Reconnect, GoesOn
<1>9. ASSUME NEW s \in Servers, LoseLink(s)
      PROVE  Goal
    <2>1. \A i \in Jobs : GoesOn(i)
        BY <1>9, LinkLost DEF Cut, GoesOn, Onward
    <2> QED
        BY <1>9, <2>1 DEF LoseLink
<1>10. ASSUME NEW s \in Servers, NEW cams \in SUBSET Cameras, PingPublish(s, cams)
       PROVE  Goal
    BY <1>10 DEF PingPublish, GoesOn
<1>11. ASSUME UNCHANGED vars
       PROVE  Goal
    BY <1>11 DEF vars, GoesOn
<1> HIDE DEF Goal
<1>12. ASSUME NEW j \in Jobs, JobStep(j) \/ ReplyStep(j)
       PROVE  Goal
    BY <1>1, <1>2, <1>4, <1>5, <1>6, <1>7, <1>12 DEF JobStep, ReplyStep
<1>13. ASSUME NEW s \in Servers,
              \/ CancelAll(s) \/ LoseLink(s) \/ Reconnect(s)
              \/ \E cams \in SUBSET Cameras : PingPublish(s, cams)
       PROVE  Goal
    BY <1>8, <1>9, <1>10, <1>13
<1>14. Goal
    <2>1. CASE \E j \in Jobs : JobStep(j) \/ ReplyStep(j)
        BY <1>12, <2>1
    <2>2. CASE \E s \in Servers : CancelAll(s) \/ LoseLink(s) \/ Reconnect(s)
        BY <1>13, <2>2
    <2>3. CASE \E s \in Servers, cams \in SUBSET Cameras : PingPublish(s, cams)
        BY <1>13, <2>3
    <2>4. CASE UNCHANGED vars
        BY <1>11, <2>4
    <2> QED
        BY <2>1, <2>2, <2>3, <2>4 DEF ThreadStep
<1> QED
    BY <1>14 DEF Goal

-----------------------------------------------------------------------------
(* Every message is sent once, and every reply is counted once at most. *)

Fresh(a) == \A j \in Jobs : j[2] = a => job[j].at = "none"

\* A sender has before it only servers to which it has sent nothing, and the preview's
\* click has not started its sender yet.
SendsOnce ==
    /\ ui = "send" => \A a \in Applies : a = clicks => sending[a] = {} /\ Fresh(a)
    /\ \A j \in Jobs : j[1] \in sending[j[2]] => job[j].at = "none"

\* What a click begins has gone nowhere.
LEMMA SendsOnceClick ==
    ASSUME TypeOK, SourceInv, SendsOnce, clicks' = clicks + 1, job' = job,
           \A a \in Applies : a # clicks + 1 => sending'[a] = sending[a],
           ui' = "send" => sending' = sending
    PROVE  SendsOnce'
<1>1. clicks \in Int /\ \A a \in Applies : a \in Int
    BY ApplyAssumption DEF TypeOK, Applies
<1>2. \A a \in Applies : a = clicks + 1 => sending[a] = {} /\ Fresh(a)
    BY <1>1 DEF SourceInv, NotYet, Fresh
<1>3. \A a \in Applies : Fresh(a)' <=> Fresh(a)
    BY DEF Fresh
<1>4. \A j \in Jobs : j[2] \in Applies
    BY JobParts
<1>5. \A j \in Jobs : j[1] \in sending'[j[2]] => job'[j].at = "none"
    BY <1>2, <1>4 DEF SendsOnce, Fresh
<1> QED
    BY <1>2, <1>3, <1>5 DEF SendsOnce

\* It is an invariant.
LEMMA SendsOnceCorrect == Spec => []SendsOnce
<1>1. Init => SendsOnce
    BY DEF Init, SendsOnce, JobOf, Jobs
<1>2. TypeOK /\ SourceInv /\ SendsOnce /\ [Next]_vars => SendsOnce'
    <2> SUFFICES ASSUME TypeOK, SourceInv, SendsOnce, [Next]_vars
                 PROVE  SendsOnce'
        OBVIOUS
    <2> USE DEF user, feedback, canceling, world
    <2>1. ASSUME NEW c \in Cameras \cup {NoCamera}, Click(c)
          PROVE  SendsOnce'
        <3>1. \A a \in Applies : a # clicks + 1 => sending'[a] = sending[a]
            BY <2>1 DEF Click, TypeOK
        <3> QED
            BY <2>1, <3>1, SendsOnceClick DEF Click
    <2>2. ASSUME NEW c \in Cameras, ClickUnknown(c) \/ ClickPreview(c)
          PROVE  SendsOnce'
        BY <2>2, SendsOnceClick DEF ClickUnknown, ClickPreview
    <2>3. CASE ClickStop \/ MarkApplying
        BY <2>3 DEF ClickStop, MarkApplying, SendsOnce, Fresh
    <2>4. CASE SendPreview
        <3>1. \A a \in Applies : a # clicks => sending'[a] = sending[a]
            BY <2>4 DEF SendPreview, TypeOK
        <3>2. \A j \in Jobs : j[2] \in Applies
            BY JobParts
        <3> QED
            BY <2>4, <3>1, <3>2 DEF SendPreview, SendsOnce, Fresh
    <2>5. ASSUME NEW a \in Applies, NEW s \in Servers, SendTo(a, s)
          PROVE  SendsOnce'
        <3>1. sending'[a] = sending[a] \ {s} /\ \A b \in Applies \ {a} : sending'[b] = sending[b]
            BY <2>5 DEF SendTo, TypeOK
        <3>2. \A i \in Jobs \ {<<s, a>>} : job'[i].at = job[i].at
            BY <2>5, Sent
        <3>3. \A j \in Jobs : j[1] \in sending'[j[2]] => job'[j].at = "none"
            <4> SUFFICES ASSUME NEW j \in Jobs, j[1] \in sending'[j[2]]
                         PROVE  job'[j].at = "none"
                OBVIOUS
            <4>1. j[2] \in Applies /\ j = <<j[1], j[2]>>
                BY JobParts DEF Jobs
            <4>2. j # <<s, a>>
                BY <4>1, <3>1, JobOf
            <4> QED
                BY <4>1, <4>2, <3>1, <3>2 DEF SendsOnce
        <3>4. ui = "send" => \A b \in Applies : b = clicks => b # a
            BY <2>5 DEF SendTo, SendsOnce
        <3>5. \A b \in Applies : b # a /\ Fresh(b) => Fresh(b)'
            BY <3>2, JobOf DEF Fresh
        <3> QED
            BY <2>5, <3>1, <3>3, <3>4, <3>5 DEF SendTo, SendsOnce
    <2>6. CASE ThreadStep
        <3>1. UNCHANGED <<clicks, ui, sending>> /\ \A j \in Jobs : GoesOn(j)
            BY <2>6, JobsGoOn
        <3>2. \A j \in Jobs : job[j].at = "none" => job'[j].at = "none"
            BY <3>1 DEF GoesOn, Onward
        <3> QED
            BY <3>1, <3>2 DEF SendsOnce, Fresh
    <2> QED
        BY <2>1, <2>2, <2>3, <2>4, <2>5, <2>6, Zenon DEF Next, Users, Finishing, ThreadStep
<1> QED
    BY <1>1, <1>2, TypeCorrect, SourceInvCorrect, PTL DEF Spec

\* The jobs whose reply has been counted, or overwritten by one counted at once.
Replied == {j \in Jobs : job[j].at \in {"test", "done"}}

\* Neither the count nor what a reply has read of it exceeds the replies.
CountInv ==
    /\ applying_all_count <= Cardinality(Replied)
    /\ \A j \in Jobs : job[j].at = "read" => job[j].seen <= Cardinality(Replied)

\* There are finitely many replies.
LEMMA FiniteReplies == IsFiniteSet(Replied) /\ Cardinality(Replied) \in Nat
<1>1. IsFiniteSet(Applies)
    BY ApplyAssumption, FS_Interval DEF Applies
<1>2. IsFiniteSet(Jobs)
    BY <1>1, ApplyAssumption, FS_Product DEF Jobs
<1> QED
    BY <1>2, FS_Subset, FS_CardinalityType DEF Replied

\* A step that counts nothing: it may read the count.
CountsNothing ==
    /\ UNCHANGED applying_all_count
    /\ \A j \in Jobs : job[j].at \in {"test", "done"} <=> job'[j].at \in {"test", "done"}
    /\ \A j \in Jobs : job'[j].at = "read" =>
          \/ job[j].at = "read" /\ job'[j].seen = job[j].seen
          \/ job'[j].seen = applying_all_count

\* Only the second half of `applying_all_count++` counts.
LEMMA WhoCounts ==
    ASSUME TypeOK, SendsOnce, [Next]_vars
    PROVE  CountsNothing \/ \E j \in Jobs : WriteCount(j)
<1> USE DEF user, feedback, canceling, world
<1>1. ASSUME job' = job, UNCHANGED applying_all_count
      PROVE  CountsNothing
    BY <1>1 DEF CountsNothing
<1>2. ASSUME Users \/ Finishing
      PROVE  CountsNothing
    <2>1. job' = job /\ UNCHANGED applying_all_count
        BY <1>2
        DEF Users, Finishing, Click, ClickUnknown, ClickPreview, ClickStop,
            MarkApplying, SendPreview
    <2> QED
        BY <1>1, <2>1
<1>3. ASSUME NEW a \in Applies, NEW s \in Servers, SendTo(a, s)
      PROVE  CountsNothing
    <2>1. /\ job[<<s, a>>].at = "none"
          /\ UNCHANGED applying_all_count
        BY <1>3, JobOf DEF SendTo, SendsOnce
    <2>2. CASE /\ job'[<<s, a>>].at = "sent"
               /\ \A i \in Jobs \ {<<s, a>>} : job'[i] = job[i]
        BY <2>1, <2>2 DEF CountsNothing
    <2> QED
        BY <1>1, <1>3, <2>1, <2>2, Sent
<1>4. ASSUME NEW j \in Jobs, StartApply(j)
      PROVE  CountsNothing
    BY <1>4, Started DEF StartApply, CountsNothing
<1>5. ASSUME NEW j \in Jobs, NEW c \in Cameras, SetSetting(j, c) \/ MissSetting(j, c)
      PROVE  CountsNothing
    <2>1. \A i \in Jobs : job'[i].at = job[i].at /\ job'[i].seen = job[i].seen
        BY <1>5, Advanced DEF SetSetting, MissSetting
    <2> QED
        BY <1>5, <2>1 DEF SetSetting, MissSetting, CountsNothing
<1>6. ASSUME NEW j \in Jobs, Report(j)
      PROVE  CountsNothing
    <2>1. \E at \in {"lost", "blank", "full"} : Move(j, at)
        BY <1>6 DEF Report
    <2>2. /\ job'[j].at \in {"lost", "blank", "full"}
          /\ \A i \in Jobs \ {j} : job'[i] = job[i]
        BY <2>1, Moved DEF Stages
    <2> QED
        BY <1>6, <2>2 DEF Report, Writing, CountsNothing
<1>7. ASSUME NEW j \in Jobs, TestCount(j)
      PROVE  CountsNothing
    <2>1. /\ job'[j].at = "done"
          /\ \A i \in Jobs \ {j} : job'[i] = job[i]
        BY <1>7, Moved DEF TestCount, Stages
    <2> QED
        BY <1>7, <2>1 DEF TestCount, CountsNothing
<1>8. ASSUME NEW j \in Jobs, ReadCount(j)
      PROVE  CountsNothing
    BY <1>8, CountRead DEF ReadCount, CountsNothing
<1>9. ASSUME NEW s \in Servers, LoseLink(s)
      PROVE  CountsNothing
    BY <1>9, LinkLost DEF Cut, LoseLink, CountsNothing
<1>10. ASSUME \/ \E s \in Servers : CancelAll(s) \/ Reconnect(s)
              \/ \E s \in Servers, cams \in SUBSET Cameras : PingPublish(s, cams)
              \/ UNCHANGED vars
       PROVE  CountsNothing
    BY <1>1, <1>10 DEF CancelAll, Reconnect, PingPublish, vars
<1> QED
    BY <1>2, <1>3, <1>4, <1>5, <1>6, <1>7, <1>8, <1>9, <1>10, Zenon
    DEF Next, JobStep, ReplyStep

\* A reply that is counted is one more.
LEMMA CountWrite ==
    ASSUME TypeOK, NEW j \in Jobs, WriteCount(j)
    PROVE  /\ job[j].at = "read"
           /\ applying_all_count' = job[j].seen + 1
           /\ Cardinality(Replied') = Cardinality(Replied) + 1
           /\ job'[j].at = "test"
           /\ \A i \in Jobs \ {j} : job'[i] = job[i]
<1>1. /\ job[j].at = "read"
      /\ applying_all_count' = job[j].seen + 1
      /\ Move(j, "test")
    BY DEF WriteCount
<1>2. /\ job'[j].at = "test"
      /\ \A i \in Jobs \ {j} : job'[i] = job[i]
    BY <1>1, Moved DEF Stages
<1>3. Replied' = Replied \cup {j} /\ j \notin Replied
    BY <1>1, <1>2 DEF Replied
<1>4. Cardinality(Replied') = Cardinality(Replied) + 1
    BY <1>3, FiniteReplies, FS_AddElement
<1> QED
    BY <1>1, <1>2, <1>4

\* applying_all_count never exceeds the replies there have been, whatever replies read
\* and write it at once: no apply ends for want of anything but a reply.
THEOREM CountInvCorrect == Spec => []CountInv
<1>1. Init => CountInv
    BY FiniteReplies DEF Init, Job, CountInv
<1>2. TypeOK /\ SendsOnce /\ CountInv /\ [Next]_vars => CountInv'
    <2> SUFFICES ASSUME TypeOK, SendsOnce, CountInv, [Next]_vars
                 PROVE  CountInv'
        OBVIOUS
    <2>1. CASE CountsNothing
        <3>1. Replied' = Replied
            BY <2>1 DEF CountsNothing, Replied
        <3> QED
            BY <2>1, <3>1 DEF CountsNothing, CountInv
    <2>2. ASSUME NEW j \in Jobs, WriteCount(j)
          PROVE  CountInv'
        <3> DEFINE n == Cardinality(Replied)
        <3>1. n \in Nat /\ \A i \in Jobs : job[i].seen \in Nat
            BY FiniteReplies, JobParts
        <3>2. Cardinality(Replied)' = n + 1
            BY <2>2, CountWrite
        <3>3. \A i \in Jobs : job[i].at = "read" => job[i].seen <= n
            BY DEF CountInv
        <3>4. \A i \in Jobs : job'[i].at = "read" => job'[i] = job[i]
            BY <2>2, CountWrite
        <3> HIDE DEF n
        <3>5. \A i \in Jobs : job'[i].at = "read" => job'[i].seen <= n + 1
            BY <3>1, <3>3, <3>4
        <3>6. applying_all_count' <= n + 1
            BY <2>2, <3>1, <3>3, CountWrite
        <3> QED
            BY <3>2, <3>5, <3>6 DEF CountInv
    <2> QED
        BY <2>1, <2>2, WhoCounts
<1> QED
    BY <1>1, <1>2, TypeCorrect, SendsOnceCorrect, PTL DEF Spec

-----------------------------------------------------------------------------
(***************************************************************************)
(* One apply after the other.  When nobody applies again in the preview,   *)
(* the disabled buttons keep applies apart with one server, where          *)
(* applying_all is reset only by the reply of the last apply, and, with    *)
(* any number of servers, for the first two: the count is not reset, so    *)
(* for the second it already has the replies of the first, and a third may *)
(* begin while it is being written.                                        *)
(***************************************************************************)

OneServer == \E s \in Servers : Servers = {s}

InOrder == MaxAgain = 0 /\ (OneServer \/ MaxApplies <= 2)

Busy == Writing \cup {"sent"}

\* Where an apply is still under way when the next may not begin.
Open == IF OneServer THEN Busy \cup {"full", "blank", "read", "test"} ELSE Busy

Settled(a) ==
    /\ sending[a] = {}
    /\ \A j \in Jobs : j[2] = a => job[j].at \notin Open

OrderInv ==
    /\ \A a \in Applies : a < clicks => Settled(a)
    /\ ui = "idle" /\ ~applying_all /\ clicks < MaxApplies =>
          \A a \in Applies : a = clicks => Settled(a)
    /\ ui = "send" /\ clicks < MaxApplies => applying_all

\* What is open is the last apply.
LEMMA OpenIsLast ==
    ASSUME TypeOK, SourceInv, OrderInv, NEW j \in Jobs, job[j].at \in Open
    PROVE  j[2] = clicks
<1>1. j[2] \in Int /\ clicks \in Int
    BY JobParts, ApplyAssumption DEF Applies, TypeOK
<1>2. ~(j[2] < clicks)
    BY JobParts DEF OrderInv, Settled
<1>3. ~(j[2] > clicks)
    BY DEF SourceInv, NotYet, Open, Busy, Writing
<1> QED
    BY <1>1, <1>2, <1>3

\* A click when the last apply is settled.
LEMMA OrderClick ==
    ASSUME TypeOK, OrderInv, ui = "idle", ~applying_all,
           clicks < MaxApplies, clicks' = clicks + 1, job' = job,
           \A a \in Applies : a # clicks + 1 => sending'[a] = sending[a],
           \/ ui' = "mark"
           \/ ui' = "send" /\ applying_all'
    PROVE  OrderInv'
<1>1. clicks \in Int /\ \A a \in Applies : a \in Int
    BY ApplyAssumption DEF TypeOK, Applies
<1>2. \A a \in Applies : a < clicks' => Settled(a)'
    BY <1>1 DEF OrderInv, Settled
<1> QED
    BY <1>2 DEF OrderInv

\* With replies from as many jobs as there are servers, and none but of the first
\* apply, every server has replied to it.
LEMMA AllReplied ==
    ASSUME TypeOK, SourceInv, CountInv, clicks = 1, Enough
    PROVE  \A s \in Servers : <<s, 1>> \in Replied
<1> DEFINE first == Servers \X {1}
<1>1. Replied \subseteq first
    <2> SUFFICES ASSUME NEW j \in Replied
                 PROVE  j \in first
        OBVIOUS
    <2>1. j \in Jobs /\ job[j].at \in {"test", "done"}
        BY DEF Replied
    <2>2. ~(j[2] > clicks)
        BY <2>1 DEF SourceInv, NotYet
    <2>3. j[2] = 1
        BY <2>1, <2>2, JobParts, ApplyAssumption DEF Applies
    <2> QED
        BY <2>1, <2>3 DEF Jobs
<1>2. IsFiniteSet({1}) /\ Cardinality({1}) = 1
    BY FS_Singleton
<1>3. IsFiniteSet(first) /\ Cardinality(first) = Cardinality(Servers) * 1
    BY <1>2, ApplyAssumption, FS_Product
<1>4. /\ Cardinality(Servers) \in Nat
      /\ Cardinality(Replied) \in Nat
      /\ applying_all_count \in Nat
    BY ApplyAssumption, FS_CardinalityType, FiniteReplies DEF TypeOK
<1>5. Cardinality(Replied) >= Cardinality(first)
    BY <1>3, <1>4 DEF CountInv, Enough
<1>6. Replied = first
    BY <1>1, <1>3, <1>4, <1>5, FS_Subset
<1> QED
    BY <1>6

\* The reply with which applying_all is reset finds the apply settled.
LEMMA OrderReply ==
    ASSUME InOrder, TypeOK, SourceInv, SendsOnce, CountInv, OrderInv,
           NEW j \in Jobs, TestCount(j), clicks < MaxApplies
    PROVE  /\ ui # "send"
           /\ Enough => \A a \in Applies : a = clicks => Settled(a)'
<1>1. /\ job[j].at = "test"
      /\ UNCHANGED <<clicks, ui, sending>>
    BY DEF TestCount, user
<1>2. /\ job'[j].at = "done"
      /\ \A i \in Jobs \ {j} : job'[i] = job[i]
    BY Moved DEF TestCount, Stages
<1>3. clicks \in Int /\ MaxApplies \in Nat /\ j[2] \in 1..MaxApplies
    BY JobParts, ApplyAssumption DEF TypeOK, Applies
<1>4. ~(j[2] > clicks)
    BY <1>1 DEF SourceInv, NotYet
<1>5. j[2] = clicks /\ j[2] \in Applies /\ (OneServer \/ clicks = 1)
    <2>1. CASE OneServer
        BY <1>1, <2>1, OpenIsLast, JobParts DEF Open
    <2>2. CASE MaxApplies <= 2
        BY <1>3, <1>4, <2>2, JobParts
    <2> QED
        BY <2>1, <2>2 DEF InOrder
<1>6. ui # "send"
    BY <1>1, <1>5 DEF SendsOnce, Fresh
<1>7. ASSUME NEW i \in Jobs, i[2] = clicks,
             \/ i = j
             \/ job[i].at \in {"test", "done"} /\ ~OneServer
      PROVE  job'[i].at \notin Open /\ i[1] \notin sending[clicks]
    <2>1. job[i].at \in {"test", "done"}
        BY <1>1, <1>7
    <2>2. i[1] \notin sending[clicks]
        BY <1>7, <2>1 DEF SendsOnce
    <2> QED
        BY <1>1, <1>2, <1>7, <2>2 DEF Open, Busy, Writing
<1>8. ASSUME Enough, NEW i \in Jobs, i[2] = clicks
      PROVE  job'[i].at \notin Open /\ i[1] \notin sending[clicks]
    <2>1. CASE OneServer
        <3>1. i = j
            BY <1>5, <1>8, <2>1 DEF OneServer, Jobs
        <3> QED
            BY <1>7, <1>8, <3>1
    <2>2. CASE ~OneServer
        <3>1. clicks = 1 /\ i[1] \in Servers /\ i = <<i[1], 1>>
            BY <1>5, <1>8, <2>2 DEF Jobs
        <3>2. job[i].at \in {"test", "done"}
            BY <1>8, <3>1, AllReplied DEF Replied
        <3> QED
            BY <1>7, <1>8, <2>2, <3>2
    <2> QED
        BY <2>1, <2>2
<1>9. ASSUME Enough
      PROVE  sending[clicks] = {}
    <2>1. sending[clicks] \subseteq Servers
        BY <1>5 DEF TypeOK
    <2>2. \A s \in Servers : s \notin sending[clicks]
        BY <1>5, <1>8, <1>9, JobOf
    <2> QED
        BY <2>1, <2>2
<1> QED
    BY <1>1, <1>6, <1>8, <1>9 DEF Settled

\* It is an invariant.
LEMMA OrderInvCorrect == ASSUME InOrder PROVE Spec => []OrderInv
<1>1. Init => OrderInv
    <2>1. \A a \in Applies : ~(a < 0) /\ a # 0
        BY ApplyAssumption DEF Applies
    <2> QED
        BY <2>1 DEF Init, OrderInv
<1>2. TypeOK /\ SourceInv /\ SendsOnce /\ CountInv /\ OrderInv /\ [Next]_vars => OrderInv'
    <2> SUFFICES ASSUME TypeOK, SourceInv, SendsOnce, CountInv, OrderInv, [Next]_vars
                 PROVE  OrderInv'
        OBVIOUS
    <2> USE DEF user, feedback, canceling, world
    <2>1. ASSUME NEW c \in Cameras \cup {NoCamera}, Click(c)
          PROVE  OrderInv'
        <3>1. \A a \in Applies : a # clicks + 1 => sending'[a] = sending[a]
            BY <2>1 DEF Click, TypeOK
        <3> QED
            BY <2>1, <3>1, OrderClick DEF Click
    <2>2. ASSUME NEW c \in Cameras, ClickUnknown(c) \/ ClickPreview(c)
          PROVE  OrderInv'
        <3>1. ~applying_all
            BY <2>2 DEF ClickUnknown, ClickPreview, InOrder, TypeOK
        <3> QED
            BY <2>2, <3>1, OrderClick DEF ClickUnknown, ClickPreview
    <2>3. CASE ClickStop \/ MarkApplying
        BY <2>3 DEF ClickStop, MarkApplying, OrderInv, Settled
    <2>4. CASE SendPreview
        <3>1. \A a \in Applies : a # clicks => sending'[a] = sending[a]
            BY <2>4 DEF SendPreview, TypeOK
        <3>2. \A a \in Applies : a < clicks => a # clicks
            BY ApplyAssumption DEF TypeOK, Applies
        <3> QED
            BY <2>4, <3>1, <3>2 DEF SendPreview, OrderInv, Settled
    <2>5. ASSUME NEW a \in Applies, NEW s \in Servers, SendTo(a, s)
          PROVE  OrderInv'
        <3>1. /\ UNCHANGED <<clicks, ui, applying_all>>
              /\ s \in sending[a]
            BY <2>5 DEF SendTo
        <3>2. \A b \in Applies \ {a} : sending'[b] = sending[b]
            BY <2>5 DEF SendTo, TypeOK
        <3>3. \A i \in Jobs \ {<<s, a>>} : job'[i].at = job[i].at
            BY <2>5, Sent
        <3>4. \A b \in Applies : Settled(b) => b # a /\ Settled(b)'
            BY <3>1, <3>2, <3>3, JobOf DEF Settled
        <3> QED
            BY <3>1, <3>4 DEF OrderInv
    <2>6. CASE ThreadStep
        <3>1. /\ UNCHANGED <<clicks, ui, sending>>
              /\ \A j \in Jobs : GoesOn(j)
              /\ UNCHANGED applying_all \/ \E j \in Jobs : TestCount(j)
            BY <2>6, JobsGoOn
        <3>2. \A a \in Applies : Settled(a) => Settled(a)'
            BY <3>1 DEF GoesOn, Onward, Settled, Open, Busy, Writing
        <3>3. CASE UNCHANGED applying_all
            BY <3>1, <3>2, <3>3 DEF OrderInv
        <3>4. ASSUME NEW j \in Jobs, TestCount(j)
              PROVE  OrderInv'
            <4>1. CASE Enough /\ clicks < MaxApplies
                BY <3>1, <3>2, <3>4, <4>1, OrderReply DEF OrderInv
            <4>2. CASE ~Enough
                BY <3>3, <3>4, <4>2 DEF TestCount
            <4>3. CASE ~(clicks < MaxApplies)
                BY <3>1, <3>2, <4>3 DEF OrderInv
            <4> QED
                BY <4>1, <4>2, <4>3
        <3> QED
            BY <3>1, <3>3, <3>4
    <2> QED
        BY <2>1, <2>2, <2>3, <2>4, <2>5, <2>6, Zenon DEF Next, Users, Finishing, ThreadStep
<1> QED
    BY <1>1, <1>2, TypeCorrect, SourceInvCorrect, SendsOnceCorrect, CountInvCorrect, PTL
    DEF Spec

\* Once the next apply is clicked, no server has anything left to write for the last.
THEOREM NoOverlapCorrect == ASSUME InOrder PROVE Spec => []NoOverlap
<1>1. TypeOK /\ SourceInv /\ OrderInv => NoOverlap
    BY OpenIsLast DEF NoOverlap, Open, Busy
<1> QED
    BY <1>1, TypeCorrect, SourceInvCorrect, OrderInvCorrect, PTL

-----------------------------------------------------------------------------
(* All settings from the last apply. *)

\* A server applies to its own cameras.
HomeInv ==
    /\ \A s \in Servers, c \in Cameras : c \in alive[s] => Home[c] = s
    /\ \A j \in Jobs, c \in Cameras : job[j].next[c] # 0 => Home[c] = j[1]

\* It is an invariant.
LEMMA HomeInvCorrect == Spec => []HomeInv
<1>1. Init => HomeInv
    <2> SUFFICES ASSUME Init
                 PROVE  HomeInv
        OBVIOUS
    <2>1. \A j \in Jobs : job[j].next = Untouched
        BY DEF Init, Job
    <2> QED
        BY <2>1 DEF Init, HomeInv, Untouched
<1>2. TypeOK /\ HomeInv /\ [Next]_vars => HomeInv'
    <2> SUFFICES ASSUME TypeOK, HomeInv, [Next]_vars
                 PROVE  HomeInv'
        OBVIOUS
    <2> USE DEF user, feedback, canceling, world
    <2>1. ASSUME UNCHANGED alive,
                 \A j \in Jobs, c \in Cameras : job'[j].next[c] # 0 => job[j].next[c] # 0
          PROVE  HomeInv'
        BY <2>1 DEF HomeInv
    <2>2. CASE Users \/ Finishing
        BY <2>1, <2>2
        DEF Users, Finishing, Click, ClickUnknown, ClickPreview, ClickStop, MarkApplying,
            SendPreview
    <2>3. ASSUME NEW a \in Applies, NEW s \in Servers, SendTo(a, s)
          PROVE  HomeInv'
        <3>1. \A j \in Jobs, c \in Cameras : job'[j].next[c] # 0 => job[j].next[c] # 0
            <4>1. CASE job' = job
                BY <4>1
            <4>2. CASE /\ job'[<<s, a>>].next = Untouched
                       /\ \A i \in Jobs \ {<<s, a>>} : job'[i] = job[i]
                BY <4>2 DEF Untouched
            <4> QED
                BY <2>3, <4>1, <4>2, Sent
        <3> QED
            BY <2>1, <2>3, <3>1 DEF SendTo
    <2>4. ASSUME NEW j \in Jobs, StartApply(j)
          PROVE  HomeInv'
        <3>1. \A c \in Cameras : job'[j].next[c] # 0 => c \in alive[j[1]]
            BY <2>4, Started DEF Targets
        <3>2. \A i \in Jobs \ {j} : job'[i] = job[i]
            BY <2>4, Started
        <3>3. alive' = alive /\ j[1] \in Servers
            BY <2>4, JobParts DEF StartApply
        <3> QED
            BY <3>1, <3>2, <3>3 DEF HomeInv
    <2>5. ASSUME NEW j \in Jobs, NEW c \in Cameras, SetSetting(j, c) \/ MissSetting(j, c)
          PROVE  HomeInv'
        <3>1. Advance(j, c) /\ Current(j, c) /\ UNCHANGED alive
            BY <2>5 DEF SetSetting, MissSetting
        <3>2. job[j].next[c] # 0
            BY <3>1 DEF Current, Settings
        <3> QED
            BY <2>1, <3>1, <3>2, Advanced
    <2>6. ASSUME NEW j \in Jobs, Report(j) \/ WriteCount(j) \/ TestCount(j)
          PROVE  HomeInv'
        <3>1. \E at \in Stages : Move(j, at)
            BY <2>6 DEF Report, WriteCount, TestCount, Stages
        <3>2. \A i \in Jobs : job'[i].next = job[i].next
            BY <3>1, Moved
        <3> QED
            BY <2>1, <2>6, <3>2 DEF Report, WriteCount, TestCount
    <2>7. ASSUME NEW j \in Jobs, ReadCount(j)
          PROVE  HomeInv'
        BY <2>1, <2>7, CountRead DEF ReadCount
    <2>8. ASSUME NEW s \in Servers, CancelAll(s) \/ Reconnect(s)
          PROVE  HomeInv'
        BY <2>1, <2>8 DEF CancelAll, Reconnect
    <2>9. ASSUME NEW s \in Servers, LoseLink(s)
          PROVE  HomeInv'
        BY <2>1, <2>9, LinkLost DEF LoseLink
    <2>10. ASSUME NEW s \in Servers, NEW cams \in SUBSET Cameras, PingPublish(s, cams)
           PROVE  HomeInv'
        <3>1. \A t \in Servers : alive'[t] = IF t = s THEN cams ELSE alive[t]
            BY <2>10 DEF PingPublish, TypeOK
        <3> QED
            BY <2>10, <3>1 DEF PingPublish, HomeInv
    <2>11. CASE UNCHANGED vars
        BY <2>1, <2>11 DEF vars
    <2> QED
        BY <2>2, <2>3, <2>4, <2>5, <2>6, <2>7, <2>8, <2>9, <2>10, <2>11, Zenon
        DEF Next, JobStep, ReplyStep
<1> QED
    BY <1>1, <1>2, TypeCorrect, PTL DEF Spec

\* As long as nothing goes wrong, what a camera has got of the last apply it has kept.
Written ==
    faults = 0 =>
        \A j \in Jobs, c \in Cameras, k \in Settings :
            j[2] = clicks /\ job[j].next[c] > k => camset[c][k] = clicks

\* A step that neither applies nor writes a setting.
LEMMA WrittenStep ==
    ASSUME TypeOK, Written, UNCHANGED <<camset, clicks>>, faults' = 0 => faults = 0,
           \A j \in Jobs : \/ job'[j].next = job[j].next
                           \/ \A c \in Cameras : job'[j].next[c] \in {0, 1}
    PROVE  Written'
BY DEF Written, Settings

\* A click is an apply of which no camera has got anything.
LEMMA WrittenClick ==
    ASSUME TypeOK, SourceInv, clicks' = clicks + 1, job' = job
    PROVE  Written'
<1>1. clicks \in Int
    BY ApplyAssumption DEF TypeOK
<1>2. \A j \in Jobs : j[2] = clicks + 1 => job[j].next = Untouched
    BY <1>1 DEF SourceInv, NotYet
<1> QED
    BY <1>2 DEF Written, Untouched, Settings

\* It is an invariant.
LEMMA WrittenCorrect == ASSUME InOrder PROVE Spec => []Written
<1>1. Init => Written
    <2> SUFFICES ASSUME Init
                 PROVE  Written
        OBVIOUS
    <2>1. \A j \in Jobs : job[j].next = Untouched
        BY DEF Init, Job
    <2> QED
        BY <2>1 DEF Written, Untouched, Settings
<1>2. TypeOK /\ SourceInv /\ NoOverlap /\ HomeInv /\ Written /\ [Next]_vars => Written'
    <2> SUFFICES ASSUME TypeOK, SourceInv, NoOverlap, HomeInv, Written, [Next]_vars
                 PROVE  Written'
        OBVIOUS
    <2> USE DEF user, feedback, canceling, world
    <2>1. ASSUME Users
          PROVE  Written'
        <3>1. CASE ClickStop
            BY <3>1, WrittenStep DEF ClickStop
        <3>2. ASSUME NEW c \in Cameras \cup {NoCamera}, Click(c)
              PROVE  Written'
            BY <3>2, WrittenClick DEF Click
        <3>3. ASSUME NEW c \in Cameras, ClickUnknown(c) \/ ClickPreview(c)
              PROVE  Written'
            BY <3>3, WrittenClick DEF ClickUnknown, ClickPreview
        <3> QED
            BY <2>1, <3>1, <3>2, <3>3, Zenon DEF Users
    <2>2. ASSUME Finishing
          PROVE  Written'
        BY <2>2, WrittenStep DEF Finishing, MarkApplying, SendPreview
    <2>3. ASSUME NEW a \in Applies, NEW s \in Servers, SendTo(a, s)
          PROVE  Written'
        <3>1. \A j \in Jobs : \/ job'[j].next = job[j].next
                              \/ \A c \in Cameras : job'[j].next[c] \in {0, 1}
            <4>1. CASE job' = job
                BY <4>1
            <4>2. CASE /\ job'[<<s, a>>].next = Untouched
                       /\ \A i \in Jobs \ {<<s, a>>} : job'[i] = job[i]
                BY <4>2 DEF Untouched
            <4> QED
                BY <2>3, <4>1, <4>2, Sent
        <3> QED
            BY <2>3, <3>1, WrittenStep DEF SendTo
    <2>4. ASSUME NEW j \in Jobs, StartApply(j)
          PROVE  Written'
        BY <2>4, Started, WrittenStep DEF StartApply
    <2>5. ASSUME NEW j \in Jobs, NEW c \in Cameras, SetSetting(j, c)
          PROVE  Written'
        <3>1. PICK k \in Settings : k = job[j].next[c]
            BY <2>5 DEF SetSetting, Current
        <3>2. /\ Advance(j, c) /\ Current(j, c) /\ job[j].at \in Writing
              /\ UNCHANGED <<clicks, faults>>
            BY <2>5 DEF SetSetting
        <3>3. j[2] = clicks
            BY <3>2 DEF NoOverlap, Writing
        <3>4. /\ camset'[c][k] = clicks
              /\ \A d \in Cameras, i \in Settings : d # c \/ i # k => camset'[d][i] = camset[d][i]
            BY <2>5, <3>1, <3>3, SettingTaken
        <3>5. /\ job'[j].next[c] = k + 1
              /\ \A d \in Cameras \ {c} : job'[j].next[d] = job[j].next[d]
              /\ \A i \in Jobs \ {j} : job'[i] = job[i]
            BY <3>1, <3>2, Advanced
        <3>6. \A i \in Jobs \ {j} : i[2] = clicks => job[i].next[c] = 0
            <4>1. Home[c] = j[1]
                BY <3>1 DEF HomeInv, Settings
            <4> QED
                BY <4>1, <3>3 DEF HomeInv, Jobs
        <3> SUFFICES ASSUME faults = 0, NEW n \in Jobs, n[2] = clicks,
                            NEW d \in Cameras, NEW i \in Settings, job'[n].next[d] > i
                     PROVE  camset'[d][i] = clicks
            BY <3>2 DEF Written
        <3>7. CASE d = c /\ i = k
            BY <3>4, <3>7
        <3>8. CASE ~(d = c /\ i = k)
            <4>1. camset'[d][i] = camset[d][i]
                BY <3>4, <3>8
            <4>2. job[n].next[d] > i
                <5>1. CASE n = j /\ d = c
                    BY <3>1, <3>5, <3>8, <5>1 DEF Settings
                <5>2. CASE ~(n = j /\ d = c)
                    BY <3>5, <5>2
                <5> QED
                    BY <5>1, <5>2
            <4> QED
                BY <4>1, <4>2 DEF Written
        <3> QED
            BY <3>7, <3>8
    <2>6. ASSUME NEW j \in Jobs, NEW c \in Cameras, MissSetting(j, c)
          PROVE  Written'
        <3>1. faults' # 0
            BY <2>6 DEF MissSetting, Fault, TypeOK
        <3> QED
            BY <3>1 DEF Written
    <2>7. ASSUME NEW j \in Jobs, NEW at \in Stages, Move(j, at),
                 UNCHANGED <<camset, clicks, faults>>
          PROVE  Written'
        <3>1. \A i \in Jobs : job'[i].next = job[i].next
            BY <2>7, Moved
        <3> QED
            BY <2>7, <3>1, WrittenStep
    <2>8. ASSUME NEW j \in Jobs, Report(j)
          PROVE  Written'
        <3>1. \E at \in Stages : Move(j, at)
            BY <2>8 DEF Report, Stages
        <3> QED
            BY <2>7, <2>8, <3>1 DEF Report
    <2>9. ASSUME NEW j \in Jobs, ReadCount(j)
          PROVE  Written'
        <3> DEFINE new == Job("read", job[j].next, applying_all_count)
        <3>1. new \in JobType /\ new.next = job[j].next
            <4>1. applying_all_count \in Nat
                BY DEF TypeOK
            <4> QED
                BY <4>1, JobParts, JobMade DEF Stages
        <3>2. job' = [job EXCEPT ![j] = new]
            BY <2>9 DEF ReadCount
        <3> HIDE DEF new
        <3>3. \A i \in Jobs : job'[i].next = job[i].next
            BY <3>1, <3>2, JobSet
        <3> QED
            BY <2>9, <3>3, WrittenStep DEF ReadCount
    <2>10. ASSUME NEW j \in Jobs, WriteCount(j) \/ TestCount(j)
           PROVE  Written'
        BY <2>7, <2>10 DEF WriteCount, TestCount, Stages
    <2>11. ASSUME NEW s \in Servers, CancelAll(s) \/ Reconnect(s)
           PROVE  Written'
        BY <2>11, WrittenStep DEF CancelAll, Reconnect
    <2>12. ASSUME NEW s \in Servers, LoseLink(s)
           PROVE  Written'
        <3>1. faults' # 0
            BY <2>12 DEF LoseLink, Fault, TypeOK
        <3> QED
            BY <3>1 DEF Written
    <2>13. ASSUME NEW s \in Servers, NEW cams \in SUBSET Cameras, PingPublish(s, cams)
           PROVE  Written'
        BY <2>13, WrittenStep DEF PingPublish
    <2>14. CASE UNCHANGED vars
        BY <2>14, WrittenStep DEF vars
    <2> QED
        BY <2>1, <2>2, <2>3, <2>4, <2>5, <2>6, <2>8, <2>9, <2>10, <2>11, <2>12, <2>13,
           <2>14, Zenon
        DEF Next, JobStep, ReplyStep
<1> QED
    BY <1>1, <1>2, TypeCorrect, SourceInvCorrect, NoOverlapCorrect, HomeInvCorrect, PTL
    DEF Spec

\* As long as nothing goes wrong, every camera that the last apply was for ends with all
\* its settings from that apply.
THEOREM SyncedToAllCorrect == ASSUME InOrder PROVE Spec => []SyncedToAll
<1>1. TypeOK /\ Written => SyncedToAll
    <2> SUFFICES ASSUME TypeOK, Written, faults = 0, clicks > 0,
                        NEW s \in Servers, NEW c \in Cameras,
                        job[<<s, clicks>>].next[c] = NumSettings + 1,
                        NEW k \in Settings
                 PROVE  camset[c][k] = clicks
        BY DEF SyncedToAll
    <2>1. clicks \in Applies
        BY ApplyAssumption DEF TypeOK, Applies
    <2>2. <<s, clicks>> \in Jobs /\ <<s, clicks>>[2] = clicks
        BY <2>1, JobOf
    <2>3. NumSettings + 1 > k
        BY ApplyAssumption DEF Settings
    <2> QED
        BY <2>2, <2>3 DEF Written
<1> QED
    BY <1>1, TypeCorrect, WrittenCorrect, PTL
=============================================================================
