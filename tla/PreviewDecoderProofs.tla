------------------------ MODULE PreviewDecoderProofs ------------------------
(***************************************************************************)
(* Theorems about PreviewDecoder, for any sizes of the queue and of the    *)
(* passes and any number of readers.                                       *)
(***************************************************************************)
EXTENDS PreviewDecoder, TLAPS

\* What the bound on clicks means for readers: every click that starts one is still in
\* the queue, with the worker, with the UI thread, or has started it.
Owed ==
    commands + (IF worker = "trigger" THEN 1 ELSE 0)
             + (IF ui \in {"release", "join", "restart"} /\ why # "cancel" THEN 1 ELSE 0)

Counted ==
    /\ started + Owed <= clicks
    /\ ui = "restart" => why # "cancel"
    /\ reader # "none" => started > 0

\* The frames there are, and that there are none without a reader.
FramesInv == FramesAreTheReaders /\ (reader = "none" => frame_queue = <<>> /\ texture = 0)

\* As long as no second preview was started and no button came too early: one start at a
\* time is under way, which finds no reader.
Orderly ==
    /\ reader # "terminated"
    /\ worker \in {"idle", "trigger"}
    /\ commands > 0 => /\ commands = 1 /\ ~enable /\ ~isopen
                       /\ worker = "idle" /\ ui = "idle" /\ reader = "none"
    /\ worker = "trigger" => (enable \/ isopen) /\ ui = "idle" /\ reader = "none"
    /\ enable => ~isopen /\ ui = "idle"
    /\ ui = "idle" /\ ~isopen /\ ~enable => reader = "none"
    /\ ui = "restart" => reader = "none"
    /\ ui \in {"idle", "release", "join", "restart"}
    /\ ui # "idle" => (isopen <=> why # "cancel")
    /\ why = "retry" /\ ui # "idle" => reader \in {"none", "ended"}

OrderInv == ~again /\ ~early => Orderly

\* A reader that runs says so.
SaysTrying == reader \in Running => trying


-----------------------------------------------------------------------------
(* The queue. *)

\* What a frame does to a queue that is not too long.
LEMMA QueueRoom ==
    ASSUME TypeOK
    PROVE  /\ Room \in Seq(1..MaxReaders)
           /\ Len(Room) < MaxQueueSize
           /\ \A i \in 1..Len(Room) : \E k \in 1..Len(frame_queue) : Room[i] = frame_queue[k]
<1> DEFINE S == 1..MaxReaders
<1>1. frame_queue \in Seq(S) /\ Len(frame_queue) <= MaxQueueSize /\ MaxQueueSize \in Nat \ {0}
    BY DecoderAssumption DEF TypeOK
<1>2. Len(frame_queue) \in Nat
    BY <1>1
<1> HIDE DEF S
<1>3. CASE Len(frame_queue) >= MaxQueueSize
    <2>1. frame_queue # <<>> /\ Room = Tail(frame_queue)
        BY <1>1, <1>3 DEF Room
    <2>2. /\ Tail(frame_queue) \in Seq(S)
          /\ Len(Tail(frame_queue)) = Len(frame_queue) - 1
          /\ \A i \in 1..Len(Tail(frame_queue)) : Tail(frame_queue)[i] = frame_queue[i + 1]
        BY <1>1, <2>1
    <2>3. Len(Room) < MaxQueueSize
        BY <1>1, <1>2, <2>1, <2>2
    <2>4. ASSUME NEW i \in 1..Len(Room)
          PROVE  \E k \in 1..Len(frame_queue) : Room[i] = frame_queue[k]
        <3>1. i + 1 \in 1..Len(frame_queue)
            BY <1>2, <2>1, <2>2
        <3> QED
            BY <2>1, <2>2, <3>1
    <2> QED
        BY <2>1, <2>2, <2>3, <2>4 DEF S
<1>4. CASE ~(Len(frame_queue) >= MaxQueueSize)
    BY <1>1, <1>2, <1>4 DEF Room, S
<1> QED
    BY <1>3, <1>4

\* A queue after a frame has come.
LEMMA QueueAppended ==
    ASSUME TypeOK, started > 0
    PROVE  LET q == Append(Room, started)
           IN  /\ q \in Seq(1..MaxReaders)
               /\ Len(q) <= MaxQueueSize
               /\ \A i \in 1..Len(q) :
                     \/ q[i] = started
                     \/ \E k \in 1..Len(frame_queue) : q[i] = frame_queue[k]
<1> DEFINE S == 1..MaxReaders
<1>1. started \in S
    BY DecoderAssumption DEF TypeOK
<1>2. Room \in Seq(S) /\ Len(Room) < MaxQueueSize /\ MaxQueueSize \in Nat
    BY QueueRoom, DecoderAssumption
<1> HIDE DEF S
<1>3. /\ Append(Room, started) \in Seq(S)
      /\ Len(Append(Room, started)) = Len(Room) + 1
      /\ \A i \in 1..Len(Room) : Append(Room, started)[i] = Room[i]
      /\ Append(Room, started)[Len(Room) + 1] = started
    BY <1>1, <1>2
<1>4. Len(Room) \in Nat
    BY <1>2
<1>5. ASSUME NEW i \in 1..(Len(Room) + 1)
      PROVE  \/ Append(Room, started)[i] = started
             \/ \E k \in 1..Len(frame_queue) : Append(Room, started)[i] = frame_queue[k]
    <2>1. CASE i = Len(Room) + 1
        BY <1>3, <2>1
    <2>2. CASE i \in 1..Len(Room)
        BY <1>3, <2>2, QueueRoom
    <2> QED
        BY <1>4, <2>1, <2>2
<1>6. Len(Append(Room, started)) <= MaxQueueSize
    BY <1>2, <1>3, <1>4
<1> QED
    BY <1>3, <1>5, <1>6 DEF S

\* A queue from which the oldest frame is taken.
LEMMA QueueTaken ==
    ASSUME TypeOK, frame_queue # <<>>
    PROVE  /\ Tail(frame_queue) \in Seq(1..MaxReaders)
           /\ Len(Tail(frame_queue)) <= MaxQueueSize
           /\ Head(frame_queue) \in 1..MaxReaders
           /\ \E k \in 1..Len(frame_queue) : Head(frame_queue) = frame_queue[k]
           /\ \A i \in 1..Len(Tail(frame_queue)) :
                 \E k \in 1..Len(frame_queue) : Tail(frame_queue)[i] = frame_queue[k]
<1> DEFINE S == 1..MaxReaders
<1>1. frame_queue \in Seq(S) /\ Len(frame_queue) <= MaxQueueSize /\ MaxQueueSize \in Nat
    BY DecoderAssumption DEF TypeOK
<1> HIDE DEF S
<1>2. Len(frame_queue) \in Nat /\ Len(frame_queue) > 0
    BY <1>1
<1>3. /\ Tail(frame_queue) \in Seq(S)
      /\ Len(Tail(frame_queue)) = Len(frame_queue) - 1
      /\ \A i \in 1..Len(Tail(frame_queue)) : Tail(frame_queue)[i] = frame_queue[i + 1]
    BY <1>1
<1>4. Head(frame_queue) = frame_queue[1] /\ frame_queue[1] \in S
    BY <1>1, <1>2
<1>5. ASSUME NEW i \in 1..Len(Tail(frame_queue))
      PROVE  \E k \in 1..Len(frame_queue) : Tail(frame_queue)[i] = frame_queue[k]
    <2>1. i + 1 \in 1..Len(frame_queue)
        BY <1>2, <1>3
    <2> QED
        BY <1>3, <2>1
<1>6. Len(Tail(frame_queue)) <= MaxQueueSize
    BY <1>1, <1>2, <1>3
<1>7. 1 \in 1..Len(frame_queue)
    BY <1>2
<1> QED
    BY <1>3, <1>4, <1>5, <1>6, <1>7 DEF S

-----------------------------------------------------------------------------
(* What the steps of the reader have in common. *)

\* It never starts itself, leaves to others what is theirs, and only a frame it reads
\* changes the queue.
LEMMA ReaderStep ==
    ASSUME Reader
    PROVE  /\ UNCHANGED popup
           /\ reader \in {"begin"} \cup Running
           /\ reader' \in {"ended"} \cup Running
           /\ UNCHANGED frame_queue \/ ReadFrame
<1> USE DEF Goes, Ends, Running, streams
<1>1. CASE Begin
    BY <1>1 DEF Begin
<1>2. CASE NoCameraFound \/ NotOpened \/ LoopEnds \/ LoopClosed
    BY <1>2 DEF NoCameraFound, NotOpened, LoopEnds, LoopClosed
<1>3. CASE OpenPass
    BY <1>3 DEF OpenPass
<1>4. CASE GrabFrame \/ GrabFails
    BY <1>4 DEF GrabFrame, GrabFails
<1>5. CASE Opened \/ Loop
    BY <1>5 DEF Opened, Loop
<1>6. CASE ReadFrame
    BY <1>6 DEF ReadFrame
<1> QED
    BY <1>1, <1>2, <1>3, <1>4, <1>5, <1>6 DEF Reader

-----------------------------------------------------------------------------
(* Type correctness.  That readers are no more than clicks is what keeps the numbers *)
(* of frames in bounds.                                                              *)

\* A reader is started, for a click that is then no longer owed one.
LEMMA ReaderStarted ==
    ASSUME TypeOK, Counted, Owed > 0, NEW u, NEW w, StartReader(u, w)
    PROVE  /\ started' \in 0..MaxReaders
           /\ started' > 0
           /\ started' <= started + 1
           /\ reader' \in {"begin", "terminated"}
           /\ reader' = "begin" => reader = "none" /\ ui' = u /\ worker' = w
           /\ reader' = "terminated" => /\ started' = started
                                        /\ ui' = "terminated" /\ worker' = "terminated"
<1>1. started \in Nat /\ commands \in Nat /\ clicks \in 0..MaxReaders /\ MaxReaders \in Nat
    BY DecoderAssumption DEF TypeOK
<1>2. Owed \in Nat /\ started + Owed <= clicks
    BY <1>1 DEF Owed, Counted
<1>3. CASE reader = "none" /\ reader' = "begin" /\ started' = started + 1 /\ ui' = u /\ worker' = w
    BY <1>1, <1>2, <1>3
<1>4. CASE reader # "none" /\ reader' = "terminated" /\ ui' = "terminated"
           /\ worker' = "terminated" /\ started' = started
    BY <1>1, <1>2, <1>4 DEF Counted
<1> QED
    BY <1>3, <1>4 DEF StartReader

\* What the buttons of the popup have in common.
LEMMA ButtonTyped ==
    ASSUME TypeOK, NEW button \in {"cancel", "retry", "camera"}, StopThread(button)
    PROVE  /\ ui = "idle" /\ ui' = "release" /\ why' = button
           /\ stream_open' \in BOOLEAN /\ early' \in BOOLEAN
           /\ UNCHANGED <<commands, worker, again, reader, started, pass, trying, cap,
                          frame_queue, texture>>
<1>1. early' \in BOOLEAN
    BY Zenon DEF StopThread
<1> QED
    BY <1>1 DEF StopThread

\* Every reachable state of the decoder is well typed: the queue is never longer than
\* MAX_QUEUE_SIZE, and no reader runs that no click has started.
THEOREM TypeCorrect == Spec => [](TypeOK /\ Counted)
<1>1. Init => TypeOK /\ Counted
    <2> SUFFICES ASSUME Init
                 PROVE  TypeOK /\ Counted
        OBVIOUS
    <2>1. frame_queue \in Seq(1..MaxReaders) /\ Len(frame_queue) <= MaxQueueSize
        BY DecoderAssumption DEF Init
    <2>2. /\ started = 0 /\ clicks = 0 /\ commands = 0 /\ pass = 0 /\ texture = 0
          /\ ui = "idle" /\ worker = "idle" /\ why = "none" /\ reader = "none"
        BY DEF Init
    <2>3. /\ enable \in BOOLEAN /\ isopen \in BOOLEAN /\ stream_open \in BOOLEAN
          /\ trying \in BOOLEAN /\ cap \in BOOLEAN /\ early \in BOOLEAN /\ again \in BOOLEAN
        BY Zenon DEF Init
    <2>4. TypeOK
        BY <2>1, <2>2, <2>3, DecoderAssumption DEF TypeOK
    <2> QED
        BY <2>2, <2>4 DEF Counted, Owed
<1>2. TypeOK /\ Counted /\ [Next]_vars => (TypeOK /\ Counted)'
    <2> SUFFICES ASSUME TypeOK, Counted, [Next]_vars
                 PROVE  TypeOK' /\ Counted'
        OBVIOUS
    <2> USE DecoderAssumption DEF streams
    <2>1. CASE ClickPreview
        <3>1. again' \in BOOLEAN
            BY <2>1, Zenon DEF ClickPreview
        <3>2. commands \in Nat /\ started \in Nat /\ clicks \in 0..MaxReaders /\ clicks + 1 \in 0..MaxReaders
            BY <2>1 DEF ClickPreview, TypeOK
        <3>3. started + Owed <= clicks /\ commands + 1 <= MaxReaders
            BY <2>1, <3>2 DEF ClickPreview, Counted, Owed
        <3>4. TypeOK'
            BY <2>1, <3>1, <3>2, <3>3 DEF ClickPreview, TypeOK
        <3> QED
            BY <2>1, <3>2, <3>3, <3>4 DEF ClickPreview, Counted, Owed
    <2>2. CASE ClickCancel
        <3>1. StopThread("cancel") /\ enable' = FALSE /\ isopen' = FALSE /\ clicks' = clicks
            BY <2>2 DEF ClickCancel
        <3>2. TypeOK'
            BY <3>1, ButtonTyped DEF TypeOK
        <3> QED
            BY <3>1, <3>2, ButtonTyped DEF TypeOK, Counted, Owed
    <2>3. CASE ClickRetry \/ ClickCamera
        <3>1. /\ StopThread("retry") \/ StopThread("camera")
              /\ clicks < MaxReaders /\ clicks' = clicks + 1 /\ UNCHANGED <<enable, isopen>>
            BY <2>3 DEF ClickRetry, ClickCamera, ThenRestart
        <3>2. PICK button \in {"retry", "camera"} : StopThread(button)
            BY <3>1
        <3>3. TypeOK'
            BY <3>1, <3>2, ButtonTyped DEF TypeOK
        <3>4. started \in Nat /\ commands \in Nat /\ clicks \in Nat
            BY DEF TypeOK
        <3>5. started + Owed <= clicks /\ clicks' = clicks + 1
            BY <3>1 DEF Counted
        <3> QED
            BY <3>2, <3>3, <3>4, <3>5, ButtonTyped DEF Counted, Owed
    <2>4. CASE TakeCommand
        BY <2>4 DEF TakeCommand, TypeOK, Counted, Owed
    <2>5. CASE TriggerReader
        <3>1. Owed > 0 /\ StartReader(ui, "idle")
            BY <2>5 DEF TriggerReader, Owed, TypeOK
        <3>2. TypeOK'
            BY <2>5, <3>1, ReaderStarted DEF TriggerReader, TypeOK
        <3>3. started \in Nat /\ commands \in Nat /\ clicks \in Nat
            BY DEF TypeOK
        <3>4. started + Owed <= clicks
            BY DEF Counted
        <3>5. CASE reader' = "begin"
            BY <2>5, <3>1, <3>3, <3>4, <3>5, <3>2, ReaderStarted DEF TriggerReader, Counted, Owed
        <3>6. CASE reader' = "terminated"
            BY <2>5, <3>1, <3>3, <3>4, <3>6, <3>2, ReaderStarted DEF TriggerReader, Counted, Owed
        <3> QED
            BY <3>1, <3>2, <3>5, <3>6, ReaderStarted
    <2>6. CASE Detect
        <3>1. TypeOK'
            BY <2>6 DEF Detect, TypeOK
        <3>2. Counted'
            BY <2>6 DEF Detect, Counted, Owed
        <3> QED
            BY <3>1, <3>2
    <2>7. CASE ReleaseCap
        <3>1. TypeOK'
            <4>1. cap' \in BOOLEAN
                BY <2>7, Zenon DEF ReleaseCap
            <4> QED
                BY <2>7, <4>1 DEF ReleaseCap, TypeOK
        <3>2. Counted'
            BY <2>7 DEF ReleaseCap, Counted, Owed
        <3> QED
            BY <3>1, <3>2
    <2>8. CASE Join
        <3>1. TypeOK'
            <4>1. frame_queue' \in Seq(1..MaxReaders) /\ Len(frame_queue') <= MaxQueueSize
                BY <2>8 DEF Join
            <4> QED
                BY <2>8, <4>1 DEF Join, Joined, TypeOK
        <3>2. Counted'
            BY <2>8 DEF Join, Joined, TypeOK, Counted, Owed
        <3> QED
            BY <3>1, <3>2
    <2>9. CASE Restart
        <3>1. Owed > 0 /\ StartReader("idle", worker)
            BY <2>9 DEF Restart, Owed, TypeOK, Counted
        <3>2. TypeOK'
            BY <2>9, <3>1, ReaderStarted DEF Restart, TypeOK
        <3>3. started \in Nat /\ commands \in Nat /\ clicks \in Nat
            BY DEF TypeOK
        <3>4. started + Owed <= clicks
            BY DEF Counted
        <3>5. why # "cancel" /\ ui = "restart"
            BY <2>9 DEF Counted, Restart
        <3>6. CASE reader' = "begin"
            BY <2>9, <3>1, <3>3, <3>4, <3>5, <3>6, <3>2, ReaderStarted DEF Restart, Counted, Owed
        <3>7. CASE reader' = "terminated"
            BY <2>9, <3>1, <3>3, <3>4, <3>5, <3>7, <3>2, ReaderStarted DEF Restart, Counted, Owed
        <3> QED
            BY <3>1, <3>2, <3>6, <3>7, ReaderStarted
    <2>10. CASE Render
        <3>1. TypeOK'
            BY <2>10, QueueTaken DEF Render, TypeOK
        <3> QED
            BY <2>10, <3>1 DEF Render, Counted, Owed
    <2>11. CASE Reader
        <3>1. started' = started /\ Owed' = Owed /\ clicks' = clicks /\ ui' = ui /\ why' = why
            BY <2>11, ReaderStep DEF popup, Owed
        <3>2. reader # "none" /\ started > 0
            BY <2>11, ReaderStep DEF Running, Counted
        <3>3. Counted'
            BY <3>1, <3>2 DEF Counted
        <3>4. frame_queue' \in Seq(1..MaxReaders) /\ Len(frame_queue') <= MaxQueueSize
            <4>1. CASE UNCHANGED frame_queue
                BY <4>1 DEF TypeOK
            <4>2. CASE ReadFrame
                BY <4>2, <3>2, QueueAppended DEF ReadFrame, TypeOK
            <4> QED
                BY <2>11, <4>1, <4>2, ReaderStep
        <3>5. /\ pass' \in 0..MaxRedecode
              /\ stream_open' \in BOOLEAN
              /\ trying' \in BOOLEAN
              /\ cap' \in BOOLEAN
            <4> USE DEF Goes, Ends, TypeOK
            <4>1. CASE Begin
                <5>1. stream_open' \in BOOLEAN /\ trying' \in BOOLEAN
                    BY <4>1, Zenon DEF Begin
                <5>2. pass' \in 0..MaxRedecode /\ cap' = cap
                    BY <4>1 DEF Begin
                <5> QED
                    BY <5>1, <5>2
            <4>2. CASE NoCameraFound \/ NotOpened \/ LoopEnds \/ LoopClosed
                BY <4>2 DEF NoCameraFound, NotOpened, LoopEnds, LoopClosed
            <4>3. CASE OpenPass
                <5>1. pass + 1 \in 0..MaxRedecode
                    BY <4>3 DEF OpenPass
                <5>2. cap' \in BOOLEAN
                    BY <4>3, Zenon DEF OpenPass
                <5> QED
                    BY <4>3, <5>1, <5>2 DEF OpenPass
            <4>4. CASE GrabFrame
                BY <4>4 DEF GrabFrame
            <4>5. CASE GrabFails
                <5>1. cap' \in BOOLEAN
                    BY <4>5, Zenon DEF GrabFails
                <5> QED
                    BY <4>5, <5>1 DEF GrabFails
            <4>6. CASE Opened \/ Loop
                BY <4>6 DEF Opened, Loop
            <4>7. CASE ReadFrame
                BY <4>7 DEF ReadFrame
            <4> QED
                BY <2>11, <4>1, <4>2, <4>3, <4>4, <4>5, <4>6, <4>7 DEF Reader
        <3>6. reader' \in {"none", "begin", "ended", "terminated"} \cup Running
            BY <2>11, ReaderStep
        <3>7. UNCHANGED <<commands, worker, enable, isopen, ui, why, clicks, early, again,
                          started, texture>>
            BY <2>11, ReaderStep DEF popup
        <3>8. TypeOK'
            BY <3>4, <3>5, <3>6, <3>7 DEF TypeOK
        <3> QED
            BY <3>3, <3>8
    <2>12. CASE UNCHANGED vars
        BY <2>12 DEF vars, TypeOK, Counted, Owed
    <2> QED
        BY <2>1, <2>2, <2>3, <2>4, <2>5, <2>6, <2>7, <2>8, <2>9, <2>10, <2>11, <2>12
        DEF Next, Clicks, Worker, Ui
<1> QED
    BY <1>1, <1>2, PTL DEF Spec

-----------------------------------------------------------------------------
(* Frames. *)

\* Where a step of another kind leaves the reader, its number, the queue and the texture
\* alone, there is nothing to say.
SameFrames == UNCHANGED <<reader, started, frame_queue, texture>>

\* No frame of a reader outlives it, whatever the user does and however early: a Join
\* drops the frames of the reader it waits for, and only then is there none.
THEOREM FramesAreTheReadersCorrect == Spec => []FramesAreTheReaders
<1>1. Init => FramesInv
    <2> SUFFICES ASSUME Init
                 PROVE  FramesInv
        OBVIOUS
    <2>1. frame_queue = <<>> /\ texture = 0
        BY DEF Init
    <2> QED
        BY <2>1 DEF FramesInv, FramesAreTheReaders
<1>2. TypeOK /\ Counted /\ FramesInv /\ [Next]_vars => FramesInv'
    <2> SUFFICES ASSUME TypeOK, Counted, FramesInv, [Next]_vars
                 PROVE  FramesInv'
        OBVIOUS
    <2>1. CASE SameFrames
        BY <2>1 DEF SameFrames, FramesInv, FramesAreTheReaders
    <2>2. ClickPreview \/ TakeCommand \/ Detect \/ ReleaseCap \/ UNCHANGED vars => SameFrames
        BY DEF ClickPreview, TakeCommand, Detect, ReleaseCap, vars, SameFrames, streams
    <2>3. ClickCancel \/ ClickRetry \/ ClickCamera => SameFrames
        BY DEF ClickCancel, ClickRetry, ClickCamera, StopThread, SameFrames
    <2>4. CASE TriggerReader \/ Restart
        <3>1. PICK u, w : StartReader(u, w)
            BY <2>4 DEF TriggerReader, Restart
        <3>2. UNCHANGED <<frame_queue, texture>>
            BY <2>4 DEF TriggerReader, Restart, streams
        <3>3. CASE reader = "none" /\ reader' = "begin"
            <4>1. frame_queue = <<>> /\ texture = 0
                BY <3>3 DEF FramesInv
            <4>2. Len(frame_queue') = 0 /\ texture' = 0
                BY <3>2, <4>1
            <4> QED
                BY <3>3, <4>2 DEF FramesInv, FramesAreTheReaders
        <3>4. CASE reader # "none" /\ reader' = "terminated" /\ started' = started
            BY <3>2, <3>4 DEF FramesInv, FramesAreTheReaders
        <3> QED
            BY <3>1, <3>3, <3>4 DEF StartReader
    <2>5. CASE Join
        <3>1. frame_queue' = <<>> /\ texture' = 0
            BY <2>5 DEF Join, Joined
        <3>2. Len(frame_queue') = 0
            BY <3>1
        <3> QED
            BY <3>1, <3>2 DEF FramesInv, FramesAreTheReaders
    <2>6. CASE Render
        <3>1. /\ frame_queue # <<>>
              /\ frame_queue' = Tail(frame_queue) /\ texture' = Head(frame_queue)
              /\ UNCHANGED <<reader, started>>
            BY <2>6 DEF Render
        <3>2. reader' # "none"
            BY <3>1 DEF FramesInv
        <3>3. \A k \in 1..Len(frame_queue) : frame_queue[k] = started
            BY DEF FramesInv, FramesAreTheReaders
        <3>4. Head(frame_queue) = started
            BY <3>1, <3>3, QueueTaken
        <3>5. \A k \in 1..Len(Tail(frame_queue)) : Tail(frame_queue)[k] = started
            BY <3>1, <3>3, QueueTaken
        <3> QED
            BY <3>1, <3>2, <3>4, <3>5 DEF FramesInv, FramesAreTheReaders
    <2>7. CASE Reader
        <3>1. started' = started /\ texture' = texture /\ reader # "none" /\ reader' # "none"
            BY <2>7, ReaderStep DEF popup, Running
        <3>2. CASE UNCHANGED frame_queue
            BY <3>1, <3>2 DEF FramesInv, FramesAreTheReaders
        <3>3. CASE frame_queue' = Append(Room, started)
            <4>1. started > 0
                BY <3>1 DEF Counted
            <4>2. \A k \in 1..Len(frame_queue) : frame_queue[k] = started
                BY DEF FramesInv, FramesAreTheReaders
            <4>3. \A k \in 1..Len(frame_queue') : frame_queue'[k] = started
                BY <3>3, <4>1, <4>2, QueueAppended
            <4> QED
                BY <3>1, <4>3 DEF FramesInv, FramesAreTheReaders
        <3> QED
            BY <2>7, <3>2, <3>3, ReaderStep DEF ReadFrame
    <2> QED
        BY <2>1, <2>2, <2>3, <2>4, <2>5, <2>6, <2>7 DEF Next, Clicks, Worker, Ui
<1>3. FramesInv => FramesAreTheReaders
    BY DEF FramesInv
<1> QED
    BY <1>1, <1>2, <1>3, TypeCorrect, PTL DEF Spec

-----------------------------------------------------------------------------
(* One reader at a time. *)

\* A reader that runs says so, so that Retry is not offered beside it.
LEMMA SaysTryingCorrect == Spec => []SaysTrying
<1>1. Init => SaysTrying
    BY DEF Init, SaysTrying, Running
<1>2. SaysTrying /\ [Next]_vars => SaysTrying'
    <2> SUFFICES ASSUME SaysTrying, [Next]_vars
                 PROVE  SaysTrying'
        OBVIOUS
    <2> USE DEF SaysTrying, Running
    <2>1. UNCHANGED <<reader, trying>> => SaysTrying'
        OBVIOUS
    <2>2. ClickPreview \/ TakeCommand \/ Detect \/ ReleaseCap \/ Render \/ UNCHANGED vars
            => UNCHANGED <<reader, trying>>
        BY DEF ClickPreview, TakeCommand, Detect, ReleaseCap, Render, vars, streams
    <2>3. ClickCancel \/ ClickRetry \/ ClickCamera => UNCHANGED <<reader, trying>>
        BY DEF ClickCancel, ClickRetry, ClickCamera, StopThread
    <2>4. TriggerReader \/ Restart => reader' \in {"begin", "terminated"}
        BY DEF TriggerReader, Restart, StartReader
    <2>5. Join => reader' = "none"
        BY DEF Join, Joined
    <2>6. Begin => trying'
        BY DEF Begin
    <2>7. NoCameraFound \/ NotOpened \/ LoopEnds \/ LoopClosed => reader' = "ended"
        BY DEF NoCameraFound, NotOpened, LoopEnds, LoopClosed, Ends, Goes
    <2>8. OpenPass \/ GrabFrame \/ GrabFails \/ Opened \/ ReadFrame \/ Loop
            => reader \in Running /\ trying' = trying
        BY DEF OpenPass, GrabFrame, GrabFails, Opened, ReadFrame, Loop, Goes, streams
    <2>9. CASE ClickPreview \/ TakeCommand \/ Detect \/ ReleaseCap \/ Render \/ UNCHANGED vars
               \/ ClickCancel \/ ClickRetry \/ ClickCamera
        BY <2>1, <2>2, <2>3, <2>9
    <2>10. CASE TriggerReader \/ Restart \/ Join
        BY <2>4, <2>5, <2>10
    <2>11. CASE Reader
        BY <2>6, <2>7, <2>8, <2>11 DEF Reader
    <2> QED
        BY <2>9, <2>10, <2>11 DEF Next, Clicks, Worker, Ui
<1> QED
    BY <1>1, <1>2, PTL DEF Spec

\* The two histories only ever become true.
LEMMA HistoryStays ==
    ASSUME [Next]_vars, ~again', ~early'
    PROVE  ~again /\ ~early
<1>1. CASE TakeCommand \/ Detect \/ ReleaseCap \/ Join \/ Render \/ TriggerReader \/ Restart
    <2>1. again' = again /\ early' = early
        BY <1>1
        DEF TakeCommand, Detect, ReleaseCap, Join, Joined, Render, TriggerReader, Restart
    <2> QED
        BY <2>1
<1>2. CASE ClickCancel \/ ClickRetry \/ ClickCamera
    <2>1. PICK button : StopThread(button)
        BY <1>2 DEF ClickCancel, ClickRetry, ClickCamera
    <2>2. again' = again
        BY <2>1 DEF StopThread
    <2>3. early => early'
        BY <2>1, Zenon DEF StopThread
    <2> QED
        BY <2>2, <2>3
<1>3. CASE ClickPreview
    <2>1. early' = early
        BY <1>3 DEF ClickPreview
    <2>2. again => again'
        BY <1>3, Zenon DEF ClickPreview
    <2> QED
        BY <2>1, <2>2
<1>4. CASE Reader
    <2>1. UNCHANGED popup
        BY <1>4, ReaderStep
    <2> QED
        BY <2>1 DEF popup
<1>5. CASE UNCHANGED vars
    BY <1>5 DEF vars
<1> QED
    BY <1>1, <1>2, <1>3, <1>4, <1>5 DEF Next, Clicks, Worker, Ui

\* OneReader is not inductive: what ends the program is decided when a start finds a
\* reader, and that there is none is decided when the start was asked for.
LEMMA OrderInvCorrect == Spec => []OrderInv
<1>1. Init => OrderInv
    BY DEF Init, OrderInv, Orderly
<1>2. TypeOK /\ Counted /\ SaysTrying /\ OrderInv /\ [Next]_vars => OrderInv'
    <2> SUFFICES ASSUME TypeOK, Counted, SaysTrying, OrderInv, [Next]_vars, ~again', ~early'
                 PROVE  Orderly'
        BY DEF OrderInv
    <2>1. Orderly /\ ~again /\ ~early
        BY HistoryStays DEF OrderInv
    <2>2. commands \in Nat
        BY DEF TypeOK
    <2> USE DEF Orderly
    <2>3. CASE ClickPreview
        <3>1. ~(commands > 0) /\ ~enable /\ worker # "trigger"
            BY <2>3, Zenon DEF ClickPreview
        <3> QED
            BY <2>1, <2>2, <2>3, <3>1 DEF ClickPreview, streams
    <2>4. CASE ClickCancel \/ ClickRetry \/ ClickCamera
        <3>1. PICK button \in {"cancel", "retry", "camera"} :
                 /\ StopThread(button)
                 /\ button = "cancel" => ~enable' /\ ~isopen'
                 /\ button # "cancel" => UNCHANGED <<enable, isopen>>
                 /\ button = "retry" => ~trying
            BY <2>4 DEF ClickCancel, ClickRetry, ClickCamera, ThenRestart
        <3>2. reader # "begin" /\ worker # "trigger"
            BY <3>1, Zenon DEF StopThread
        <3>3. /\ ui = "idle" /\ isopen /\ ui' = "release" /\ why' = button
              /\ UNCHANGED <<commands, worker, reader>>
            BY <3>1 DEF StopThread
        <3>4. button = "retry" => reader \in {"none", "ended"}
            BY <2>1, <3>1, <3>2 DEF SaysTrying, TypeOK
        <3>5. ~enable'
            BY <2>1, <3>1, <3>3
        <3> QED
            BY <2>1, <2>2, <3>1, <3>2, <3>3, <3>4, <3>5
    <2>5. CASE TakeCommand
        BY <2>1, <2>2, <2>5 DEF TakeCommand, streams
    <2>6. CASE TriggerReader
        BY <2>1, <2>2, <2>6 DEF TriggerReader, StartReader
    <2>7. CASE Detect
        BY <2>1, <2>2, <2>7 DEF Detect, streams
    <2>8. CASE ReleaseCap
        BY <2>1, <2>2, <2>8 DEF ReleaseCap
    <2>9. CASE Join
        BY <2>1, <2>2, <2>9 DEF Join, Joined, TypeOK
    <2>10. CASE Restart
        BY <2>1, <2>2, <2>10 DEF Restart, StartReader, Counted
    <2>11. CASE Render
        BY <2>1, <2>2, <2>11 DEF Render
    <2>12. CASE Reader
        <3>1. /\ UNCHANGED <<commands, worker, enable, isopen, ui, why>>
              /\ reader \notin {"none", "ended"}
              /\ reader' # "terminated"
            BY <2>12, ReaderStep DEF popup, Running
        <3> QED
            BY <2>1, <3>1
    <2>13. CASE UNCHANGED vars
        BY <2>1, <2>13 DEF vars
    <2> QED
        BY <2>3, <2>4, <2>5, <2>6, <2>7, <2>8, <2>9, <2>10, <2>11, <2>12, <2>13
        DEF Next, Clicks, Worker, Ui
<1> QED
    BY <1>1, <1>2, TypeCorrect, SaysTryingCorrect, PTL DEF Spec

\* No start finds a reader that was not joined, and so none ends the program, unless a
\* second preview was started before the first had its popup or a button came too early.
THEOREM OneReaderCorrect == Spec => []OneReader
<1>1. OrderInv => OneReader
    BY DEF OrderInv, Orderly, OneReader
<1> QED
    BY <1>1, OrderInvCorrect, PTL

\* Retry waits for no reader that still runs, with the same exceptions.
THEOREM RetryFindsItEndedCorrect == Spec => []RetryFindsItEnded
<1>1. OrderInv => RetryFindsItEnded
    BY DEF OrderInv, Orderly, RetryFindsItEnded
<1> QED
    BY <1>1, OrderInvCorrect, PTL
=============================================================================
