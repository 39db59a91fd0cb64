--------------------------- MODULE PreviewDecoder ---------------------------
(***************************************************************************)
(* The decoder of the preview popup (src/src/master/popup/preview): the UI *)
(* thread with its buttons, the background worker that opens the popup     *)
(* (src/src/master/main.cpp) and the reader thread, which opens the stream *)
(* (update_decoder) and queues its frames.                                 *)
(*                                                                         *)
(* The variables enable, isopen, stream_open, trying and cap are shared    *)
(* without a lock, frame_queue under one but when it is emptied.           *)
(*                                                                         *)
(* Atomicity.  Steps end where a thread has written a variable another one *)
(* reads, and where it waits.  Readers are numbered; a frame is the number *)
(* of its reader.  The 300 attempts of a pass are one step.  That cap is   *)
(* released by one thread while another one reads from it is taken for     *)
(* harmless, which cv::VideoCapture does not promise.                      *)
(***************************************************************************)
EXTENDS Integers, Sequences

CONSTANTS
    MaxQueueSize,   \* MAX_QUEUE_SIZE
    MaxRedecode,    \* MAX_REDECODE
    MaxReaders      \* bound on the readers started by a click

ASSUME DecoderAssumption ==
    /\ MaxQueueSize \in Nat \ {0}
    /\ MaxRedecode \in Nat \ {0}
    /\ MaxReaders \in Nat

VARIABLES
    commands,       \* "preview_start" in command_queue
    worker,         \* the background worker: "idle" or in trigger(true)
    enable,
    isopen,
    ui,             \* "idle", or what _stop_thread has still to do
    why,            \* the button that called it
    reader,         \* the thread: "none" when not joinable, "ended" when it is and has
                    \* returned, "terminated" when the program has called std::terminate
    pass,           \* its attempts at opening
    stream_open,
    trying,
    cap,            \* isOpened
    frame_queue,
    texture,        \* the frame in gl_texture, or 0
    started,        \* readers so far
    clicks,         \* clicks that start a reader
    early,          \* a button was clicked before the reader it stops had begun
    again           \* a second preview was started before the popup of the first opened

vars == <<commands, worker, enable, isopen, ui, why, reader, pass, stream_open, trying,
          cap, frame_queue, texture, started, clicks, early, again>>

\* What the reader leaves alone, and what the UI thread and the worker do.
popup == <<commands, worker, enable, isopen, ui, why, clicks, early, again, started, texture>>
streams == <<pass, stream_open, trying, cap, frame_queue>>

Init ==
    /\ commands = 0
    /\ worker = "idle"
    /\ enable = FALSE
    /\ isopen = FALSE
    /\ ui = "idle"
    /\ why = "none"
    /\ reader = "none"
    /\ pass = 0
    /\ stream_open = FALSE
    /\ trying = FALSE
    /\ cap = FALSE
    /\ frame_queue = <<>>
    /\ texture = 0
    /\ started = 0
    /\ clicks = 0
    /\ early = FALSE
    /\ again = FALSE

-----------------------------------------------------------------------------
(* `reader = std::thread(...)`, after which the UI or the worker goes on.  The  *)
(* program ends if the old thread is joinable.                                 *)
StartReader(uiThen, workerThen) ==
    \/ /\ reader = "none"
       /\ reader' = "begin"
       /\ started' = started + 1
       /\ ui' = uiThen
       /\ worker' = workerThen
    \/ /\ reader # "none"
       /\ reader' = "terminated"
       /\ ui' = "terminated"
       /\ worker' = "terminated"
       /\ started' = started

-----------------------------------------------------------------------------
(* Opening the popup. *)

\* The camera list; an open popup keeps clicks from it.
ClickPreview ==
    /\ ui = "idle"
    /\ ~isopen
    /\ clicks < MaxReaders
    /\ clicks' = clicks + 1
    /\ commands' = commands + 1
    /\ again' = (again \/ commands > 0 \/ enable \/ worker = "trigger")
    /\ UNCHANGED <<worker, enable, isopen, ui, why, early, reader, started, streams, texture>>

\* The worker takes the command and sets enable ...
TakeCommand ==
    /\ worker = "idle"
    /\ commands > 0
    /\ commands' = commands - 1
    /\ enable' = TRUE
    /\ worker' = "trigger"
    /\ UNCHANGED <<isopen, ui, why, clicks, early, again, reader, started, streams, texture>>

\* ... and only then starts the reader.
TriggerReader ==
    /\ worker = "trigger"
    /\ StartReader(ui, "idle")
    /\ UNCHANGED <<commands, enable, isopen, why, clicks, early, again, streams, texture>>

\* The UI thread, each frame.
Detect ==
    /\ ui = "idle"
    /\ enable
    /\ enable' = FALSE
    /\ isopen' = TRUE
    /\ UNCHANGED <<commands, worker, ui, why, clicks, early, again, reader, started, streams,
                   texture>>

-----------------------------------------------------------------------------
(* The buttons of the popup, each of which calls _stop_thread. *)

\* The first thing _stop_thread does.  A thread that has not begun is still to set
\* stream_open itself.
StopThread(button) ==
    /\ ui = "idle"
    /\ isopen
    /\ ui' = "release"
    /\ why' = button
    /\ stream_open' = FALSE
    /\ early' = (early \/ reader = "begin" \/ worker = "trigger")
    /\ UNCHANGED <<commands, worker, again, reader, started, pass, trying, cap, frame_queue,
                   texture>>

ClickCancel ==
    /\ StopThread("cancel")
    /\ enable' = FALSE
    /\ isopen' = FALSE
    /\ UNCHANGED clicks

ThenRestart == clicks < MaxReaders /\ clicks' = clicks + 1 /\ UNCHANGED <<enable, isopen>>

\* Variant offered at any time.
ClickRetryAlways == StopThread("retry") /\ ThenRestart

\* Offered while not trying.
ClickRetry == ~trying /\ StopThread("retry") /\ ThenRestart

\* Another camera; offered beside a picture.
ClickCamera == texture # 0 /\ StopThread("camera") /\ ThenRestart

ReleaseCap ==
    /\ ui = "release"
    /\ ui' = "join"
    /\ cap' = FALSE
    /\ UNCHANGED <<commands, worker, enable, isopen, why, clicks, early, again, reader,
                   started, pass, stream_open, trying, frame_queue, texture>>

\* Variant that does not join.
NotJoined ==
    /\ ui = "join"
    /\ ui' = IF why = "cancel" THEN "idle" ELSE "restart"
    /\ texture' = 0
    /\ UNCHANGED <<commands, worker, enable, isopen, why, clicks, early, again, reader,
                   started, pass, stream_open, trying, cap>>

Joined ==
    /\ ui = "join"
    /\ reader \in {"none", "ended"}
    /\ ui' = IF why = "cancel" THEN "idle" ELSE "restart"
    /\ reader' = "none"
    /\ texture' = 0
    /\ UNCHANGED <<commands, worker, enable, isopen, why, clicks, early, again, started,
                   pass, stream_open, trying, cap>>

\* Variant that leaves the queue as it is.
JoinOnly == Joined /\ UNCHANGED frame_queue

\* The thread is waited for, then its frames are dropped.  Cancel has closed the popup;
\* the others start a new reader.
Join == Joined /\ frame_queue' = <<>>

Restart ==
    /\ ui = "restart"
    /\ StartReader("idle", worker)
    /\ UNCHANGED <<commands, enable, isopen, why, clicks, early, again, streams, texture>>

\* Each frame of the UI shows the oldest frame queued, whether the popup is open or not.
Render ==
    /\ ui = "idle"
    /\ frame_queue # <<>>
    /\ frame_queue' = Tail(frame_queue)
    /\ texture' = Head(frame_queue)
    /\ UNCHANGED <<commands, worker, enable, isopen, ui, why, clicks, early, again, reader,
                   started, pass, stream_open, trying, cap>>

-----------------------------------------------------------------------------
(* The reader: update_decoder. *)

Goes(from, to) == reader = from /\ reader' = to /\ UNCHANGED popup

Ends(from) ==
    /\ Goes(from, "ended")
    /\ trying' = FALSE
    /\ UNCHANGED <<pass, stream_open, cap, frame_queue>>

Begin ==
    /\ Goes("begin", "opening")
    /\ pass' = 0
    /\ stream_open' = FALSE
    /\ trying' = TRUE
    /\ UNCHANGED <<cap, frame_queue>>

\* The camera is not in the list.
NoCameraFound == pass = 0 /\ Ends("opening")

\* cap.open succeeds or not; in either case there is another pass.
OpenPass ==
    /\ pass < MaxRedecode
    /\ pass' = pass + 1
    /\ \/ Goes("opening", "grabbing") /\ cap' = TRUE
       \/ Goes("opening", "opening") /\ cap' = FALSE
    /\ UNCHANGED <<stream_open, trying, frame_queue>>

\* A frame, though the UI may have asked to stop since.
GrabFrame ==
    /\ Goes("grabbing", "opening")
    /\ cap
    /\ stream_open' = TRUE
    /\ UNCHANGED <<pass, trying, cap, frame_queue>>

\* No frame in all the attempts.
GrabFails ==
    /\ Goes("grabbing", "opening")
    /\ cap' = (cap /\ stream_open)
    /\ UNCHANGED <<pass, stream_open, trying, frame_queue>>

Opened == pass = MaxRedecode /\ stream_open /\ Goes("opening", "reading") /\ UNCHANGED streams

NotOpened == pass = MaxRedecode /\ ~stream_open /\ Ends("opening")

\* while(stream_open), and the pipeline may have been closed.
LoopEnds == (~stream_open \/ ~cap) /\ Ends("reading")

\* Variant that is off by one.
RoomLate == IF Len(frame_queue) > MaxQueueSize THEN Tail(frame_queue) ELSE frame_queue

\* The oldest frame is dropped when there is no room.
Room == IF Len(frame_queue) >= MaxQueueSize THEN Tail(frame_queue) ELSE frame_queue

\* A frame is read, or the stream has none, which the reader sleeps over.
ReadFrame ==
    /\ Goes("reading", "looping")
    /\ stream_open
    /\ cap
    /\ frame_queue' \in {Append(Room, started), frame_queue}
    /\ UNCHANGED <<pass, stream_open, trying, cap>>

\* Variant that does not look at isopen.
LoopForever == Goes("looping", "reading") /\ UNCHANGED streams

\* Once round the loop.
Loop == isopen /\ Goes("looping", "reading") /\ UNCHANGED streams

LoopClosed == ~isopen /\ Ends("looping")

-----------------------------------------------------------------------------
Clicks == ClickPreview \/ ClickCancel \/ ClickRetry \/ ClickCamera

Worker == TakeCommand \/ TriggerReader

Ui == Detect \/ ReleaseCap \/ Join \/ Restart \/ Render

Reader ==
    \/ Begin \/ NoCameraFound \/ OpenPass \/ GrabFrame \/ GrabFails
    \/ Opened \/ NotOpened
    \/ LoopEnds \/ ReadFrame \/ Loop \/ LoopClosed

Next == Clicks \/ Worker \/ Ui \/ Reader

Spec == Init /\ [][Next]_vars

(***************************************************************************)
(* Fairness.  The three threads run.  Clicks are not fair.                 *)
(***************************************************************************)
LiveSpec ==
    /\ Spec
    /\ WF_vars(Worker)
    /\ WF_vars(Ui)
    /\ WF_vars(Reader)

-----------------------------------------------------------------------------
(* Properties. *)

\* Where a reader is while it runs.
Running == {"opening", "grabbing", "reading", "looping"}

TypeOK ==
    /\ commands \in 0..MaxReaders
    /\ worker \in {"idle", "trigger", "terminated"}
    /\ enable \in BOOLEAN
    /\ isopen \in BOOLEAN
    /\ ui \in {"idle", "release", "join", "restart", "terminated"}
    /\ why \in {"none", "cancel", "retry", "camera"}
    /\ reader \in {"none", "begin", "ended", "terminated"} \cup Running
    /\ pass \in 0..MaxRedecode
    /\ stream_open \in BOOLEAN
    /\ trying \in BOOLEAN
    /\ cap \in BOOLEAN
    /\ frame_queue \in Seq(1..MaxReaders)
    /\ Len(frame_queue) <= MaxQueueSize
    /\ texture \in 0..MaxReaders
    /\ started \in 0..MaxReaders
    /\ clicks \in 0..MaxReaders
    /\ early \in BOOLEAN
    /\ again \in BOOLEAN

\* The reader is never replaced while it can still be joined, unless a second preview
\* was started before the first had its popup or a button was clicked before the
\* reader had begun.
OneReader == reader = "terminated" => again \/ early

\* No frame of a reader outlives it: none is queued or shown when the next one starts.
FramesAreTheReaders ==
    /\ \A i \in 1..Len(frame_queue) : frame_queue[i] = started
    /\ texture \in {0, started}

\* Retry waits for no reader but one that has returned, unless it was clicked before
\* the reader had begun or a second preview is about to start one.
RetryFindsItEnded ==
    why = "retry" /\ ui # "idle" /\ ~early /\ ~again => reader \in {"none", "ended"}

\* Cancel and another camera always give the UI thread back, unless the program ends;
\* Retry does unless it was clicked before a reader had begun, which then overwrites
\* stream_open and reads on for as long as the popup is open.
StopReturns ==
    ui # "idle" ~> ui \in {"idle", "terminated"} \/ (why = "retry" /\ early)
=============================================================================
