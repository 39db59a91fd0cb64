# GoPro Controller: a formal model

TLA+ modules, TLC runs and TLAPS proofs for the GoPro Controller: **servers**
(usually Raspberry Pis) that drive the cameras plugged into them over HTTP, and
**masters**, desktop programs that talk to any number of servers over WebSockets.
All paths below are relative to `src/` of the program (`server/` is
`src/src/server/`, `master/` is `src/src/master/`).

    tlc -workers 2 -config registry.cfg MCCameraRegistry.tla     # a run
    tlapm MasterSyncProofs.tla                                   # a proof

## 1. The system

| component | state | operations | who touches it |
|---|---|---|---|
| **Camera registry** (server: `controller/command.cpp`, `controller/GoProController.cpp`, `private/private.cpp`) | `camera_ips`, `camera_name`, `camera_alive_ips`, the file `record.txt` | add, delete, clean, rename, scan, list; commands for all cameras; load and save of the record | a detached thread per client message, mDNS threads, the ping loop; `ips_mutex`, `ips_alive_mutex` |
| **WebSocket dispatch** (server: `main.cpp`) | `broadcast_addrs`, `download_mtx` | `ExecuteCommand`, `QueryAction`, `WebcamAction`, `ModeAction`, `MediaAction`, `PreviewAction` | every client |
| **Queries and settings** (server: `controller/query.cpp`) | `camera_hw`, `applying_cancel` | status, hardware, set a setting, apply a preset to all, cancel it | message threads |
| **Media on the server** (`controller/media.cpp`) | the folder `res` | fetch the last, one or many files of a camera; lists, thumbnails | message threads under `download_mtx`; the file server on port 8080 reads the folder |
| **UDP relay** (server: `main.cpp`) | `broadcast_addrs`, a socket per entry | forwards preview packets to the connected masters; starts and stops the streams of cameras | UDP loop, connects and disconnects (`broadcast_mtx`), message threads |
| **Master synchronisation** (`GoProMaster.cpp`) | `servers`, `cameras`, the flags `ipQueryFinish`, `stateQueryFinish`, `mediaQueryFinish` | connect, disconnect, clean; `update()` polls; `processMessage` enters the replies | UI, the update thread, a thread per reply, the WebSocket client's thread; `camera_mtx` |
| **Downloads of the master** (`GoProMaster.cpp`) | `downloading_media_flag`, `_total`, `_done` | last, all or single media; the `media:url` reply | a thread per download, a thread per reply |
| **Apply pipeline** (`GoProMaster.cpp`, `master/main.cpp`, the inspector, preset and preview windows) | `applying_all`, `applying_all_count` | apply from a camera or a preset, apply from the preview, stop | UI, sender threads, replies; no lock |
| **Preview** (`master/popup/preview`, `master/main.cpp`) | `enable`, `isopen`, `stream_open`, `trying`, `cap`, `frame_queue`, `reader` | select, switch, retry, cancel | UI, background worker, reader thread; `frame_mutex` for the queue |
| **Windows, popups, settings files** (`master/windows`, `master/popup`, `io.cpp`) | what is shown, JSON files | drawing, saving | UI, `background_worker` |
| **Tables and helpers** (`common/`) | constants | look-ups, curl calls | everybody |

A master polls each server with `command:ip`, `query:getall` and `media:lastmedia`;
a server answers from its registry and from HTTP calls to the cameras that its ping
loop found alive. For a download a master asks a server, the server stores the
camera's file in `res` and replies with its name, and the master gets it over HTTP.

What is hard here: nearly every operation runs on a thread of its own; mutexes guard some
accesses of a variable and not others; locks are held over HTTP calls; the record is a file
that is truncated before it is written; replies and messages overtake each other and
connections; flags are tested and set in two steps, and set back by whichever reply comes; a
thread is stopped by a variable it may itself set again. `PROJECT.json` lists each hazard at
its line with the properties that would catch it, or a note saying why no property does.

What makes each component correct:

- registry: no camera twice; the record is good enough for a restart; the alive list
  follows the list and the cables; commands end;
- synchronisation: the view of a master comes to match the server; a silent camera
  goes offline; polling neither stacks up nor stops; entries say where they are from;
- downloads: a master gets the file it asked for; nothing is overwritten; a download
  comes to an end;
- apply: applies do not overlap, the cameras end with the settings of the last apply and
  no mixture of two, its source keeps its own, every answer is counted;
- relay and preview: an entry and a socket per connection, the cameras selected stream
  and no others, the picture comes and comes back;
- decoder: one reader at a time, no frame of an old one, stopping gives the UI back.

## 2. Modules

| module | what it is |
|---|---|
| `CameraRegistry` | the registry of a server with all its threads, the file, the pings, cables and restarts |
| `DurableRegistry` | the abstract specification: a set of cameras, one command at a time, and a copy that a restart brings back |
| `MasterSync` | a master's connections, update thread, replies and flags against the servers |
| `MediaDownload` | downloads of several masters from several servers, their threads, the mutex, the folder, the files |
| `ApplySettings` | a master's apply and stop buttons, the messages, the servers that write setting by setting, the count of replies |
| `Preview` | popups, start and stop messages, the relay with its entries and sockets, connections |
| `PreviewDecoder` | one popup in detail: the UI thread, the background worker, the reader and its queue |
| `MCCameraRegistry`, `MCMasterSync`, `MCMediaDownload`, `MCApplySettings`, `MCPreview`, `MCPreviewDecoder` | small instances for TLC |
| `CameraRegistryProofs`, `CameraRegistryRefinement`, `MasterSyncProofs`, `MediaDownloadProofs`, `ApplySettingsProofs`, `PreviewProofs`, `PreviewStreamProofs`, `PreviewDecoderProofs` | theorems |

The modules meet at narrow places, and each takes the other's side as a choice.
`MasterSync` and `ApplySettings` let a server's list and alive cameras change at any time, which
`CameraRegistry` says in detail. `MediaDownload` and `ApplySettings` start from the
entries that `MasterSync` keeps. `Preview` has of a popup's reader only how far it has
got; its passes, its queue and the threads that start and stop it are `PreviewDecoder`.

Variables and actions keep the names of the code; `map` in `PROJECT.json` gives the
lines each definition stands for. Definitions commented as *Variant* are plausible
slips used to see that the properties bite; nothing refers to them.

### CameraRegistry

A handler is a program counter `pc[h]`. A command that begins with `ips_mutex` is
received first (`ReceiveLocked`) and then waits, `pc[h]` being the command it waits
with, until the mutex is free and the thread gets it (`Waits`, `LockedStep`). A section that holds
`ips_mutex` is one step up to its first file access, because nobody sees inside it
except through the unlocked accesses, which are steps of their own: the sink's duplicate check
(`SinkCheck`, `SinkDecide`), the size of a snapshot (`SizeIpBuffer`,
`SizeAliveBuffer`), a rename, and the record. `_updateRecord` is `OpenRecord`
(truncates), `WriteLine` per turn of its loop, and `CloseRecord` (the stream's lines
reach the disk). Two writers at once (a rename has no lock) leave a torn file:
`Flushes` gives what can be in it, with `Torn` for an address cut in two. Iterating a
vector that another thread changes is undefined; `SinkDecide` then answers either
way. `Restart` may happen at any point and loads the record as it is
(`LoadedIps`, `LoadedNames`: only the first word of a name is read back).
A command for all cameras counts with its snapshot or its holding of the lock
(`webcam*`); its HTTP calls have timeouts and end.

### MasterSync

A query and its answer are one `talk`, which is `asked`, then `arrived` when the
server has answered and the client has started a thread for the reply, for a state
reply `listing` between the reset of the flag and `camera_mtx`, and then free.
`update()` has a step between its checks (`PollCheck`) and its set-and-send
(`PollSend`). `LinkLost` drops what is under way but not the replies that already have a
thread; `OnClose` runs later, on the client's thread. A talk carries the number of the
connection it was sent over (`conn`), since a reply that has its thread is entered whichever
connection stands by then. `crossed` is a history variable: it notes, since the last
`onclose` of a server, whether the update thread has set a flag after it (`"stray"`) and
whether a reply of an earlier connection has reset one (`"late"`). A server counts with two sets,
its list and its alive cameras, which change at any time: what `CameraRegistry` says
of them in detail.

### MediaDownload

The thread of a download does each access of the atomics flag, total and done as a
step, and so do the threads of the replies. The server's handler takes
`download_mtx`, chooses a name that is free, stores the file, replies and lets go.
`files` is what a master saved under the name of a camera, told by the camera it is
from. The browser's two downloads differ in how many files they fetch, and one
stands for them. Entries are online and have names; file names derived from camera
names are taken as distinct. `Fault` counts what goes wrong: no answer from a
camera, a download that breaks off, a lost message, a cleaned folder. libhv's
`downloadFile` and the file server are external.

### ApplySettings

The n-th apply writes the value n, so that a camera's settings tell which applies they
are from. `Click` is Quick Apply All of the inspector and Apply of the preset manager,
which start a sender thread and set `applying_all` after it (`MarkApplying`); both are
disabled meanwhile. `ClickPreview` is the same in the preview popup, where the button
is never disabled and the order is the other way round (`SendPreview`). Both
click actions send with a thread that gets to one server after the other (`SendTo`).
On a server `setSettingAll` clears `applying_cancel`, chooses the alive cameras
but for the source (`StartApply`), writes one setting after the other (`SetSetting`,
`MissSetting`) and looks at the flag only when it builds its report (`Report`). A
thread whose connection is gone goes on writing (`"orphan"`). `applyAllFeedback` of the
master is `ReadCount`, `WriteCount`, `TestCount`, since `applying_all_count++`
has no lock; the count is of all replies since the start. A setting's value and name,
and the preset's mode, are abstracted to an index into the settings that the mode selects.

### Preview

`OnOpen`, `OnClose` and the loop over the entries hold `broadcast_mtx`, and each is a step.
The master sees the end of a connection before the server does (`LoseLink`, then `OnClose`):
a channel between the two is in `ended`, and the master may have connected from another port
by then. `NewFds` is any free descriptor, as POSIX allows them to be used again.
`PreviewAction` is a message's thread on the server with its call to the camera, in any
order among messages; "stop" for all cameras of a server is one step for all of them, and it
is taken to reach every camera, not those alive only. `Relay` sends a packet of any camera
to every host in the entries, as the code does; only a reader that still reads makes a
picture of it. A reader is `"trying"` for its stream, `"reading"`, `"dropped"` (`cap.read`
fails, and is tried again) or `"over"`, from which `Retry` starts the next one; the last
picture stays on the screen meanwhile. A reader may give up (`GiveUp`) only when nothing
comes to it and no message of its master is under way: its 600 attempts to open the stream
are taken to outlast a message, whose HTTP call ends after 1.5 s. A double click is taken
until the popup is open, a second one too. `overtaken`, `lost` and `twice` are history
variables: whether two messages have been handled in the other order, whether anything has
failed, and whether a second preview was started before the first popup was open.

### PreviewDecoder

`_stop_thread` is `StopThread` (clears `stream_open`), `ReleaseCap`, `Join` (waits for the
reader, then empties the queue). The reader is `update_decoder`: `Begin` clears
`stream_open` and sets `trying`; MAX_REDECODE passes of `OpenPass` and then `GrabFrame` or
`GrabFails`, 300 attempts of a pass being one step; `Opened` or `NotOpened`; the loop
`ReadFrame`, `Loop`. `TakeCommand` and `TriggerReader` are the background worker's
`trigger(true)`, `Detect` the UI thread's look at `enable`. `std::thread`'s assignment to a
joinable thread ends the program: `"terminated"`. That one thread releases `cap` while
another reads from it is taken for harmless. Frames are the number of their reader;
rotation, layout and GStreamer's own decoding are left out.

## 3. Runs

Passing runs (each finishes; symmetric where only safety is checked):

| run | instance | shows |
|---|---|---|
| `registry` | 3 cameras, 2 clients, 1 restart; add, delete, clean, webcam | `NoDuplicates`, `AliveOnce`, `RecordCoversList`, `DurableRestart`, and that the registry implements `DurableRegistry` |
| `registry_live` | 2 cameras, 1 client that adds, deletes, renames and starts webcams, cables, 1 restart; fair | `GoneLeavesAlive`, `ReachableBecomesAlive` |
| `registry_wait` | 1 camera, 2 clients with every command but rename, 1 mDNS thread, a disk that may refuse; fair | `CommandsEnd`: a command that waits for `ips_mutex` behind others gets it; `FoundBecomesListed` |
| `sync` | 1 server, 1 camera, all three queries, 2 talks, 2 connections; fair | `NoStacking`, `FlagsAreOwed`, `ListIsMirrored`, `SilentGoesOffline`, `PollingResumes` |
| `media` | 2 masters, 1 server, 2 cameras, 2 threads, 2 requests, 2 downloads, 1 fault | `SavedIsAsked` without faults, `StoredStays` with them |
| `apply` | 1 server, 2 cameras, 2 settings, 2 applies, 1 cancel, 1 fault; fair | `SyncedToAll`, `SourceKept`, `NoOverlap`, `EveryApplyCounts` |
| `preview` | 1 master, 1 server, 2 cameras, 3 ports, 2 sockets, 3 clicks; fair | `EntriesAreChannels`, `StreamsAsSelected`, `PictureComes`, `PictureResumes` |
| `decoder` | a queue of 2, 2 passes, 4 readers; fair | `OneReader`, `FramesAreTheReaders`, `RetryFindsItEnded`, `StopReturns` |

Each also checks `TypeOK`, but for `registry_live` and `registry_wait`, which are instances of
the same module as `registry`.

Two cameras and two clients are enough for every race of the registry: each is between two
accesses, of one list; the third camera lets a deletion leave a gap in the middle. One
camera, listed at most once (`registry_wait`), is enough to hold every command up at the
lock: what a command waits for is who holds `ips_mutex`, and with two cameras the list is
longer and the waiting the same. `FoundBecomesListed` is about that one camera: if another
is added while the sink looks, the vector changes under it and it may find what is not
there. Servers are independent of each other in `MasterSync` but for the order in which they
are polled, so the runs have one; two connections let what is left of the first meet the
second. `MaxOrphans` is 0 in `sync`: nothing reads the entries it counts. Two masters on one
server are needed for a race for a file name, and two requests for replies that overtake
each other. Two settings and two cameras let a cancel, a second apply or a fault come
between two settings of a camera and between two cameras; a third apply adds nothing to what
two can do to each other on one server, where the first has ended when the second can be
clicked (two servers are `apply_mixed`). Three ports let a master connect again twice before
the server has seen its first channel end, and two sockets let it then run out of them. Four
readers allow a retry after a retry; a queue of two has a middle state between empty and
full.

`MaxCameras`, `MaxRestarts`, `MaxConnects`, `MaxClicks`, `MaxFaults`, `MaxOrphans`,
`MaxApplies`, `MaxAgain`, `MaxStops`, `MaxReaders`, and the sizes of `Talks`, `Requests`,
`Downloaders`, `Ports` and `Fds` are the bounds of the instances; `MaxQueueSize` and
`MaxRedecode` are constants of the code (`MAX_QUEUE_SIZE`, `MAX_REDECODE`), taken smaller.
The two `media` runs do not check for deadlock: when the users have made their `MaxClicks`
downloads, nothing need happen any more. Nor does `decoder`, whose program may end
in `std::terminate` and whose user may stop clicking.

Runs that find a disagreement between the code and what is said about it:

| run | what TLC shows |
|---|---|
| `sync_stuck` | a disconnect between check and set leaves a flag set, and after a reconnect the server is never asked again |
| `media_stuck` | a browser download leaves the flag on, so that later downloads do nothing |
| `apply_mixed` | 2 servers, 3 applies: the count of replies is never reset, so that the second apply ends with its first reply; the third overlaps it on the slower server, whose camera ends with settings of the second |
| `preview_wrong` | 2 masters, 2 servers: every packet goes to every master, so that a popup shows the camera another master selected |

`sync_stuck` asks `KeepsPolling`: a connected server is polled for ever. `sync` asks the
same after two connections (`PollingResumes`) but for the one case that `sync_stuck` shows,
a flag set after `onclose` (`"stray"` in `crossed`), and finds no other. `ListIsMirrored`,
`SilentGoesOffline` and `FlagsAreOwed` make the same exception. `NoStacking` makes one for a
reply of an earlier connection that comes late: it resets the flag of a query it does not
answer, and without the exception TLC finds two queries at once. `apply` and `apply_mixed`
ask the same `SyncedToAll`: it needs one server, or no third apply.

What the passing runs leave out, beyond the bounds:

- in `registry` no mDNS thread runs, and `addCameras` checks and pushes in one section of
  the lock: `NoDuplicates` is about commands and restarts. The unlocked check of the sink
  (`command.cpp:23`) beside an add or a second mDNS thread does list a camera twice (section
  5);
- `DurableRestart` speaks of restarts outside a save. What a crash during a save leaves is
  permitted by `DurableRegistry`, not excluded by it;
- `apply` has one server and no apply from the preview (`MaxAgain = 0`), so that two replies
  never meet and `applying_all` never ends early; the first is in section 5, the second is
  `apply_mixed`;
- `StreamsAsSelected` and `PictureComes` are about undisturbed use (`Undisturbed`): no
  failure, no message that overtakes another of its master, no second preview before the
  popup is open. With one of these TLC refutes `StreamsAsSelected`; the code does nothing
  about it.

### Fairness

Threads that have started run on (weak fairness of their steps): their HTTP calls have
timeouts of 1 to 1.5 s, the loops of `update()` never end. Waiting for `ips_mutex` or
`download_mtx` is strongly fair, per thread (`LockedStep`): each holder gives the mutex
back, and the systems this runs on do not pass a waiter over for ever (C++ does not promise
it). Users, cables, networks, crashes and mDNS announcements are not fair. The record's
writer is fair as a whole: it may fail to open the file every time.

In `ApplySettings` the threads of senders, messages and replies run on, and the UI thread
finishes a click. In `Preview` message threads run on and the popup opens; a camera that
streams goes on sending, and its packets come to a master that is connected and in the
entries (`Flows`), for a reader that is trying or reading to find. That a dropped stream
comes back is not fair, nor is a click on Retry: `PictureResumes` is about a reader that
tries. Connecting, and `OnClose`, are not fair either: it does not need the server to see
the end of the old connection. In `PreviewDecoder` the three threads run on, each as a
whole: a reader may fail to grab or to open every time, and the number of passes ends it.

## 4. Proofs

Every theorem is about `Spec` and any values of the constants.

- **Registry.** `TypeCorrect`. What saving needs and what the list needs are two arguments.
  `SaveInvCorrect` assumes `SavesLocked` (no rename, the one command that writes the record
  without the mutex): a thread in the writer holds the mutex (`HoldersOnly`) and its stream
  holds the first lines of the list (`WriterOnTrack`), however many mDNS threads push and
  save. `NoDuplicatesCorrect` assumes `OneFinder`. The sink of an mDNS thread looks for the
  camera without the mutex, so there may be only one such thread and no client that adds or
  deletes beside it (with a second one TLC finds a camera listed twice), or
  none and any clients (`registry`); and a rename may tear the record, which only a restart
  would show. `NoDuplicates` is not inductive: `DistinctInv` adds that the sink's copy of
  the list is the list unless that has been emptied (`SinkOnTrack`), and, since a restart
  takes the list from the file, that the record's addresses are distinct (`RecordDistinct`,
  from `SaveInv`). `AliveOnceCorrect`: a round's answered cameras and those to be pinged are
  all different (`RoundDistinct`) because its copy was.
- **Refinement.** `RegistryImplementsDurable`, under `Dependable`: no renames, and a record
  that opens; any number of clients and of mDNS threads. From `SaveInv`, a step of the
  registry is a step of `DurableRegistry` or a stutter: taking the lock to add is `Add`,
  pushing a camera that two threads found at once `FindAgain`, `OpenRecord` `Truncate`,
  `CloseRecord` `Save`, and so on. The abstract list is a set, so that duplicates do not
  matter to it. `RecordCoversListCorrect` and `DurableRestartCorrect` follow from the
  abstract specification's `Covered`.
- **Synchronisation.** `TypeCorrect`; `NoStackingCorrect` and `FlagsAreOwedCorrect`, with no
  assumption beyond the constants': for any number of connections. `PollInv` adds to
  `NoStacking` that an open connection is one whose `onclose` is still to come
  (`LinkedConnected`), that what is under way is of this connection or an earlier one
  (`PastConnections`), that the flag of a pending query of this connection is set unless a
  late reply has reset it (`FlagsHold`), and that the flag the update thread found clear stays
  clear until it sends (`SendingClear`). `FlagInv` is the converse of `FlagsHold`: a set
  flag has its query, and between `onclose` and the next connection none is set, but for the
  stray one. It is the safety part of `PollingResumes`.
- **Downloads.** `TypeCorrect`, `StoredStaysCorrect` and `SavedIsAskedCorrect`, with no
  assumption beyond the constants'. `FolderInv`: the mutex belongs to the request being
  served (`HolderServes`), its name is free until the file is stored (`NameIsFree`), and
  without faults a reply names a file of the camera that was asked for (`ReplyIsTrue`). TLC
  checked `FolderInv` on the instance of `media` before it was proved.
- **Apply.** `TypeCorrect`, and `SourceKeptCorrect` with no assumption beyond the
  constants': for any number of servers, cameras, applies, cancels and faults. `SourceInv`
  adds what `SourceKept` lacks, a setting being written long after the source was compared:
  no job has its source among its targets (`TargetKept`), settings are from applies there
  have been (`Past`), and an apply not made has gone nowhere (`NotYet`), so that its source
  may still be any camera. `CountInvCorrect`, with no assumption either:
  `applying_all_count` is at most the number of replies, although a reply may overwrite what
  another has counted; it rests on every message being sent once (`SendsOnce`).
  `NoOverlapCorrect` and `SyncedToAllCorrect` assume `InOrder`: no
  click in the preview while an apply is under way, and one server or two applies. Neither is
  inductive. `OrderInv` says that all applies but the last are settled, and the last one too
  when the buttons that could begin another are enabled. With one server an apply is settled
  when its reply has been counted, and `applying_all` is reset by that reply only; with
  several, when no server writes for it: by `CountInv`, a count that reaches the number of
  servers during the first apply has a reply from each of them. From the second apply on it
  has replies of the first, so that the bound cannot be raised: `apply_mixed` is 2 servers
  and 3 applies. `Written` then says that what the last apply has passed in a camera is its
  own; that no other server writes to that camera is `HomeInv`.
- **Preview.** `TypeCorrect` also proves that a popup that is open has a camera, which the
  type of the messages rests on. `EntriesAreChannelsCorrect` has no assumption beyond the
  constants'. The invariant adds `Apart`: a channel that has ended is not one that is open,
  so that the end of an old channel never takes the entry of a new one from the same host.
  `StreamsAsSelectedCorrect` assumes finitely many masters, and is like the property about
  undisturbed use. `StreamsAsSelected` speaks of
  the moments without messages, so that it says nothing of the steps between them;
  `StreamInv` says what the messages under way will do: a start is for a camera still
  watched or a later stop of the same master follows it (`StartsEnd`), a streaming camera is
  watched or a stop is under way (`StreamsEnd`), and with one master a watched camera
  streams or has a start that comes after every stop (`WatchedStreams`). Messages that
  overtake none keep all three.
- **Decoder.** `TypeCorrect`, `FramesAreTheReadersCorrect`, `OneReaderCorrect` and
  `RetryFindsItEndedCorrect`, for any sizes of the queue and of the passes. `Counted` bounds
  the readers by the clicks, including those still owed one. `FramesInv` adds that without a
  reader there is no frame. `OneReader` is not inductive, since whether a start finds a
  joinable thread is decided when it is asked for: `OrderInv` says that, but for the two
  exceptions, at most one start is under way among the command queue, the worker and the UI
  thread, and that it finds no reader.

Only model-checked: the liveness properties (the prover has no rule for fairness and
`ENABLED`): `GoneLeavesAlive`, `ReachableBecomesAlive`, `CommandsEnd`, `FoundBecomesListed`,
`ListIsMirrored`, `SilentGoesOffline`, `PollingResumes`, `EveryApplyCounts`, `PictureComes`,
`PictureResumes`, `StopReturns`. Every safety property of a passing run is a theorem. What a
recursive definition computes for every input would need induction over an operator, which
the installed backends cannot instantiate, and a module with a `RECURSIVE` operator loses
the SMT backend: the modules use functions and quantifiers instead.

## 5. Divergences seen while modelling

The four runs above that end in a violation are the findings of `PROJECT.json`. Others were
met on the way and have no run of their own:

- the mDNS sink looks for a camera without the mutex (`command.cpp:23`): with another mDNS
  thread, or an add meanwhile, the camera is listed twice. With two mDNS threads TLC refutes
  `NoDuplicates` on `CameraRegistry`;
- `setSettingAll` takes back a cancel when it begins (`query.cpp:122`): one that is handled
  before the apply it is meant for does nothing (`CancelAll`, `StartApply`);
- a stream that drops leaves the last picture on the screen (`decode.cpp:113-117`), and Retry
  is offered only once the reader has ended;
- a buffer is sized before the mutex is taken and the list copied after it
  (`server/controller/command.cpp:194`), so that it can be too small;
- `deleteCameras` does not save the record (`command.cpp:72`): a deleted camera is back after
  a restart;
- the record is read word by word (`server/private/private.cpp:33`): of a name of several
  words the first is left;
- a state reply for a camera that is not listed makes an entry (`master/GoProMaster.cpp:901`),
  which no server owns (the `MaxOrphans` entries of `MasterSync`);
- All Download passes an empty address to a function that looks it up
  (`GoProMaster.cpp:299`) and sends no request;
- `applying_all_count++` runs on two reply threads when there are two servers: an increment can be
  lost, the count then stays short and the master may show that it is applying for ever. With
  two servers TLC refutes `EveryApplyCounts` on `ApplySettings`;
- Quick Apply All of a camera whose settings are not known yet sends nothing, but
  `applying_all` is set (`ClickUnknown`); a cancel has no reply that would reset it, only those
  of a later apply from the preview do;
- Retry clicked before the reader has begun is undone by the reader, which clears
  `stream_open` itself and may set it again: the UI thread waits in `join` while the popup is
  open, which only it could close (the exception in `StopReturns`);
- a second `preview_start` before the first popup has opened assigns to a joinable
  thread, which is `std::terminate` (the exception in `OneReader`).

## 6. Not modelled

- **Drawing, layout, wording** of packets and log lines; GStreamer, curl, libhv, SDL and mDNS
  themselves; build files. `lib/` is vendored and by far most of the repository's lines, so
  that the modules cover a large part of `server/` and `master/` and a small one of the whole.
- **Locate list** (`update()` 775-786) and the toasts of command replies: the list is changed by
  the UI thread and walked by the update thread without a lock; what comes of that is undefined
  behaviour of a vector, and no property of the protocol rests on it.
- **`setSetting`** of one value: one call to a camera, without state.
- **The list of saved presets** and **settings files**: used by the UI thread, a truncating save
  and a load at start. A crash in a save leaves a short file, as with the record, which
  `CameraRegistry` models.
- **Camera tables** (`common/camera_setting.h`, `camera_code.h`, `camera_status.h`) and the
  conversions (serial to address, base64, schedule times): tables and functions without state.
- **HTTP helpers**: an answer or none within the timeout, which callers take as a choice.
- **Media lists, thumbnails and info** of the browser: replies that are shown and kept by nobody.
- Of **webcam mode**, what the cameras do; its lock is in `CameraRegistry`.

Left for proofs: what the entries of a master say while replies are under way, and an abstract
relay that `Preview` implements.
