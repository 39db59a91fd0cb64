------------------------------ MODULE Preview ------------------------------
(***************************************************************************)
(* The live preview: the popup of a master (src/src/master/popup/preview), *)
(* its messages "start" and "stop", the thread per message with which a    *)
(* server passes them on to a camera, and the UDP relay of the server      *)
(* (src/src/server/main.cpp), which sends every packet of every camera to  *)
(* every master that has a connection.                                     *)
(*                                                                         *)
(* Atomicity.  onopen, onclose and the relay of a packet run under         *)
(* broadcast_mtx, so each is a step.  A click is a step of the UI thread.  *)
(* A message is handled in one step, whenever its thread gets to the       *)
(* camera: the threads of two messages run in any order.                   *)
(*                                                                         *)
(* The decoder of the popup is in PreviewDecoder.  Here its reader tries   *)
(* for a stream and reads it; it gives up, or its stream drops, when no    *)
(* packet comes.  Its 600 attempts outlast a message to a camera, whose    *)
(* HTTP call ends after 1.5 s.                                             *)
(***************************************************************************)
EXTENDS Integers, FiniteSets

CONSTANTS
    Masters,    \* the hosts of the masters
    Servers,
    Cameras,
    Home,       \* camera -> the server it is plugged into
    Ports,      \* ports a master can connect from
    Fds,        \* sockets a server can have
    NoCamera,   \* also the target of a message that is for all cameras
    NoPort,
    NoFd,       \* what socket() returns when there are no more
    MaxClicks   \* bound on the clicks that send messages

ASSUME PreviewAssumption ==
    /\ Home \in [Cameras -> Servers]
    /\ NoCamera \notin Cameras
    /\ NoPort \notin Ports
    /\ NoFd \notin Fds
    /\ MaxClicks \in Nat

VARIABLES
    port,             \* master, server -> the port it is connected from
    ended,            \* server -> channels of which it has not seen the end
    broadcast_addrs,  \* server -> where it sends packets to
    sockets,          \* server -> its open sockets
    pending,          \* messages sent and not yet handled
    streaming,        \* cameras that stream
    popup,            \* master -> enable and isopen of its popup
    selected,         \* master -> preview_ip and preview_server
    shown,            \* master -> the camera its picture is from
    reader,           \* master -> how far the reader of its popup has got
    twice,            \* a second preview was started before the popup opened
    clicks,           \* clicks so far, which number the messages
    overtaken,        \* a message was handled before an earlier one it undoes
    lost              \* a connection, a call or a socket has failed

vars == <<port, ended, broadcast_addrs, sockets, pending, streaming, popup, selected,
          shown, reader, twice, clicks, overtaken, lost>>

\* Groups of variables an action leaves alone together.
relay == <<port, ended, broadcast_addrs, sockets>>
messages == <<pending, clicks>>
screen == <<popup, selected, shown, reader, twice>>

Links == Masters \X Servers
Channels == Masters \X Ports

\* SenderStruct: the channel and the socket to its host.
Entry(ch, fd) == [ch |-> ch, fd |-> fd]

\* The second message of a click is numbered after the first.
Message(m, s, name, c, n) == [from |-> m, to |-> s, name |-> name, target |-> c, n |-> n]

Linked(m, s) == port[<<m, s>>] # NoPort

\* Channels a server takes for open.
Open(s) == {ch \in Channels : ch[2] = port[<<ch[1], s>>]} \cup ended[s]

Listed(s, ch) == \E e \in broadcast_addrs[s] : e.ch = ch

\* Hosts the relay reaches.
Hosts(s) == {e.ch[1] : e \in {e \in broadcast_addrs[s] : e.fd # NoFd}}

\* The packets of a camera do reach a master, whose network is not down.
Flows(c, m) == c \in streaming /\ m \in Hosts(Home[c]) /\ Linked(m, Home[c])

Fed(m) == \E c \in Cameras : Flows(c, m)

Init ==
    /\ port = [l \in Links |-> NoPort]
    /\ ended = [s \in Servers |-> {}]
    /\ broadcast_addrs = [s \in Servers |-> {}]
    /\ sockets = [s \in Servers |-> {}]
    /\ pending = {}
    /\ streaming = {}
    /\ popup = [m \in Masters |-> "closed"]
    /\ selected = [m \in Masters |-> NoCamera]
    /\ shown = [m \in Masters |-> NoCamera]
    /\ reader = [m \in Masters |-> "none"]
    /\ twice = FALSE
    /\ clicks = 0
    /\ overtaken = FALSE
    /\ lost = FALSE

-----------------------------------------------------------------------------
(* Connections. *)

\* socket() gives any free descriptor, or an error that nobody looks at.
NewFds(s) == IF sockets[s] = Fds THEN {NoFd} ELSE Fds \ sockets[s]

\* Variant that takes any entry of the host for that of the channel.
OnOpenByHost(m, s, p) ==
    /\ ~Linked(m, s)
    /\ <<m, p>> \notin ended[s]
    /\ port' = [port EXCEPT ![<<m, s>>] = p]
    /\ IF \E e \in broadcast_addrs[s] : e.ch[1] = m
         THEN UNCHANGED <<broadcast_addrs, sockets, lost>>
         ELSE \E fd \in NewFds(s) :
                /\ broadcast_addrs' =
                     [broadcast_addrs EXCEPT ![s] = @ \cup {Entry(<<m, p>>, fd)}]
                /\ sockets' = [sockets EXCEPT ![s] = @ \cup ({fd} \cap Fds)]
                /\ lost' = (lost \/ fd = NoFd)
    /\ UNCHANGED <<ended, messages, streaming, screen, overtaken>>

\* A master connects, from a port that is not in use.
OnOpen(m, s, p) ==
    /\ ~Linked(m, s)
    /\ <<m, p>> \notin ended[s]
    /\ port' = [port EXCEPT ![<<m, s>>] = p]
    /\ IF Listed(s, <<m, p>>)
         THEN UNCHANGED <<broadcast_addrs, sockets, lost>>
         ELSE \E fd \in NewFds(s) :
                /\ broadcast_addrs' =
                     [broadcast_addrs EXCEPT ![s] = @ \cup {Entry(<<m, p>>, fd)}]
                /\ sockets' = [sockets EXCEPT ![s] = @ \cup ({fd} \cap Fds)]
                /\ lost' = (lost \/ fd = NoFd)
    /\ UNCHANGED <<ended, messages, streaming, screen, overtaken>>

\* Variant that looks at the port too late.
LoseLinkLate(m, s) ==
    /\ Linked(m, s)
    /\ port' = [port EXCEPT ![<<m, s>>] = NoPort]
    /\ ended' = [ended EXCEPT ![s] = @ \cup {<<m, port'[<<m, s>>]>>}]
    /\ lost' = TRUE
    /\ UNCHANGED <<broadcast_addrs, sockets, messages, streaming, screen, overtaken>>

\* The master sees the end of its connection first; what it sent may be lost.
LoseLink(m, s) ==
    /\ Linked(m, s)
    /\ port' = [port EXCEPT ![<<m, s>>] = NoPort]
    /\ ended' = [ended EXCEPT ![s] = @ \cup {<<m, port[<<m, s>>]>>}]
    /\ \E left \in SUBSET {msg \in pending : msg.from = m /\ msg.to = s} :
          pending' = pending \ left
    /\ lost' = TRUE
    /\ UNCHANGED <<broadcast_addrs, sockets, streaming, screen, clicks, overtaken>>

\* Variant that leaves the socket open.
OnCloseLeaking(s, ch) ==
    /\ ch \in ended[s]
    /\ ended' = [ended EXCEPT ![s] = @ \ {ch}]
    /\ \E e \in broadcast_addrs[s] :
          /\ e.ch = ch
          /\ broadcast_addrs' = [broadcast_addrs EXCEPT ![s] = @ \ {e}]
          /\ sockets' = sockets
    /\ UNCHANGED <<port, messages, streaming, screen, overtaken, lost>>

\* The server sees the end of a channel.
OnClose(s, ch) ==
    /\ ch \in ended[s]
    /\ ended' = [ended EXCEPT ![s] = @ \ {ch}]
    /\ IF Listed(s, ch)
         THEN \E e \in broadcast_addrs[s] :
                /\ e.ch = ch
                /\ broadcast_addrs' = [broadcast_addrs EXCEPT ![s] = @ \ {e}]
                /\ sockets' = [sockets EXCEPT ![s] = @ \ {e.fd}]
         ELSE UNCHANGED <<broadcast_addrs, sockets>>
    /\ UNCHANGED <<port, messages, streaming, screen, overtaken, lost>>

-----------------------------------------------------------------------------
(* The popup of a master. *)

\* A double click, or Preview of the context menu, on a camera in the list, which has
\* only cameras of servers that are connected.  The list takes clicks until the popup is
\* open; what a second one does to the reader is in PreviewDecoder.
Select(m, c) ==
    /\ popup[m] \in {"closed", "opening"}
    /\ twice' = (twice \/ popup[m] = "opening")
    /\ Linked(m, Home[c])
    /\ clicks < MaxClicks
    /\ clicks' = clicks + 1
    /\ pending' = pending \cup {Message(m, Home[c], "start", c, 2 * clicks)}
    /\ selected' = [selected EXCEPT ![m] = c]
    /\ popup' = [popup EXCEPT ![m] = "opening"]
    /\ UNCHANGED <<relay, streaming, shown, reader, overtaken, lost>>

\* A reader looks for its camera in the list first.
ReaderStarts(m) ==
    reader' = [reader EXCEPT ![m] = IF Linked(m, Home[selected[m]]) THEN "trying" ELSE "over"]

\* The background worker has taken the command and the UI thread has detected it.
PopupOpens(m) ==
    /\ popup[m] = "opening"
    /\ popup' = [popup EXCEPT ![m] = "open"]
    /\ ReaderStarts(m)
    /\ UNCHANGED <<relay, messages, streaming, selected, shown, twice, overtaken, lost>>

\* Nothing has come in all the attempts, nor is anything on its way to the camera.
GiveUp(m) ==
    /\ reader[m] = "trying"
    /\ ~Fed(m)
    /\ \A msg \in pending : msg.from # m
    /\ reader' = [reader EXCEPT ![m] = "over"]
    /\ UNCHANGED <<relay, messages, streaming, popup, selected, shown, twice, overtaken, lost>>

\* The stream drops: cap.read fails and is tried again, until the pipeline is found
\* closed.  The last picture stays on the screen.
Drop(m) ==
    /\ reader[m] = "dropped" \/ (reader[m] = "reading" /\ ~Fed(m))
    /\ \E how \in {"dropped", "over"} : reader' = [reader EXCEPT ![m] = how]
    /\ UNCHANGED <<relay, messages, streaming, popup, selected, shown, twice, overtaken, lost>>

\* Retry, offered once the reader has ended.
Retry(m) ==
    /\ popup[m] = "open"
    /\ reader[m] = "over"
    /\ ReaderStarts(m)
    /\ shown' = [shown EXCEPT ![m] = NoCamera]
    /\ UNCHANGED <<relay, messages, streaming, popup, selected, twice, overtaken, lost>>

\* preview_end sends only to a server that is connected.
Stop(m, n) ==
    LET c == selected[m]
    IN  {msg \in {Message(m, Home[c], "stop", c, n)} : Linked(m, Home[c])}

\* Variant that does not stop the camera shown so far.
SwitchOnly(m, c) ==
    /\ popup[m] = "open"
    /\ shown[m] # NoCamera
    /\ Linked(m, Home[selected[m]])
    /\ Linked(m, Home[c])
    /\ clicks < MaxClicks
    /\ clicks' = clicks + 1
    /\ pending' = pending \cup {Message(m, Home[c], "start", c, 2 * clicks + 1)}
    /\ selected' = [selected EXCEPT ![m] = c]
    /\ shown' = [shown EXCEPT ![m] = NoCamera]
    /\ reader' = [reader EXCEPT ![m] = "trying"]
    /\ UNCHANGED <<relay, streaming, popup, twice, overtaken, lost>>

\* Another camera is chosen in the popup, which offers that only beside a picture and
\* while the camera shown so far is known.
Switch(m, c) ==
    /\ popup[m] = "open"
    /\ shown[m] # NoCamera
    /\ Linked(m, Home[selected[m]])
    /\ Linked(m, Home[c])
    /\ clicks < MaxClicks
    /\ clicks' = clicks + 1
    /\ pending' = pending \cup Stop(m, 2 * clicks)
                          \cup {Message(m, Home[c], "start", c, 2 * clicks + 1)}
    /\ selected' = [selected EXCEPT ![m] = c]
    /\ shown' = [shown EXCEPT ![m] = NoCamera]
    /\ reader' = [reader EXCEPT ![m] = "trying"]
    /\ UNCHANGED <<relay, streaming, popup, twice, overtaken, lost>>

Cancel(m) ==
    /\ popup[m] = "open"
    /\ clicks < MaxClicks
    /\ clicks' = clicks + 1
    /\ pending' = pending \cup Stop(m, 2 * clicks)
    /\ popup' = [popup EXCEPT ![m] = "closed"]
    /\ shown' = [shown EXCEPT ![m] = NoCamera]
    /\ reader' = [reader EXCEPT ![m] = "none"]
    /\ UNCHANGED <<relay, streaming, selected, twice, overtaken, lost>>

\* Close Preview of the inspector is for all cameras of one server: the first that is
\* connected.
ClosePreview(m, s) ==
    /\ popup[m] = "closed"
    /\ Linked(m, s)
    /\ clicks < MaxClicks
    /\ clicks' = clicks + 1
    /\ pending' = pending \cup {Message(m, s, "stop", NoCamera, 2 * clicks)}
    /\ UNCHANGED <<relay, streaming, screen, overtaken, lost>>

-----------------------------------------------------------------------------
(* The servers. *)

Targets(msg) ==
    IF msg.target = NoCamera THEN {c \in Cameras : Home[c] = msg.to} ELSE {msg.target}

Overtakes(msg) ==
    \E before \in pending :
        /\ before.from = msg.from
        /\ before.n < msg.n
        /\ Targets(before) \cap Targets(msg) # {}

\* Variant that stops a camera whatever the name.
PreviewActionStop(msg) ==
    /\ pending' = pending \ {msg}
    /\ streaming' = streaming \ Targets(msg)
    /\ overtaken' = (overtaken \/ Overtakes(msg))
    /\ UNCHANGED <<relay, screen, clicks, lost>>

\* The thread of a message makes its call to the camera.
PreviewAction(msg) ==
    /\ pending' = pending \ {msg}
    /\ streaming' = IF msg.name = "start" THEN streaming \cup Targets(msg)
                    ELSE streaming \ Targets(msg)
    /\ overtaken' = (overtaken \/ Overtakes(msg))
    /\ UNCHANGED <<relay, screen, clicks, lost>>

\* The camera does not answer, which nobody minds.
PreviewActionFails(msg) ==
    /\ pending' = pending \ {msg}
    /\ lost' = TRUE
    /\ UNCHANGED <<relay, streaming, screen, clicks, overtaken>>

\* A packet of a camera reaches a master by way of the relay: of whatever camera.  A
\* reader that still reads shows it, also when its stream had dropped.
Relay(c, m) ==
    /\ c \in streaming
    /\ m \in Hosts(Home[c])
    /\ popup[m] = "open"
    /\ reader[m] \in {"trying", "reading", "dropped"}
    /\ reader' = [reader EXCEPT ![m] = "reading"]
    /\ shown' = [shown EXCEPT ![m] = c]
    /\ UNCHANGED <<relay, messages, streaming, popup, selected, twice, overtaken, lost>>

-----------------------------------------------------------------------------
Clicks ==
    \E m \in Masters :
        \/ \E c \in Cameras : Select(m, c) \/ Switch(m, c)
        \/ Cancel(m) \/ Retry(m)
        \/ \E s \in Servers : ClosePreview(m, s)

Handle == \E msg \in pending : PreviewAction(msg)

Next ==
    \/ \E m \in Masters, s \in Servers : LoseLink(m, s) \/ \E p \in Ports : OnOpen(m, s, p)
    \/ \E s \in Servers, ch \in Channels : OnClose(s, ch)
    \/ Clicks
    \/ \E m \in Masters : PopupOpens(m) \/ GiveUp(m) \/ Drop(m)
    \/ Handle
    \/ \E msg \in pending : PreviewActionFails(msg)
    \/ \E c \in Cameras, m \in Masters : Relay(c, m)

Spec == Init /\ [][Next]_vars

(***************************************************************************)
(* Fairness.  Threads run, a camera that streams goes on sending, and its  *)
(* packets reach a master that is connected, for its reader to find.  The  *)
(* user, connections and failures are not fair, nor is a dropped stream.   *)
(***************************************************************************)
Fairness ==
    /\ WF_vars(Handle)
    /\ \A m \in Masters : WF_vars(PopupOpens(m))
    /\ \A c \in Cameras, m \in Masters :
          WF_vars(Flows(c, m) /\ reader[m] # "dropped" /\ Relay(c, m))

LiveSpec == Spec /\ Fairness

-----------------------------------------------------------------------------
(* Properties. *)

Messages ==
    [from : Masters, to : Servers, name : {"start", "stop"}, target : Cameras \cup {NoCamera},
     n : 0..(2 * MaxClicks)]

TypeOK ==
    /\ port \in [Links -> Ports \cup {NoPort}]
    /\ ended \in [Servers -> SUBSET Channels]
    /\ broadcast_addrs \in [Servers -> SUBSET [ch : Channels, fd : Fds \cup {NoFd}]]
    /\ sockets \in [Servers -> SUBSET Fds]
    /\ pending \subseteq Messages
    /\ streaming \subseteq Cameras
    /\ popup \in [Masters -> {"closed", "opening", "open"}]
    /\ selected \in [Masters -> Cameras \cup {NoCamera}]
    /\ shown \in [Masters -> Cameras \cup {NoCamera}]
    /\ reader \in [Masters -> {"none", "trying", "reading", "dropped", "over"}]
    /\ twice \in BOOLEAN
    /\ clicks \in 0..MaxClicks
    /\ overtaken \in BOOLEAN
    /\ lost \in BOOLEAN

\* However often masters come and go, the relay has one entry for each channel that
\* has not been seen to end and none for another, no two entries share a socket, and
\* no socket is open that is not an entry's.
EntriesAreChannels ==
    \A s \in Servers :
        /\ {e.ch : e \in broadcast_addrs[s]} = Open(s)
        /\ {e.fd : e \in broadcast_addrs[s]} \cap Fds = sockets[s]
        /\ \A e, f \in broadcast_addrs[s] : e.ch = f.ch \/ (e.fd = f.fd /\ e.fd # NoFd) => e = f

Wanted == {selected[m] : m \in {m \in Masters : popup[m] # "closed"}}

\* Nothing failed, no message overtook another and no second preview was started before
\* the popup of the first was open.
Undisturbed == ~lost /\ ~overtaken /\ ~twice

\* In undisturbed use, once all messages are handled no camera streams but those that
\* popups have selected, and with a single master those do.
StreamsAsSelected ==
    Undisturbed /\ pending = {} =>
        /\ streaming \subseteq Wanted
        /\ Cardinality(Masters) = 1 => Wanted \subseteq streaming

\* A popup gets a picture, with a single master and in undisturbed use: its reader does
\* not give up while the camera is being started, and finds its packets then.
PictureComes ==
    \A m \in Masters :
        popup[m] = "opening" ~> \/ shown[m] # NoCamera
                                \/ popup[m] = "closed"
                                \/ ~Undisturbed

\* However often the master's connection was lost, and though the server may see the end
\* of the old one after the new one has begun: a reader that tries for its stream, the
\* popup's first or the one Retry starts after a drop, gets it as long as its camera
\* streams, the connection stands and the relay's entry for it has a socket.
PictureResumes ==
    \A m \in Masters, c \in Cameras :
        LET Served == /\ popup[m] = "open" /\ selected[m] = c
                      /\ c \in streaming
                      /\ Linked(m, Home[c])
                      /\ \A e \in broadcast_addrs[Home[c]] :
                            e.ch = <<m, port[<<m, Home[c]>>]>> => e.fd # NoFd
        IN  Served /\ reader[m] = "trying" ~> reader[m] = "reading" \/ ~Served

\* The popup displays the selected camera, once no message is under way and in
\* undisturbed use.
ShowsSelected ==
    Undisturbed /\ pending = {} =>
        \A m \in Masters : shown[m] \in {NoCamera, selected[m]}
=============================================================================
