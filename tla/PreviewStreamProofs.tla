------------------------ MODULE PreviewStreamProofs ------------------------
(***************************************************************************)
(* That the cameras selected stream, and no others: a theorem about        *)
(* Preview for any masters, servers, cameras and clicks.                   *)
(***************************************************************************)
EXTENDS PreviewProofs, FiniteSetTheorems

Watching(m, c) == popup[m] # "closed" /\ selected[m] = c

Starts(msg, c) == msg.name = "start" /\ c \in Targets(msg)
Stops(msg, c) == msg.name = "stop" /\ c \in Targets(msg)

\* Messages are numbered by the clicks there have been.
Numbered == \A msg \in pending : msg.n < 2 * clicks

\* An open popup can stop its camera.
StopReaches == \A m \in Masters : popup[m] # "closed" => Linked(m, Home[selected[m]])

\* A start is for a camera still watched, or a later stop of the same master follows it.
StartsEnd ==
    \A msg \in pending, c \in Cameras :
        Starts(msg, c) =>
            \/ Watching(msg.from, c)
            \/ \E later \in pending :
                  later.from = msg.from /\ msg.n < later.n /\ Stops(later, c)

\* A camera that streams is watched, or a stop is under way.
StreamsEnd ==
    \A c \in streaming :
        \/ \E m \in Masters : Watching(m, c)
        \/ \E msg \in pending : Stops(msg, c)

\* A camera that is watched streams and is not about to be stopped, or a start is under
\* way that comes after every stop.
WatchedStreams ==
    \A m \in Masters, c \in Cameras :
        Watching(m, c) =>
            \/ c \in streaming /\ \A msg \in pending : ~Stops(msg, c)
            \/ \E start \in pending :
                  /\ Starts(start, c)
                  /\ \A msg \in pending : Stops(msg, c) => msg.n < start.n

\* StreamsAsSelected speaks of the moments at which no message is under way; the messages
\* that are decide what it will then say.
StreamInv ==
    /\ Numbered
    /\ Undisturbed =>
          /\ StopReaches /\ StartsEnd /\ StreamsEnd
          /\ Cardinality(Masters) = 1 => WatchedStreams
-----------------------------------------------------------------------------
(* Messages. *)

\* A start is for its camera.
LEMMA StartMessage ==
    ASSUME NEW m, NEW s, NEW c \in Cameras, NEW n
    PROVE  LET msg == Message(m, s, "start", c, n)
           IN  /\ msg.from = m /\ msg.n = n
               /\ \A d \in Cameras : (Starts(msg, d) <=> d = c) /\ ~Stops(msg, d)
BY PreviewAssumption DEF Message, Starts, Stops, Targets

\* A stop is for its camera, or for all of its server.
LEMMA StopMessage ==
    ASSUME NEW m, NEW s, NEW c, NEW n
    PROVE  LET msg == Message(m, s, "stop", c, n)
           IN  /\ msg.from = m /\ msg.n = n
               /\ \A d \in Cameras : ~Starts(msg, d) /\ (d = c => Stops(msg, d))
               /\ \A d \in Cameras \ {c} : c \in Cameras => ~Stops(msg, d)
BY PreviewAssumption DEF Message, Starts, Stops, Targets

\* A message has a kind.
LEMMA StartOrStop ==
    ASSUME TypeOK, NEW msg \in pending
    PROVE  /\ msg.from \in Masters /\ msg.n \in Nat
           /\ \/ msg.name = "start" /\ \A c : ~Stops(msg, c) /\ (Starts(msg, c) <=> c \in Targets(msg))
              \/ msg.name = "stop" /\ \A c : ~Starts(msg, c) /\ (Stops(msg, c) <=> c \in Targets(msg))
<1>1. msg \in Messages
    BY DEF TypeOK
<1>2. MaxClicks \in Nat
    BY PreviewAssumption
<1>3. msg.n \in 0..(2 * MaxClicks) /\ msg.from \in Masters /\ msg.name \in {"start", "stop"}
    BY <1>1 DEF Messages
<1> QED
    BY <1>2, <1>3 DEF Starts, Stops

\* With one master all messages are from it.
LEMMA Alone ==
    ASSUME IsFiniteSet(Masters), Cardinality(Masters) = 1, NEW m \in Masters, NEW d \in Masters
    PROVE  m = d
BY FS_Singleton

-----------------------------------------------------------------------------
(* A message is handled. *)

\* A message that overtakes none: a stop leaves no start of its own to come, a start finds no
\* stop that was sent before it.
LEMMA HandleStep ==
    ASSUME IsFiniteSet(Masters), TypeOK, TypeOK', StreamInv, NEW msg \in pending, PreviewAction(msg)
    PROVE  StreamInv'
<1>1. /\ pending' = pending \ {msg}
      /\ UNCHANGED <<port, popup, selected, clicks, twice, lost>>
    BY DEF PreviewAction, relay, screen
<1>2. Numbered'
    BY <1>1 DEF StreamInv, Numbered
<1>3. SUFFICES ASSUME ~lost', ~overtaken', ~twice'
               PROVE  /\ StopReaches' /\ StartsEnd' /\ StreamsEnd'
                      /\ Cardinality(Masters) = 1 => WatchedStreams'
    BY <1>2 DEF StreamInv, Undisturbed
<1>4. ~overtaken /\ ~Overtakes(msg)
    BY <1>3, Zenon DEF PreviewAction
<1>5. ~lost /\ ~twice
    BY <1>1, <1>3
<1>6. StopReaches /\ StartsEnd /\ StreamsEnd /\ (Cardinality(Masters) = 1 => WatchedStreams)
    BY <1>4, <1>5 DEF StreamInv, Undisturbed
<1>7. \A m \in Masters, c \in Cameras : Watching(m, c)' <=> Watching(m, c)
    BY <1>1 DEF Watching
<1>8. \A before \in pending, c \in Cameras :
          before.from = msg.from /\ before.n < msg.n =>
              c \notin Targets(before) \/ c \notin Targets(msg)
    BY <1>4 DEF Overtakes
<1>9. \A x \in pending : \A c : Starts(x, c) \/ Stops(x, c) => c \in Targets(x)
    BY DEF Starts, Stops
<1>10. StopReaches'
    BY <1>1, <1>6 DEF StopReaches, Linked
<1>11. StartsEnd'
    BY <1>1, <1>6, <1>7, <1>8, <1>9, StartOrStop DEF StartsEnd
<1>12. StreamsEnd'
    <2> SUFFICES ASSUME NEW c \in streaming'
                 PROVE  \/ \E m \in Masters : Watching(m, c)
                        \/ \E x \in pending' : Stops(x, c)
        BY <1>7 DEF StreamsEnd, TypeOK
    <2>1. c \in Cameras
        BY DEF TypeOK
    <2>2. CASE msg.name = "start"
        <3>1. \A x \in pending : Stops(x, c) => x \in pending'
            BY <1>1, <2>2 DEF Stops
        <3>2. CASE c \in streaming
            BY <3>1, <3>2, <1>6 DEF StreamsEnd
        <3>3. CASE c \in Targets(msg)
            <4>1. Starts(msg, c)
                BY <2>2, <3>3 DEF Starts
            <4> QED
                BY <4>1, <3>1, <2>1, <1>6, StartOrStop DEF StartsEnd
        <3> QED
            BY <2>2, <3>2, <3>3 DEF PreviewAction
    <2>3. CASE msg.name # "start"
        <3>1. c \in streaming /\ c \notin Targets(msg)
            BY <2>3 DEF PreviewAction
        <3> QED
            BY <3>1, <1>1, <1>6, <1>9 DEF StreamsEnd
    <2> QED
        BY <2>2, <2>3
<1>13. ASSUME Cardinality(Masters) = 1
       PROVE  WatchedStreams'
    <2>1. \A x, y \in pending : x.from = y.from
        BY <1>13, Alone, StartOrStop
    <2> SUFFICES ASSUME NEW m \in Masters, NEW c \in Cameras, Watching(m, c)
                 PROVE  \/ c \in streaming' /\ \A x \in pending' : ~Stops(x, c)
                        \/ \E start \in pending' :
                              /\ Starts(start, c)
                              /\ \A x \in pending' : Stops(x, c) => x.n < start.n
        BY <1>7 DEF WatchedStreams
    <2>2. CASE c \in streaming /\ \A x \in pending : ~Stops(x, c)
        <3>1. c \in streaming'
            <4>1. msg.name = "start" \/ c \notin Targets(msg)
                BY <2>2, StartOrStop
            <4> QED
                BY <2>2, <4>1 DEF PreviewAction
        <3> QED
            BY <2>2, <3>1, <1>1
    <2>3. ASSUME NEW start \in pending, Starts(start, c),
                 \A x \in pending : Stops(x, c) => x.n < start.n
          PROVE  \/ c \in streaming' /\ \A x \in pending' : ~Stops(x, c)
                 \/ start \in pending' /\ \A x \in pending' : Stops(x, c) => x.n < start.n
        <3>1. CASE start = msg
            <4>1. \A x \in pending : ~Stops(x, c)
                BY <2>1, <2>3, <3>1, <1>8, <1>9
            <4>2. c \in streaming'
                BY <2>3, <3>1 DEF Starts, PreviewAction
            <4> QED
                BY <4>1, <4>2, <1>1
        <3>2. CASE start # msg
            BY <2>3, <3>2, <1>1
        <3> QED
            BY <3>1, <3>2
    <2>4. \/ c \in streaming /\ \A x \in pending : ~Stops(x, c)
          \/ \E start \in pending : /\ Starts(start, c)
                                    /\ \A x \in pending : Stops(x, c) => x.n < start.n
        BY <1>6, <1>13 DEF WatchedStreams
    <2> QED
        BY <2>2, <2>3, <2>4
<1> QED
    BY <1>10, <1>11, <1>12, <1>13

-----------------------------------------------------------------------------
(* The clicks that send messages. *)

\* What is under way has a smaller number than what a click sends.
LEMMA SentLater ==
    ASSUME TypeOK, Numbered
    PROVE  /\ clicks \in Nat
           /\ \A x \in pending : x.n \in Nat /\ x.n < 2 * clicks
BY StartOrStop, PreviewAssumption DEF TypeOK, Numbered

\* A popup is opened: its start is the last message there is.
LEMMA SelectStep ==
    ASSUME TypeOK, StreamInv, NEW m \in Masters, NEW c \in Cameras, Select(m, c)
    PROVE  StreamInv'
<1>1. PICK new : new = Message(m, Home[c], "start", c, 2 * clicks)
    OBVIOUS
<1>2. /\ pending' = pending \cup {new} /\ clicks' = clicks + 1
      /\ UNCHANGED <<port, streaming, overtaken, lost>>
      /\ popup[m] \in {"closed", "opening"} /\ Linked(m, Home[c])
      /\ popup' = [popup EXCEPT ![m] = "opening"] /\ selected' = [selected EXCEPT ![m] = c]
    BY <1>1 DEF Select, relay
<1>3. /\ new.from = m /\ new.n = 2 * clicks
      /\ \A d \in Cameras : (Starts(new, d) <=> d = c) /\ ~Stops(new, d)
    BY <1>1, StartMessage
<1>4. clicks \in Nat /\ \A x \in pending : x.n \in Nat /\ x.n < 2 * clicks
    BY SentLater DEF StreamInv
<1>5. Numbered'
    BY <1>2, <1>3, <1>4 DEF Numbered
<1>6. SUFFICES ASSUME ~lost, ~overtaken, ~twice, popup[m] = "closed"
               PROVE  /\ StopReaches' /\ StartsEnd' /\ StreamsEnd'
                      /\ Cardinality(Masters) = 1 => WatchedStreams'
    <2>1. ~twice' => ~twice /\ popup[m] # "opening"
        BY Zenon DEF Select
    <2> QED
        BY <1>2, <1>5, <2>1 DEF StreamInv, Undisturbed
<1>7. StopReaches /\ StartsEnd /\ StreamsEnd /\ (Cardinality(Masters) = 1 => WatchedStreams)
    BY <1>6 DEF StreamInv, Undisturbed
<1>8. /\ \A k \in Masters \ {m} : popup'[k] = popup[k] /\ selected'[k] = selected[k]
      /\ popup'[m] = "opening" /\ selected'[m] = c
    BY <1>2 DEF TypeOK
<1>9. /\ \A k \in Masters, d \in Cameras : Watching(k, d) => Watching(k, d)'
      /\ Watching(m, c)'
      /\ \A k \in Masters, d \in Cameras : Watching(k, d)' => Watching(k, d) \/ (k = m /\ d = c)
    BY <1>6, <1>8 DEF Watching
<1>10. StopReaches'
    BY <1>2, <1>7, <1>8 DEF StopReaches, Linked
<1>11. StartsEnd'
    BY <1>2, <1>3, <1>7, <1>9, StartOrStop DEF StartsEnd
<1>12. StreamsEnd'
    BY <1>2, <1>7, <1>9 DEF StreamsEnd, TypeOK
<1>13. ASSUME WatchedStreams
       PROVE  WatchedStreams'
    <2> SUFFICES ASSUME NEW k \in Masters, NEW d \in Cameras, Watching(k, d)'
                 PROVE  \/ d \in streaming /\ \A x \in pending' : ~Stops(x, d)
                        \/ \E start \in pending' :
                              /\ Starts(start, d)
                              /\ \A x \in pending' : Stops(x, d) => x.n < start.n
        BY <1>2 DEF WatchedStreams
    <2>1. CASE k = m /\ d = c
        BY <2>1, <1>2, <1>3, <1>4
    <2>2. CASE Watching(k, d)
        BY <2>2, <1>2, <1>3, <1>13 DEF WatchedStreams
    <2> QED
        BY <2>1, <2>2, <1>9
<1> QED
    BY <1>7, <1>10, <1>11, <1>12, <1>13

\* Another camera is chosen, perhaps the same: a stop for the old one and then a start.
LEMMA SwitchStep ==
    ASSUME IsFiniteSet(Masters), TypeOK, HasSelected, StreamInv,
           NEW m \in Masters, NEW c \in Cameras, Switch(m, c)
    PROVE  StreamInv'
<1>1. PICK stop, new : /\ stop = Message(m, Home[selected[m]], "stop", selected[m], 2 * clicks)
                       /\ new = Message(m, Home[c], "start", c, 2 * clicks + 1)
    OBVIOUS
<1>2. /\ pending' = pending \cup {stop, new} /\ clicks' = clicks + 1
      /\ UNCHANGED <<port, streaming, overtaken, lost, twice, popup>>
      /\ popup[m] = "open" /\ Linked(m, Home[c])
      /\ selected' = [selected EXCEPT ![m] = c]
    BY <1>1 DEF Switch, Stop, relay
<1>3. /\ new.from = m /\ new.n = 2 * clicks + 1
      /\ \A d \in Cameras : (Starts(new, d) <=> d = c) /\ ~Stops(new, d)
    BY <1>1, StartMessage
<1>4. /\ stop.from = m /\ stop.n = 2 * clicks
      /\ selected[m] \in Cameras /\ Stops(stop, selected[m])
      /\ \A d \in Cameras : ~Starts(stop, d)
    BY <1>1, <1>2, StopMessage DEF HasSelected, TypeOK
<1>5. clicks \in Nat /\ \A x \in pending : x.n \in Nat /\ x.n < 2 * clicks
    BY SentLater DEF StreamInv
<1>6. Numbered'
    BY <1>2, <1>3, <1>4, <1>5 DEF Numbered
<1>7. SUFFICES ASSUME Undisturbed
               PROVE  /\ StopReaches' /\ StartsEnd' /\ StreamsEnd'
                      /\ Cardinality(Masters) = 1 => WatchedStreams'
    BY <1>2, <1>6 DEF StreamInv, Undisturbed
<1>8. StopReaches /\ StartsEnd /\ StreamsEnd
    BY <1>7 DEF StreamInv
<1>9. /\ \A k \in Masters \ {m} : selected'[k] = selected[k]
      /\ selected'[m] = c
    BY <1>2 DEF TypeOK
<1>10. /\ \A k \in Masters, d \in Cameras :
             Watching(k, d) => Watching(k, d)' \/ (k = m /\ d = selected[m])
       /\ \A d \in Cameras : Watching(m, d)' <=> d = c
    BY <1>2, <1>9 DEF Watching
<1>11. StopReaches'
    BY <1>2, <1>8, <1>9 DEF StopReaches, Linked
<1>12. StartsEnd'
    BY <1>2, <1>3, <1>4, <1>5, <1>8, <1>10, StartOrStop DEF StartsEnd
<1>13. StreamsEnd'
    BY <1>2, <1>4, <1>8, <1>10 DEF StreamsEnd, TypeOK
<1>14. ASSUME Cardinality(Masters) = 1
       PROVE  WatchedStreams'
    <2>1. \A k \in Masters, d \in Cameras : Watching(k, d)' => d = c
        BY <1>10, <1>14, Alone
    <2>2. \A x \in pending' : Stops(x, c) => x.n < new.n
        BY <1>2, <1>3, <1>4, <1>5
    <2>3. new \in pending' /\ Starts(new, c)
        BY <1>2, <1>3
    <2> QED
        BY <2>1, <2>2, <2>3 DEF WatchedStreams
<1> QED
    BY <1>11, <1>12, <1>13, <1>14

\* A popup is closed: its stop follows all its starts.
LEMMA CancelStep ==
    ASSUME IsFiniteSet(Masters), TypeOK, HasSelected, StreamInv, NEW m \in Masters, Cancel(m)
    PROVE  StreamInv'
<1>1. PICK stop : stop = Message(m, Home[selected[m]], "stop", selected[m], 2 * clicks)
    OBVIOUS
<1>2. /\ pending' = pending \cup Stop(m, 2 * clicks) /\ clicks' = clicks + 1
      /\ UNCHANGED <<port, streaming, overtaken, lost, twice, selected>>
      /\ popup[m] = "open" /\ popup' = [popup EXCEPT ![m] = "closed"]
    BY DEF Cancel, relay
<1>3. /\ stop.from = m /\ stop.n = 2 * clicks
      /\ selected[m] \in Cameras /\ Stops(stop, selected[m])
      /\ \A d \in Cameras : ~Starts(stop, d)
    BY <1>1, <1>2, StopMessage DEF HasSelected, TypeOK
<1>4. clicks \in Nat /\ \A x \in pending : x.n \in Nat /\ x.n < 2 * clicks
    BY SentLater DEF StreamInv
<1>5. Numbered'
    BY <1>1, <1>2, <1>3, <1>4 DEF Numbered, Stop
<1>6. SUFFICES ASSUME Undisturbed
               PROVE  /\ StopReaches' /\ StartsEnd' /\ StreamsEnd'
                      /\ Cardinality(Masters) = 1 => WatchedStreams'
    BY <1>2, <1>5 DEF StreamInv, Undisturbed
<1>7. StopReaches /\ StartsEnd /\ StreamsEnd
    BY <1>6 DEF StreamInv
<1>8. pending' = pending \cup {stop}
    BY <1>1, <1>2, <1>7 DEF StopReaches, Stop
<1>9. /\ \A k \in Masters \ {m} : popup'[k] = popup[k]
      /\ popup'[m] = "closed"
    BY <1>2 DEF TypeOK
<1>10. /\ \A k \in Masters, d \in Cameras :
             Watching(k, d) => Watching(k, d)' \/ (k = m /\ d = selected[m])
       /\ \A d \in Cameras : ~Watching(m, d)'
    BY <1>2, <1>9 DEF Watching
<1>11. StopReaches'
    BY <1>2, <1>7, <1>9 DEF StopReaches, Linked
<1>12. StartsEnd'
    BY <1>3, <1>4, <1>7, <1>8, <1>10, StartOrStop DEF StartsEnd
<1>13. StreamsEnd'
    BY <1>2, <1>3, <1>7, <1>8, <1>10 DEF StreamsEnd, TypeOK
<1>14. Cardinality(Masters) = 1 => WatchedStreams'
    BY <1>10, Alone DEF WatchedStreams
<1> QED
    BY <1>11, <1>12, <1>13, <1>14

\* A stop for all cameras of a server, by a master that watches none.
LEMMA ClosePreviewStep ==
    ASSUME IsFiniteSet(Masters), TypeOK, StreamInv,
           NEW m \in Masters, NEW s \in Servers, ClosePreview(m, s)
    PROVE  StreamInv'
<1>1. PICK stop : stop = Message(m, s, "stop", NoCamera, 2 * clicks)
    OBVIOUS
<1>2. /\ pending' = pending \cup {stop} /\ clicks' = clicks + 1 /\ popup[m] = "closed"
      /\ UNCHANGED <<port, streaming, overtaken, lost, twice, popup, selected>>
    BY <1>1 DEF ClosePreview, relay, screen
<1>3. stop.n = 2 * clicks /\ \A d \in Cameras : ~Starts(stop, d)
    BY <1>1, StopMessage
<1>4. clicks \in Nat /\ \A x \in pending : x.n \in Nat /\ x.n < 2 * clicks
    BY SentLater DEF StreamInv
<1>5. Numbered'
    BY <1>2, <1>3, <1>4 DEF Numbered
<1>6. \A k \in Masters, d \in Cameras : Watching(k, d)' <=> Watching(k, d)
    BY <1>2 DEF Watching
<1>7. \A d \in Cameras : ~Watching(m, d)
    BY <1>2 DEF Watching
<1>8. StopReaches => StopReaches'
    BY <1>2 DEF StopReaches, Linked
<1>9. StartsEnd => StartsEnd'
    BY <1>2, <1>3, <1>6, StartOrStop DEF StartsEnd
<1>10. StreamsEnd => StreamsEnd'
    BY <1>2, <1>6 DEF StreamsEnd, TypeOK
<1>11. Cardinality(Masters) = 1 => WatchedStreams'
    BY <1>6, <1>7, Alone DEF WatchedStreams
<1> QED
    BY <1>2, <1>5, <1>8, <1>9, <1>10, <1>11 DEF StreamInv, Undisturbed

\* Where messages, popups and streams stay as they are, and a connection that there was
\* stays too, there is nothing to say.
LEMMA QuietStep ==
    ASSUME StreamInv, UNCHANGED <<pending, clicks, streaming, selected, overtaken, twice>>,
           ~lost' => ~lost, \A m \in Masters : popup'[m] = "closed" <=> popup[m] = "closed",
           ~lost' => \A m \in Masters, s \in Servers : Linked(m, s) => Linked(m, s)',
           TypeOK, HasSelected
    PROVE  StreamInv'
<1>1. Numbered'
    BY DEF StreamInv, Numbered
<1>2. \A m \in Masters : \A c : Watching(m, c)' <=> Watching(m, c)
    BY DEF Watching
<1>3. SUFFICES ASSUME ~lost', ~overtaken, ~twice
               PROVE  /\ StopReaches' /\ StartsEnd' /\ StreamsEnd'
                      /\ Cardinality(Masters) = 1 => WatchedStreams'
    BY <1>1 DEF StreamInv, Undisturbed
<1>4. StopReaches /\ StartsEnd /\ StreamsEnd /\ (Cardinality(Masters) = 1 => WatchedStreams)
    BY <1>3 DEF StreamInv, Undisturbed
<1>5. StopReaches'
    <2>1. \A m \in Masters : popup[m] # "closed" => Home[selected[m]] \in Servers
        BY PreviewAssumption DEF HasSelected, TypeOK
    <2> QED
        BY <1>3, <1>4, <2>1 DEF StopReaches
<1>6. StartsEnd'
    BY <1>2, <1>4, StartOrStop DEF StartsEnd
<1>7. StreamsEnd'
    BY <1>2, <1>4 DEF StreamsEnd
<1>8. Cardinality(Masters) = 1 => WatchedStreams'
    BY <1>2, <1>4 DEF WatchedStreams
<1> QED
    BY <1>5, <1>6, <1>7, <1>8

\* In undisturbed use, once all messages are handled no camera streams but those that popups
\* have selected, and with a single master those do.
THEOREM StreamsAsSelectedCorrect ==
    ASSUME IsFiniteSet(Masters)
    PROVE  Spec => []StreamsAsSelected
<1>1. Init => StreamInv
    BY DEF Init, StreamInv, Numbered, StopReaches, StartsEnd, StreamsEnd, WatchedStreams, Watching
<1>2. TypeOK /\ HasSelected /\ TypeOK' /\ StreamInv /\ [Next]_vars => StreamInv'
    <2> SUFFICES ASSUME TypeOK, HasSelected, TypeOK', StreamInv, [Next]_vars
                 PROVE  StreamInv'
        OBVIOUS
    <2>1. ASSUME lost', pending' \subseteq pending, clicks' = clicks
          PROVE  StreamInv'
        BY <2>1 DEF StreamInv, Undisturbed, Numbered
    <2>2. ASSUME NEW m \in Masters, NEW s \in Servers, LoseLink(m, s)
          PROVE  StreamInv'
        BY <2>1, <2>2 DEF LoseLink
    <2>3. ASSUME NEW m \in Masters, NEW s \in Servers, NEW p \in Ports, OnOpen(m, s, p)
          PROVE  StreamInv'
        <3>1. /\ ~Linked(m, s) /\ port' = [port EXCEPT ![<<m, s>>] = p]
              /\ UNCHANGED <<pending, clicks, streaming, popup, selected, overtaken, twice>>
            BY <2>3 DEF OnOpen, messages, screen
        <3>2. \A k \in Masters, r \in Servers : Linked(k, r) => Linked(k, r)'
            BY <3>1, Pairs DEF Linked, TypeOK
        <3>3. ~lost' => ~lost
            BY <2>3, Zenon DEF OnOpen
        <3> QED
            BY <3>1, <3>2, <3>3, QuietStep
    <2>4. ASSUME NEW s \in Servers, NEW ch \in Channels, OnClose(s, ch)
          PROVE  StreamInv'
        <3>1. UNCHANGED <<port, pending, clicks, streaming, popup, selected, overtaken, twice, lost>>
            BY <2>4 DEF OnClose, messages, screen
        <3> QED
            BY <3>1, QuietStep DEF Linked
    <2>5. ASSUME NEW m \in Masters, PopupOpens(m)
          PROVE  StreamInv'
        <3>1. /\ UNCHANGED <<port, pending, clicks, streaming, selected, overtaken, twice, lost>>
              /\ \A k \in Masters : popup'[k] = "closed" <=> popup[k] = "closed"
            BY <2>5 DEF PopupOpens, relay, messages, TypeOK
        <3> QED
            BY <3>1, QuietStep DEF Linked
    <2>6. ASSUME NEW m \in Masters, GiveUp(m) \/ Drop(m) \/ Retry(m)
          PROVE  StreamInv'
        <3>1. UNCHANGED <<port, pending, clicks, streaming, popup, selected, overtaken, twice, lost>>
            BY <2>6 DEF GiveUp, Drop, Retry, relay, messages
        <3> QED
            BY <3>1, QuietStep DEF Linked
    <2>7. CASE Clicks
        BY <2>6, <2>7, SelectStep, SwitchStep, CancelStep, ClosePreviewStep DEF Clicks
    <2>8. CASE Handle
        BY <2>8, HandleStep DEF Handle
    <2>9. ASSUME NEW msg \in pending, PreviewActionFails(msg)
          PROVE  StreamInv'
        BY <2>1, <2>9 DEF PreviewActionFails
    <2>10. ASSUME NEW c \in Cameras, NEW m \in Masters, Relay(c, m)
          PROVE  StreamInv'
        <3>1. UNCHANGED <<port, pending, clicks, streaming, popup, selected, overtaken, twice, lost>>
            BY <2>10 DEF Relay, relay, messages
        <3> QED
            BY <3>1, QuietStep DEF Linked
    <2>11. CASE UNCHANGED vars
        <3>1. UNCHANGED <<port, pending, clicks, streaming, popup, selected, overtaken, twice, lost>>
            BY <2>11 DEF vars
        <3> QED
            BY <3>1, QuietStep DEF Linked
    <2> QED
        BY <2>2, <2>3, <2>4, <2>5, <2>6, <2>7, <2>8, <2>9, <2>10, <2>11, Zenon DEF Next
<1>3. TypeOK /\ HasSelected /\ StreamInv => StreamsAsSelected
    <2> SUFFICES ASSUME TypeOK, HasSelected, StreamInv, Undisturbed, pending = {}
                 PROVE  /\ streaming \subseteq Wanted
                        /\ Cardinality(Masters) = 1 => Wanted \subseteq streaming
        BY DEF StreamsAsSelected
    <2>1. \A c \in streaming : \E m \in Masters : Watching(m, c)
        BY DEF StreamInv, StreamsEnd
    <2>2. streaming \subseteq Wanted
        BY <2>1 DEF Watching, Wanted
    <2>3. ASSUME Cardinality(Masters) = 1, NEW c \in Wanted
          PROVE  c \in streaming
        BY <2>3 DEF StreamInv, WatchedStreams, Watching, Wanted, HasSelected, TypeOK
    <2> QED
        BY <2>2, <2>3
<1> QED
    BY <1>1, <1>2, <1>3, TypeCorrect, PTL DEF Spec
=============================================================================
