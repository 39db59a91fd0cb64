--------------------------- MODULE PreviewProofs ---------------------------
(***************************************************************************)
(* Theorems about Preview, for any masters, servers, cameras and bounds.   *)
(***************************************************************************)
EXTENDS Preview, TLAPS

EntryType == [ch : Channels, fd : Fds \cup {NoFd}]

\* What an entry consists of.
LEMMA EntryParts ==
    ASSUME NEW ch \in Channels, NEW fd \in Fds \cup {NoFd}
    PROVE  /\ Entry(ch, fd) \in EntryType
           /\ Entry(ch, fd).ch = ch
           /\ Entry(ch, fd).fd = fd
BY DEF Entry, EntryType

\* A master and a server make a link, a master and a port a channel.
LEMMA Pairs ==
    /\ \A m \in Masters, s \in Servers : <<m, s>> \in Links
    /\ \A m \in Masters, p \in Ports : <<m, p>> \in Channels
BY DEF Links, Channels

\* A message of a click is one of the messages there can be.
LEMMA MessageType ==
    ASSUME NEW m \in Masters, NEW s \in Servers, NEW name \in {"start", "stop"},
           NEW c \in Cameras \cup {NoCamera}, NEW n \in 0..(2 * MaxClicks)
    PROVE  Message(m, s, name, c, n) \in Messages
BY DEF Message, Messages

\* A socket that is given is none that is open, or an error.
LEMMA NewFdsType ==
    ASSUME NEW s \in Servers, NEW fd \in NewFds(s)
    PROVE  fd \in Fds \cup {NoFd} /\ fd \notin sockets[s] \cap Fds
BY PreviewAssumption DEF NewFds

\* A click leaves room for the numbers of its two messages.
LEMMA ClickNumbers ==
    ASSUME TypeOK, clicks < MaxClicks
    PROVE  /\ 2 * clicks \in 0..(2 * MaxClicks)
           /\ 2 * clicks + 1 \in 0..(2 * MaxClicks)
           /\ clicks + 1 \in 0..MaxClicks
<1>1. clicks \in Nat /\ MaxClicks \in Nat
    BY PreviewAssumption DEF TypeOK
<1> QED
    BY <1>1

\* What preview_end sends.
LEMMA StopType ==
    ASSUME TypeOK, NEW m \in Masters, NEW n \in 0..(2 * MaxClicks), selected[m] # NoCamera
    PROVE  Stop(m, n) \subseteq Messages
<1>1. selected[m] \in Cameras /\ Home[selected[m]] \in Servers
    BY PreviewAssumption DEF TypeOK
<1>2. Message(m, Home[selected[m]], "stop", selected[m], n) \in Messages
    BY <1>1, MessageType
<1> QED
    BY <1>2 DEF Stop

\* A reader that starts tries, or is over at once.
LEMMA StarterType ==
    ASSUME TypeOK, NEW m \in Masters, ReaderStarts(m)
    PROVE  reader' \in [Masters -> {"none", "trying", "reading", "dropped", "over"}]
BY DEF ReaderStarts, TypeOK

-----------------------------------------------------------------------------
(* Type correctness.  A popup that is open has a camera selected. *)

HasSelected == \A m \in Masters : popup[m] # "closed" => selected[m] # NoCamera

\* Every reachable state is well typed, and no popup is open without a camera.
THEOREM TypeCorrect == Spec => [](TypeOK /\ HasSelected)
<1>1. Init => TypeOK /\ HasSelected
    <2> SUFFICES ASSUME Init
                 PROVE  TypeOK /\ HasSelected
        OBVIOUS
    <2>1. /\ port \in [Links -> Ports \cup {NoPort}]
          /\ ended \in [Servers -> SUBSET Channels]
          /\ broadcast_addrs \in [Servers -> SUBSET EntryType]
          /\ sockets \in [Servers -> SUBSET Fds]
        BY DEF Init
    <2>2. /\ pending \subseteq Messages
          /\ streaming \subseteq Cameras
          /\ popup \in [Masters -> {"closed", "opening", "open"}]
          /\ selected \in [Masters -> Cameras \cup {NoCamera}]
          /\ shown \in [Masters -> Cameras \cup {NoCamera}]
          /\ reader \in [Masters -> {"none", "trying", "reading", "dropped", "over"}]
        BY DEF Init
    <2>3. overtaken \in BOOLEAN /\ lost \in BOOLEAN /\ twice \in BOOLEAN
        BY Zenon DEF Init
    <2>4. clicks \in 0..MaxClicks
        BY PreviewAssumption DEF Init
    <2>5. HasSelected
        BY DEF Init, HasSelected
    <2> QED
        BY <2>1, <2>2, <2>3, <2>4, <2>5, Zenon DEF TypeOK, EntryType
<1>2. TypeOK /\ HasSelected /\ [Next]_vars => (TypeOK /\ HasSelected)'
    <2> SUFFICES ASSUME TypeOK, HasSelected, [Next]_vars
                 PROVE  TypeOK' /\ HasSelected'
        OBVIOUS
    <2> USE DEF relay, messages, screen
    <2>1. ASSUME NEW m \in Masters, NEW s \in Servers, NEW p \in Ports, OnOpen(m, s, p)
          PROVE  TypeOK' /\ HasSelected'
        <3>1. /\ port' \in [Links -> Ports \cup {NoPort}]
              /\ UNCHANGED <<ended, pending, clicks, streaming, popup, selected, shown,
                             reader, twice, overtaken>>
            BY <2>1 DEF OnOpen, TypeOK
        <3>2. /\ broadcast_addrs' \in [Servers -> SUBSET EntryType]
              /\ sockets' \in [Servers -> SUBSET Fds]
              /\ lost' \in BOOLEAN
            <4>1. CASE UNCHANGED <<broadcast_addrs, sockets, lost>>
                BY <4>1 DEF TypeOK, EntryType
            <4>2. ASSUME NEW fd \in NewFds(s),
                         broadcast_addrs' =
                           [broadcast_addrs EXCEPT ![s] = @ \cup {Entry(<<m, p>>, fd)}],
                         sockets' = [sockets EXCEPT ![s] = @ \cup ({fd} \cap Fds)],
                         lost' = (lost \/ fd = NoFd)
                  PROVE  <3>2!1 /\ <3>2!2 /\ <3>2!3
                <5>1. Entry(<<m, p>>, fd) \in EntryType
                    BY NewFdsType, EntryParts, Pairs
                <5>2. broadcast_addrs' \in [Servers -> SUBSET EntryType]
                    BY <4>2, <5>1 DEF TypeOK, EntryType
                <5>3. sockets' \in [Servers -> SUBSET Fds]
                    BY <4>2 DEF TypeOK
                <5>4. lost' \in BOOLEAN
                    BY <4>2, Zenon
                <5> QED
                    BY <5>2, <5>3, <5>4
            <4> QED
                BY <2>1, <4>1, <4>2, Zenon DEF OnOpen
        <3> QED
            BY <3>1, <3>2 DEF TypeOK, HasSelected, EntryType
    <2>2. ASSUME NEW m \in Masters, NEW s \in Servers, LoseLink(m, s)
          PROVE  TypeOK' /\ HasSelected'
        <3>1. <<m, port[<<m, s>>]>> \in Channels
            BY <2>2, Pairs DEF LoseLink, Linked, TypeOK
        <3>2. port' \in [Links -> Ports \cup {NoPort}] /\ ended' \in [Servers -> SUBSET Channels]
            BY <2>2, <3>1 DEF LoseLink, TypeOK
        <3>3. pending' \subseteq Messages
            BY <2>2 DEF LoseLink, TypeOK
        <3> QED
            BY <2>2, <3>2, <3>3 DEF LoseLink, TypeOK, HasSelected
    <2>3. ASSUME NEW s \in Servers, NEW ch \in Channels, OnClose(s, ch)
          PROVE  TypeOK' /\ HasSelected'
        <3>1. ended' \in [Servers -> SUBSET Channels]
            BY <2>3 DEF OnClose, TypeOK
        <3>2. /\ broadcast_addrs' \in [Servers -> SUBSET EntryType]
              /\ sockets' \in [Servers -> SUBSET Fds]
            <4>1. CASE UNCHANGED <<broadcast_addrs, sockets>>
                BY <4>1 DEF TypeOK, EntryType
            <4>2. ASSUME NEW e \in broadcast_addrs[s],
                         broadcast_addrs' = [broadcast_addrs EXCEPT ![s] = @ \ {e}],
                         sockets' = [sockets EXCEPT ![s] = @ \ {e.fd}]
                  PROVE  <3>2!1 /\ <3>2!2
                BY <4>2 DEF TypeOK, EntryType
            <4> QED
                BY <2>3, <4>1, <4>2, Zenon DEF OnClose
        <3> QED
            BY <2>3, <3>1, <3>2 DEF OnClose, TypeOK, HasSelected, EntryType
    <2>4. ASSUME NEW m \in Masters, NEW c \in Cameras, Select(m, c)
          PROVE  TypeOK' /\ HasSelected'
        <3>1. Message(m, Home[c], "start", c, 2 * clicks) \in Messages
            BY <2>4, ClickNumbers, MessageType, PreviewAssumption DEF Select
        <3>2. pending' \subseteq Messages /\ clicks' \in 0..MaxClicks
            BY <2>4, <3>1, ClickNumbers DEF Select, TypeOK
        <3>3. c # NoCamera
            BY PreviewAssumption
        <3>4. twice' \in BOOLEAN
            BY <2>4, Zenon DEF Select
        <3> QED
            BY <2>4, <3>2, <3>3, <3>4 DEF Select, TypeOK, HasSelected
    <2>5. ASSUME NEW m \in Masters, PopupOpens(m)
          PROVE  TypeOK' /\ HasSelected'
        BY <2>5, StarterType DEF PopupOpens, TypeOK, HasSelected
    <2>6. ASSUME NEW m \in Masters, NEW c \in Cameras, Switch(m, c)
          PROVE  TypeOK' /\ HasSelected'
        <3>1. Message(m, Home[c], "start", c, 2 * clicks + 1) \in Messages
            BY <2>6, ClickNumbers, MessageType, PreviewAssumption DEF Switch
        <3>2. Stop(m, 2 * clicks) \subseteq Messages
            BY <2>6, ClickNumbers, StopType DEF Switch, HasSelected
        <3>3. pending' \subseteq Messages /\ clicks' \in 0..MaxClicks
            BY <2>6, <3>1, <3>2, ClickNumbers DEF Switch, TypeOK
        <3>4. c # NoCamera
            BY PreviewAssumption
        <3> QED
            BY <2>6, <3>3, <3>4 DEF Switch, TypeOK, HasSelected
    <2>7. ASSUME NEW m \in Masters, Cancel(m)
          PROVE  TypeOK' /\ HasSelected'
        <3>1. Stop(m, 2 * clicks) \subseteq Messages
            BY <2>7, ClickNumbers, StopType DEF Cancel, HasSelected
        <3>2. pending' \subseteq Messages /\ clicks' \in 0..MaxClicks
            BY <2>7, <3>1, ClickNumbers DEF Cancel, TypeOK
        <3> QED
            BY <2>7, <3>2 DEF Cancel, TypeOK, HasSelected
    <2>8. ASSUME NEW m \in Masters, NEW s \in Servers, ClosePreview(m, s)
          PROVE  TypeOK' /\ HasSelected'
        <3>1. Message(m, s, "stop", NoCamera, 2 * clicks) \in Messages
            BY <2>8, ClickNumbers, MessageType DEF ClosePreview
        <3>2. pending' \subseteq Messages /\ clicks' \in 0..MaxClicks
            BY <2>8, <3>1, ClickNumbers DEF ClosePreview, TypeOK
        <3> QED
            BY <2>8, <3>2 DEF ClosePreview, TypeOK, HasSelected
    <2>9. ASSUME NEW msg \in pending, PreviewAction(msg)
          PROVE  TypeOK' /\ HasSelected'
        <3>1. msg \in Messages
            BY DEF TypeOK
        <3>2. Targets(msg) \subseteq Cameras
            BY <3>1 DEF Targets, Messages
        <3>3. streaming' = streaming \cup Targets(msg) \/ streaming' = streaming \ Targets(msg)
            BY <2>9, Zenon DEF PreviewAction
        <3>4. overtaken' \in BOOLEAN
            BY <2>9, Zenon DEF PreviewAction
        <3>5. /\ pending' \subseteq Messages
              /\ UNCHANGED <<port, ended, broadcast_addrs, sockets, clicks, popup, selected,
                             shown, reader, twice, lost>>
            BY <2>9 DEF PreviewAction, TypeOK
        <3>6. streaming' \subseteq Cameras
            BY <3>2, <3>3 DEF TypeOK
        <3> QED
            BY <3>4, <3>5, <3>6 DEF TypeOK, HasSelected
    <2>10. ASSUME NEW msg \in pending, PreviewActionFails(msg)
           PROVE  TypeOK' /\ HasSelected'
        BY <2>10 DEF PreviewActionFails, TypeOK, HasSelected
    <2>11. ASSUME NEW c \in Cameras, NEW m \in Masters, Relay(c, m)
           PROVE  TypeOK' /\ HasSelected'
        BY <2>11 DEF Relay, TypeOK, HasSelected
    <2>12. ASSUME NEW m \in Masters, GiveUp(m) \/ Drop(m)
           PROVE  TypeOK' /\ HasSelected'
        <3>1. reader' \in [Masters -> {"none", "trying", "reading", "dropped", "over"}]
            BY <2>12 DEF GiveUp, Drop, TypeOK
        <3>2. UNCHANGED <<relay, messages, streaming, popup, selected, shown, twice, overtaken, lost>>
            BY <2>12 DEF GiveUp, Drop
        <3> QED
            BY <3>1, <3>2 DEF TypeOK, HasSelected
    <2>13. ASSUME NEW m \in Masters, Retry(m)
           PROVE  TypeOK' /\ HasSelected'
        BY <2>13, StarterType DEF Retry, TypeOK, HasSelected
    <2>14. CASE UNCHANGED vars
        BY <2>14 DEF vars, TypeOK, HasSelected
    <2> QED
        BY <2>1, <2>2, <2>3, <2>4, <2>5, <2>6, <2>7, <2>8, <2>9, <2>10, <2>11, <2>12, <2>13,
           <2>14, Zenon
        DEF Next, Clicks, Handle
<1> QED
    BY <1>1, <1>2, PTL DEF Spec

-----------------------------------------------------------------------------
(***************************************************************************)
(* The entries of the relay.  What carries it: a channel that has ended is *)
(* not one that its master is connected by, since a port in use is not     *)
(* given again.  So a channel that opens has no entry yet, and one that    *)
(* closes is open no longer.                                               *)
(***************************************************************************)

Apart == \A l \in Links : <<l[1], port[l]>> \notin ended[l[2]]

RelayInv == EntriesAreChannels /\ Apart

\* What it says of one server.
EntriesOf(s) ==
    /\ {e.ch : e \in broadcast_addrs[s]} = Open(s)
    /\ {e.fd : e \in broadcast_addrs[s]} \cap Fds = sockets[s]
    /\ \A e, f \in broadcast_addrs[s] : e.ch = f.ch \/ (e.fd = f.fd /\ e.fd # NoFd) => e = f

\* A master that connects gets a fresh entry.
LEMMA OpenStep ==
    ASSUME TypeOK, RelayInv, NEW m \in Masters, NEW s \in Servers, NEW p \in Ports,
           OnOpen(m, s, p)
    PROVE  RelayInv'
<1> DEFINE ch == <<m, p>>
<1>1. ch \in Channels /\ <<m, s>> \in Links /\ p # NoPort
    BY Pairs, PreviewAssumption
<1>2. /\ port[<<m, s>>] = NoPort
      /\ port' = [port EXCEPT ![<<m, s>>] = p]
      /\ ended' = ended
      /\ ch \notin ended[s]
    BY DEF OnOpen, Linked
<1>3. /\ port'[<<m, s>>] = p
      /\ \A l \in Links \ {<<m, s>>} : port'[l] = port[l]
    BY <1>1, <1>2 DEF TypeOK
<1>4. ch \notin Open(s)
    BY <1>1, <1>2 DEF Open
<1>5. PICK fd \in NewFds(s) :
          /\ broadcast_addrs' = [broadcast_addrs EXCEPT ![s] = @ \cup {Entry(ch, fd)}]
          /\ sockets' = [sockets EXCEPT ![s] = @ \cup ({fd} \cap Fds)]
    BY <1>4 DEF OnOpen, Listed, RelayInv, EntriesAreChannels
<1>6. PICK new \in EntryType : new = Entry(ch, fd) /\ new.ch = ch /\ new.fd = fd
    BY <1>1, NewFdsType, EntryParts
<1>7. /\ broadcast_addrs'[s] = broadcast_addrs[s] \cup {new}
      /\ sockets'[s] = sockets[s] \cup ({fd} \cap Fds)
      /\ \A r \in Servers \ {s} : broadcast_addrs'[r] = broadcast_addrs[r] /\ sockets'[r] = sockets[r]
    BY <1>5, <1>6 DEF TypeOK
<1>8. /\ Open(s)' = Open(s) \cup {ch}
      /\ \A r \in Servers \ {s} : Open(r)' = Open(r)
    <2>1. \A c \in Channels, r \in Servers : <<c[1], r>> \in Links /\ c = <<c[1], c[2]>>
        BY DEF Channels, Links
    <2>2. ASSUME NEW c \in Channels
          PROVE  c[2] = port'[<<c[1], s>>] <=> c[2] = port[<<c[1], s>>] \/ c = ch
        <3>1. CASE c[1] = m
            <4>1. c = <<m, c[2]>> /\ c[2] # NoPort
                BY <3>1, <2>1, PreviewAssumption DEF Channels
            <4> QED
                BY <3>1, <4>1, <1>2, <1>3
        <3>2. CASE c[1] # m
            <4>1. <<c[1], s>> \in Links \ {<<m, s>>} /\ c # ch
                BY <3>2, <2>1
            <4> QED
                BY <4>1, <1>3
        <3> QED
            BY <3>1, <3>2
    <2>3. Open(s)' = Open(s) \cup {ch}
        BY <2>2, <1>1, <1>2 DEF Open
    <2>4. ASSUME NEW r \in Servers \ {s}, NEW c \in Channels
          PROVE  port'[<<c[1], r>>] = port[<<c[1], r>>]
        BY <2>1, <1>3
    <2>5. \A r \in Servers \ {s} : Open(r)' = Open(r)
        BY <2>4, <1>2 DEF Open
    <2> QED
        BY <2>3, <2>5
<1>9. EntriesOf(s)'
    <2>1. EntriesOf(s)
        BY DEF EntriesOf, RelayInv, EntriesAreChannels
    <2>2. {e.ch : e \in broadcast_addrs'[s]} = Open(s)'
        BY <2>1, <1>6, <1>7, <1>8 DEF EntriesOf
    <2>3. fd \in Fds \cup {NoFd} /\ fd \notin sockets[s] \cap Fds
        BY NewFdsType
    <2>4. {e.fd : e \in broadcast_addrs'[s]} \cap Fds = sockets'[s]
        BY <2>1, <1>6, <1>7 DEF EntriesOf
    <2>5. \A e \in broadcast_addrs[s] : e.ch # new.ch /\ (e.fd = new.fd => e.fd = NoFd)
        BY <2>1, <2>3, <1>4, <1>6 DEF EntriesOf
    <2>6. \A e, f \in broadcast_addrs'[s] :
              e.ch = f.ch \/ (e.fd = f.fd /\ e.fd # NoFd) => e = f
        BY <2>1, <2>5, <1>7 DEF EntriesOf
    <2> QED
        BY <2>2, <2>4, <2>6 DEF EntriesOf
<1>10. \A r \in Servers \ {s} : EntriesOf(r)'
    BY <1>7, <1>8 DEF EntriesOf, RelayInv, EntriesAreChannels
<1>11. EntriesAreChannels'
    BY <1>9, <1>10 DEF EntriesOf, EntriesAreChannels
<1>12. Apart'
    BY <1>1, <1>2, <1>3 DEF Apart, RelayInv, Links
<1> QED
    BY <1>11, <1>12 DEF RelayInv

\* A connection that is lost is open for its server as long as that has not seen its end.
LEMMA LoseStep ==
    ASSUME TypeOK, RelayInv, NEW m \in Masters, NEW s \in Servers, LoseLink(m, s)
    PROVE  RelayInv'
<1>1. PICK gone \in Channels : gone = <<m, port[<<m, s>>]>>
    BY Pairs DEF LoseLink, Linked, TypeOK
<1>2. /\ <<m, s>> \in Links
      /\ port' = [port EXCEPT ![<<m, s>>] = NoPort]
      /\ ended' = [ended EXCEPT ![s] = @ \cup {gone}]
      /\ broadcast_addrs' = broadcast_addrs
      /\ sockets' = sockets
    BY <1>1, Pairs DEF LoseLink
<1>3. /\ port'[<<m, s>>] = NoPort
      /\ \A l \in Links \ {<<m, s>>} : port'[l] = port[l]
      /\ ended'[s] = ended[s] \cup {gone}
      /\ \A r \in Servers \ {s} : ended'[r] = ended[r]
    BY <1>2 DEF TypeOK
<1>4. \A c \in Channels : /\ c = <<c[1], c[2]>>
                          /\ c[2] # NoPort
                          /\ \A r \in Servers : <<c[1], r>> \in Links
    BY PreviewAssumption DEF Channels, Links
<1>5. Open(s)' = Open(s)
    <2>1. ASSUME NEW c \in Channels
          PROVE  c[2] = port'[<<c[1], s>>] \/ c = gone <=> c[2] = port[<<c[1], s>>]
        <3>1. CASE c[1] = m
            BY <3>1, <1>1, <1>3, <1>4
        <3>2. CASE c[1] # m
            <4>1. <<c[1], s>> \in Links \ {<<m, s>>} /\ c # gone
                BY <3>2, <1>1, <1>4
            <4> QED
                BY <4>1, <1>3
        <3> QED
            BY <3>1, <3>2
    <2> QED
        BY <2>1, <1>1, <1>3 DEF Open
<1>6. \A r \in Servers \ {s} : Open(r)' = Open(r)
    <2>1. ASSUME NEW r \in Servers \ {s}, NEW c \in Channels
          PROVE  port'[<<c[1], r>>] = port[<<c[1], r>>]
        BY <1>3, <1>4
    <2> QED
        BY <2>1, <1>3 DEF Open
<1>7. EntriesAreChannels'
    BY <1>2, <1>5, <1>6 DEF RelayInv, EntriesAreChannels
<1>8. Apart'
    <2>1. ASSUME NEW l \in Links
          PROVE  <<l[1], port'[l]>> \notin ended'[l[2]]
        <3>1. l[1] \in Masters /\ l[2] \in Servers /\ l = <<l[1], l[2]>>
            BY DEF Links
        <3>2. CASE l = <<m, s>>
            <4>1. <<m, NoPort>> \notin Channels
                BY <1>4
            <4> QED
                BY <3>2, <4>1, <1>1, <1>3 DEF TypeOK
        <3>3. CASE l # <<m, s>>
            <4>1. port'[l] = port[l] /\ <<l[1], port[l]>> \notin ended[l[2]]
                BY <3>3, <1>3 DEF RelayInv, Apart
            <4>2. CASE l[2] = s
                BY <4>1, <4>2, <3>1, <3>3, <1>1, <1>3
            <4>3. CASE l[2] # s
                BY <4>1, <4>3, <3>1, <1>3
            <4> QED
                BY <4>2, <4>3
        <3> QED
            BY <3>2, <3>3
    <2> QED
        BY <2>1 DEF Apart
<1> QED
    BY <1>7, <1>8 DEF RelayInv

\* A channel whose end is seen has one entry, which leaves with its socket.
LEMMA CloseStep ==
    ASSUME TypeOK, RelayInv, NEW s \in Servers, NEW ch \in Channels, OnClose(s, ch)
    PROVE  RelayInv'
<1>1. /\ port' = port
      /\ ended' = [ended EXCEPT ![s] = @ \ {ch}]
      /\ ch \in ended[s]
    BY DEF OnClose
<1>2. /\ ended'[s] = ended[s] \ {ch}
      /\ \A r \in Servers \ {s} : ended'[r] = ended[r]
    BY <1>1 DEF TypeOK
<1>3. ch[2] # port[<<ch[1], s>>]
    <2>1. <<ch[1], s>> \in Links /\ ch = <<ch[1], ch[2]>>
        BY DEF Channels, Links
    <2> QED
        BY <2>1, <1>1 DEF RelayInv, Apart
<1>4. /\ Open(s)' = Open(s) \ {ch}
      /\ \A r \in Servers \ {s} : Open(r)' = Open(r)
    BY <1>1, <1>2, <1>3 DEF Open
<1>5. PICK e \in broadcast_addrs[s] :
          /\ e.ch = ch
          /\ broadcast_addrs' = [broadcast_addrs EXCEPT ![s] = @ \ {e}]
          /\ sockets' = [sockets EXCEPT ![s] = @ \ {e.fd}]
    <2>1. ch \in Open(s)
        BY <1>1 DEF Open
    <2>2. Listed(s, ch)
        BY <2>1 DEF Listed, RelayInv, EntriesAreChannels
    <2> QED
        BY <2>2 DEF OnClose
<1>6. /\ broadcast_addrs'[s] = broadcast_addrs[s] \ {e}
      /\ sockets'[s] = sockets[s] \ {e.fd}
      /\ \A r \in Servers \ {s} : broadcast_addrs'[r] = broadcast_addrs[r] /\ sockets'[r] = sockets[r]
    BY <1>5 DEF TypeOK
<1>7. EntriesOf(s)'
    <2>1. EntriesOf(s)
        BY DEF EntriesOf, RelayInv, EntriesAreChannels
    <2>2. {f.ch : f \in broadcast_addrs'[s]} = Open(s)'
        BY <2>1, <1>4, <1>5, <1>6 DEF EntriesOf
    <2>3. {f.fd : f \in broadcast_addrs'[s]} \cap Fds = sockets'[s]
        <3>1. \A f \in broadcast_addrs[s] \ {e} : f.fd \in Fds => f.fd # e.fd
            BY <2>1, PreviewAssumption DEF EntriesOf
        <3> QED
            BY <2>1, <3>1, <1>6 DEF EntriesOf
    <2>4. \A d, f \in broadcast_addrs'[s] :
              d.ch = f.ch \/ (d.fd = f.fd /\ d.fd # NoFd) => d = f
        BY <2>1, <1>6 DEF EntriesOf
    <2> QED
        BY <2>2, <2>3, <2>4 DEF EntriesOf
<1>8. \A r \in Servers \ {s} : EntriesOf(r)'
    BY <1>4, <1>6 DEF EntriesOf, RelayInv, EntriesAreChannels
<1>9. EntriesAreChannels'
    BY <1>7, <1>8 DEF EntriesOf, EntriesAreChannels
<1>10. Apart'
    <2>1. \A r \in Servers : ended'[r] \subseteq ended[r]
        BY <1>2
    <2>2. \A l \in Links : l[2] \in Servers
        BY DEF Links
    <2> QED
        BY <2>1, <2>2, <1>1 DEF Apart, RelayInv
<1> QED
    BY <1>9, <1>10 DEF RelayInv

\* However often masters come and go, the relay has exactly one entry, with a socket of
\* its own, for each channel that has not been seen to end: no entry stays behind, and
\* no socket leaks.
THEOREM EntriesAreChannelsCorrect == Spec => []EntriesAreChannels
<1>1. Init => RelayInv
    <2> SUFFICES ASSUME Init
                 PROVE  RelayInv
        OBVIOUS
    <2>1. \A c \in Channels, s \in Servers : c[2] # NoPort /\ <<c[1], s>> \in Links
        BY PreviewAssumption DEF Channels, Links
    <2>2. \A s \in Servers : Open(s) = {}
        BY <2>1 DEF Init, Open
    <2>3. EntriesAreChannels
        BY <2>2 DEF Init, EntriesAreChannels
    <2>4. Apart
        BY DEF Init, Apart, Links
    <2> QED
        BY <2>3, <2>4 DEF RelayInv
<1>2. TypeOK /\ RelayInv /\ [Next]_vars => RelayInv'
    <2> SUFFICES ASSUME TypeOK, RelayInv, [Next]_vars
                 PROVE  RelayInv'
        OBVIOUS
    <2>1. ASSUME UNCHANGED relay
          PROVE  RelayInv'
        BY <2>1 DEF relay, RelayInv, EntriesAreChannels, Apart, Open
    <2>2. ASSUME NEW m \in Masters, NEW s \in Servers,
                 LoseLink(m, s) \/ \E p \in Ports : OnOpen(m, s, p)
          PROVE  RelayInv'
        BY <2>2, LoseStep, OpenStep
    <2>3. ASSUME NEW s \in Servers, NEW ch \in Channels, OnClose(s, ch)
          PROVE  RelayInv'
        BY <2>3, CloseStep
    <2>4. ASSUME Clicks
          PROVE  UNCHANGED relay
        BY <2>4 DEF Clicks, Select, Switch, Cancel, Retry, ClosePreview
    <2>5. ASSUME NEW m \in Masters, PopupOpens(m) \/ GiveUp(m) \/ Drop(m)
          PROVE  UNCHANGED relay
        BY <2>5 DEF PopupOpens, GiveUp, Drop
    <2>6. ASSUME Handle \/ \E msg \in pending : PreviewActionFails(msg)
          PROVE  UNCHANGED relay
        BY <2>6 DEF Handle, PreviewAction, PreviewActionFails
    <2>7. ASSUME NEW c \in Cameras, NEW m \in Masters, Relay(c, m)
          PROVE  UNCHANGED relay
        BY <2>7 DEF Relay
    <2>8. CASE UNCHANGED vars
        BY <2>8, <2>1 DEF vars, relay
    <2> QED
        BY <2>1, <2>2, <2>3, <2>4, <2>5, <2>6, <2>7, <2>8, Zenon DEF Next
<1>3. RelayInv => EntriesAreChannels
    BY DEF RelayInv
<1> QED
    BY <1>1, <1>2, <1>3, TypeCorrect, PTL DEF Spec
=============================================================================
