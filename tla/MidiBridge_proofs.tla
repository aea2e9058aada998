---------------------------- MODULE MidiBridge_proofs ---------------------------
(***************************************************************************)
(* Theorems about MidiBridge, for every set of devices and every capacity   *)
(* of the channels, and about MidiWatcher, the thread its lists come from.  *)
(* The bridge's four invariants are inductive together.                     *)
(***************************************************************************)
EXTENDS MidiBridge, TLAPS

Safety == Init /\ [][Next]_vars

-----------------------------------------------------------------------------
(* The flags and the device *)

Inv == TypeOK /\ OutputIsHonest /\ CoolingIsIdle

LEMMA InitInv == Init => Inv
<1> SUFFICES ASSUME Init PROVE Inv
  OBVIOUS
<1>1. changes \in Seq(Selection) /\ Len(changes) <= ChangeCap
  BY BridgeAssumption DEF Init
<1>2. lists \in Seq(SUBSET Device) /\ Len(lists) <= ListCap
  <2>1. Listed \subseteq SUBSET Device
    BY DEF Init, Listed
  <2>2. ASSUME NEW list \in SUBSET Device
        PROVE  <<list>> \in Seq(SUBSET Device) /\ Len(<<list>>) = 1
    OBVIOUS
  <2>3. <<>> \in Seq(SUBSET Device) /\ Len(<<>>) = 0
    OBVIOUS
  <2>4. 0 <= ListCap /\ 1 <= ListCap
    BY BridgeAssumption
  <2>5. lists = <<>> \/ \E list \in SUBSET Device : lists = <<list>>
    BY <2>1 DEF Init
  <2>6. CASE lists = <<>>
    BY <2>3, <2>4, <2>6, Zenon
  <2> QED
    BY <2>2, <2>4, <2>5, <2>6
<1>3. OutputIsHonest /\ CoolingIsIdle
  BY DEF Init, OutputIsHonest, CoolingIsIdle
<1>4. backlog \in [Loopback -> 0..PortCap]
  BY BridgeAssumption DEF Init
<1> QED
  BY <1>1, <1>2, <1>3, <1>4 DEF Init, Inv, TypeOK, Selection

\* Actions that open and close nothing.
LEMMA SurroundingsInv ==
  ASSUME Inv, Plug \/ Watch \/ ToggleAuto \/ Cooled
  PROVE  Inv'
<1>1. CASE Plug
  BY <1>1 DEF Plug, Inv, TypeOK, OutputIsHonest, CoolingIsIdle, user, conns
<1>2. CASE Watch
  <2>1. \A list \in SUBSET Device :
          /\ Append(lists, list) \in Seq(SUBSET Device)
          /\ Len(Append(lists, list)) = Len(lists) + 1
    BY DEF Inv, TypeOK
  <2>2. lists' \in Seq(SUBSET Device) /\ Len(lists') = Len(lists) + 1
    BY <1>2, <2>1 DEF Watch, Listed, Inv, TypeOK
  <2>3. Len(lists') <= ListCap
    BY <1>2, <2>2, BridgeAssumption DEF Watch, Inv, TypeOK
  <2> QED
    BY <1>2, <2>2, <2>3 DEF Watch, Inv, TypeOK, OutputIsHonest, CoolingIsIdle, user, conns
<1>3. CASE ToggleAuto
  BY <1>3 DEF ToggleAuto, Inv, TypeOK, OutputIsHonest, CoolingIsIdle, conns
<1>4. CASE Cooled
  BY <1>4 DEF Cooled, Inv, TypeOK, OutputIsHonest, CoolingIsIdle, user, conns
<1> QED
  BY <1>1, <1>2, <1>3, <1>4

\* The registry of loopback ports and their queues.
LEMMA RegistryInv ==
  ASSUME Inv, NEW d \in Loopback, Register(d) \/ Unregister(d) \/ Drain(d)
  PROVE  Inv'
<1>1. CASE Register(d)
  BY <1>1, BridgeAssumption
  DEF Register, Inv, TypeOK, OutputIsHonest, CoolingIsIdle, user, conns
<1>2. CASE Unregister(d)
  <2>1. backlog' \in [Loopback -> 0..PortCap]
    BY <1>2, BridgeAssumption DEF Unregister, Inv, TypeOK
  <2> QED
    BY <1>2, <2>1 DEF Unregister, Inv, TypeOK, OutputIsHonest, CoolingIsIdle, user
<1>3. CASE Drain(d)
  <2>1. backlog' \in [Loopback -> 0..PortCap]
    BY <1>3, BridgeAssumption DEF Drain, Inv, TypeOK
  <2> QED
    BY <1>3, <2>1 DEF Drain, Inv, TypeOK, OutputIsHonest, CoolingIsIdle, user, conns
<1> QED
  BY <1>1, <1>2, <1>3

LEMMA SelectInv ==
  ASSUME Inv, NEW d \in Selection, Select(d) \/ Restore(d)
  PROVE  Inv'
<1>1. CASE Select(d)
  <2>1. changes' \in Seq(Selection) /\ Len(changes') <= ChangeCap
    BY <1>1, BridgeAssumption DEF Select, Inv, TypeOK
  <2>2. parted' \in BOOLEAN
    BY <1>1 DEF Select
  <2> QED
    BY <1>1, <2>1, <2>2 DEF Select, Inv, TypeOK, OutputIsHonest, CoolingIsIdle, conns
<1>2. CASE Restore(d)
  BY <1>2 DEF Restore, Inv, TypeOK, OutputIsHonest, CoolingIsIdle, conns
<1> QED
  BY <1>1, <1>2

\* A connection that is made, or not, is one to the device asked for.
LEMMA ConnectResult ==
  ASSUME Inv, NEW d \in Selection, Connect(d) \/ Drop
  PROVE  /\ out' \in {None, d} /\ out' \in Selection /\ live' \in BOOLEAN
         /\ inp' \in Selection /\ (inp' # None => inp' = out' /\ inp' \notin Loopback)
<1>1. CASE Connect(d)
  <2>1. out' \in {None, d}
    BY <1>1 DEF Connect, OpenOut, HardwareOut, Registered
  <2>2. inp' \in {None, d} /\ (inp' # None => out' # None)
    BY <1>1 DEF Connect, OpenIn, HardwareIn
  <2>3. inp' # None => inp' \in ports /\ inp' \notin Loopback
    BY <1>1 DEF Connect, OpenIn, HardwareIn, Registered
  <2> QED
    BY <1>1, <2>1, <2>2, <2>3 DEF Connect, Selection
<1>2. CASE Drop
  BY <1>2 DEF Drop, Selection
<1> QED
  BY <1>1, <1>2

LEMMA ChangeDeviceInv == ASSUME Inv, ChangeDevice PROVE Inv'
<1> DEFINE d == Head(changes)
<1>1. d \in Selection /\ changes' \in Seq(Selection) /\ Len(changes') <= ChangeCap
  BY BridgeAssumption DEF ChangeDevice, Inv, TypeOK
<1>2. Connect(d) \/ Drop
  BY DEF ChangeDevice
<1>3. /\ out' \in {None, d} /\ out' \in Selection /\ live' \in BOOLEAN
      /\ inp' \in Selection /\ (inp' # None => inp' = out' /\ inp' \notin Loopback)
  BY <1>1, <1>2, ConnectResult
<1> HIDE DEF d
<1>4. current' = d /\ ~cooling' /\ cooling' \in BOOLEAN
  BY DEF ChangeDevice, d
<1>5. connected' = (out' # None) /\ UNCHANGED <<ports, backlog, selected, auto, parted, lists>>
  BY DEF ChangeDevice
<1> QED
  BY <1>1, <1>3, <1>4, <1>5 DEF Inv, TypeOK, OutputIsHonest, CoolingIsIdle

\* What one scan does to the device and the output.
LEMMA ScanInv ==
  ASSUME Inv, NEW list \in SUBSET Device, Scan(list)
  PROVE  /\ current' \in Selection /\ out' \in {None, current'} /\ out' \in Selection
         /\ live' \in BOOLEAN
         /\ inp' \in Selection /\ (inp' # None => inp' = out' /\ inp' \notin Loopback)
         /\ selected' \in Selection /\ parted' \in BOOLEAN
         /\ connected' = (out' # None)
         /\ cooling' \in BOOLEAN /\ (cooling' => out' = None)
<1> DEFINE known == list \cup Registered
<1>1. PICK d \in Picked(known) :
        /\ current' = d /\ Pick(d)
        /\ \/ d \in known /\ out = None /\ Reopen(d)
           \/ d \notin known /\ out # None /\ Close
           \/ (d \in known <=> out # None) /\ Keep
  BY DEF Scan
<1>2. known \subseteq Device
  BY DEF Registered, Inv, TypeOK
<1>3. d \in Selection /\ (d # current => out = None)
  BY <1>1, <1>2 DEF Picked, Inv, TypeOK, OutputIsHonest, Selection
<1>4. current' = d
  BY <1>1
<1>5. selected' \in Selection /\ parted' \in BOOLEAN
  BY <1>1, <1>3 DEF Pick, Inv, TypeOK
<1>6. CASE Reopen(d)
  <2>1. /\ out' \in {None, d} /\ out' \in Selection /\ live' \in BOOLEAN
        /\ inp' \in Selection /\ (inp' # None => inp' = out' /\ inp' \notin Loopback)
    BY <1>3, <1>6, ConnectResult DEF Reopen
  <2>2. cooling' = (out' = None) /\ connected' = (out' # None)
    BY <1>6 DEF Reopen
  <2> QED
    BY <1>3, <1>4, <1>5, <2>1, <2>2
<1>7. CASE Close
  <2>1. out' = None /\ inp' = None /\ live' = FALSE /\ connected' = FALSE /\ cooling' = cooling
    BY <1>7 DEF Close, Drop
  <2>2. cooling \in BOOLEAN
    BY DEF Inv, TypeOK
  <2> QED
    BY <1>3, <1>4, <1>5, <2>1, <2>2 DEF Selection
<1>8. CASE Keep
  <2>1. connected' = (out' # None)
    BY <1>8 DEF Keep, conns, Inv, TypeOK, OutputIsHonest
  <2>2. out' \in {None, d} /\ live' \in BOOLEAN /\ cooling' \in BOOLEAN /\ ~cooling'
    BY <1>3, <1>8 DEF Keep, conns, Inv, TypeOK, OutputIsHonest, Scan
  <2>3. /\ inp' \in Selection /\ (inp' # None => inp' = out' /\ inp' \notin Loopback)
        /\ out' \in Selection
    BY <1>8 DEF Keep, conns, Inv, TypeOK, OutputIsHonest
  <2> QED
    BY <1>3, <1>4, <1>5, <2>1, <2>2, <2>3
<1> QED
  BY <1>1, <1>6, <1>7, <1>8

LEMMA TimerScanInv ==
  ASSUME Inv, NEW list \in SUBSET Device, TimerScan(list)
  PROVE  Inv'
<1>1. Scan(list) /\ UNCHANGED <<ports, backlog, auto, changes, lists>>
  BY DEF TimerScan
<1>2. OutputIsHonest' /\ CoolingIsIdle'
  BY <1>1, ScanInv DEF OutputIsHonest, CoolingIsIdle
<1>3. TypeOK'
  <2>1. out' \in Selection
    BY <1>1, ScanInv DEF Selection
  <2>2. connected' \in BOOLEAN
    BY <1>1, ScanInv
  <2> QED
    BY <1>1, <2>1, <2>2, ScanInv DEF Inv, TypeOK
<1> QED
  BY <1>2, <1>3 DEF Inv

LEMMA HearWatcherInv == ASSUME Inv, HearWatcher PROVE Inv'
<1>1. lists' \in Seq(SUBSET Device) /\ Len(lists') <= ListCap /\ Head(lists) \in SUBSET Device
  BY BridgeAssumption DEF HearWatcher, Inv, TypeOK
<1>2. CASE Scan(Head(lists))
  <2>1. OutputIsHonest' /\ CoolingIsIdle'
    BY <1>1, <1>2, ScanInv DEF OutputIsHonest, CoolingIsIdle
  <2>2. out' \in Selection /\ connected' \in BOOLEAN
    BY <1>1, <1>2, ScanInv DEF Selection
  <2>3. TypeOK'
    BY <1>1, <1>2, <2>2, ScanInv DEF HearWatcher, Inv, TypeOK
  <2> QED
    BY <2>1, <2>3 DEF Inv
<1>3. CASE cooling /\ UNCHANGED <<conns, current, selected, parted, cooling, connected>>
  BY <1>1, <1>3 DEF HearWatcher, Inv, TypeOK, OutputIsHonest, CoolingIsIdle, conns
<1> QED
  BY <1>2, <1>3 DEF HearWatcher

LEMMA PulseInv == ASSUME Inv, Pulse PROVE Inv'
<1>1. CASE Passes
  <2>1. backlog' \in [Loopback -> 0..PortCap]
    <3>1. CASE out \in Loopback
      BY <1>1, <3>1, BridgeAssumption DEF Passes, Takes, Inv, TypeOK
    <3>2. CASE out \notin Loopback
      BY <1>1, <3>2 DEF Passes, Inv, TypeOK
    <3> QED
      BY <3>1, <3>2
  <2> QED
    BY <1>1, <2>1
    DEF Pulse, Passes, conns, Inv, TypeOK, OutputIsHonest, CoolingIsIdle, user
<1>2. CASE Breaks
  BY <1>2
  DEF Pulse, Breaks, Drop, Inv, TypeOK, OutputIsHonest, CoolingIsIdle, user, Selection
<1> QED
  BY <1>1, <1>2 DEF Pulse

LEMMA NextInv == Inv /\ [Next]_vars => Inv'
<1> SUFFICES ASSUME Inv, [Next]_vars PROVE Inv'
  OBVIOUS
<1>1. CASE Plug \/ Watch \/ ToggleAuto \/ Cooled
  BY <1>1, SurroundingsInv
<1>2. CASE \E d \in Selection : Select(d) \/ Restore(d)
  BY <1>2, SelectInv
<1>8. CASE \E d \in Loopback : Register(d) \/ Unregister(d) \/ Drain(d)
  BY <1>8, RegistryInv
<1>3. CASE ChangeDevice
  BY <1>3, ChangeDeviceInv
<1>4. CASE HearWatcher
  BY <1>4, HearWatcherInv
<1>5. CASE CleanScan \/ EmptyScan
  <2>1. ports \ Loopback \in SUBSET Device /\ {} \in SUBSET Device
    BY DEF Inv, TypeOK
  <2> QED
    BY <1>5, <2>1, TimerScanInv DEF CleanScan, EmptyScan
<1>6. CASE Pulse
  BY <1>6, PulseInv
<1>7. CASE UNCHANGED vars
  BY <1>7 DEF vars, user, conns, Inv, TypeOK, OutputIsHonest, CoolingIsIdle
<1> QED
  BY <1>1, <1>2, <1>3, <1>4, <1>5, <1>6, <1>7, <1>8 DEF Next, Worker

LEMMA InvHolds == Safety => []Inv
BY InitInv, NextInv, PTL DEF Safety

\* Every reachable state of the worker and its channels is in range.
THEOREM TypeCorrect == Safety => []TypeOK
BY InvHolds, PTL DEF Inv

\* The output that is open is the current device, the flags of the editor say so, and
\* the passthrough listens to no other device.
THEOREM FlagsHonest == Safety => []OutputIsHonest
BY InvHolds, PTL DEF Inv

\* While the back-off cools down no output is open, so the scans it skips miss no
\* device that goes away.
THEOREM NothingMissed == Safety => []CoolingIsIdle
BY InvHolds, PTL DEF Inv

-----------------------------------------------------------------------------
(* The selection *)

LEMMA SelectionStep == Inv /\ SelectionFollows /\ [Next]_vars => SelectionFollows'
<1> SUFFICES ASSUME Inv, SelectionFollows, [Next]_vars, ~parted'
             PROVE  selected' = Intended'
  BY DEF SelectionFollows
<1>1. CASE Plug \/ Watch \/ ToggleAuto \/ Cooled
  BY <1>1 DEF Plug, Watch, ToggleAuto, Cooled, user, SelectionFollows, Intended
<1>2. ASSUME NEW d \in Selection, Select(d) \/ Restore(d)
      PROVE  selected' = Intended'
  <2>1. /\ selected' = d /\ changes' = Append(changes, d)
    <3>1. Select(d)
      BY <1>2 DEF Restore
    <3>2. ~(Len(changes) >= ChangeCap)
      BY <3>1, Zenon DEF Select
    <3>3. Len(changes) \in Nat /\ ChangeCap \in Nat
      BY BridgeAssumption DEF Inv, TypeOK
    <3>4. Len(changes) < ChangeCap
      BY <3>2, <3>3
    <3> QED
      BY <3>1, <3>4 DEF Select
  <2>2. Len(changes') = Len(changes) + 1 /\ changes'[Len(changes) + 1] = d
    BY <2>1 DEF Inv, TypeOK
  <2>3. changes' # <<>>
    BY <2>1 DEF Inv, TypeOK
  <2> QED
    BY <2>1, <2>2, <2>3 DEF Intended
<1>3. CASE ChangeDevice
  <2>1. /\ changes # <<>> /\ changes' = Tail(changes) /\ current' = Head(changes)
        /\ selected' = changes[Len(changes)]
    BY <1>3 DEF ChangeDevice, SelectionFollows, Intended
  <2>2. Len(changes) \in Nat /\ Len(changes) > 0 /\ Len(changes') = Len(changes) - 1
    BY <2>1 DEF Inv, TypeOK
  <2>3. CASE changes' = <<>>
    <3>1. Len(changes) = 1
      BY <2>2, <2>3
    <3>2. Head(changes) = changes[1]
      BY <2>1 DEF Inv, TypeOK
    <3> QED
      BY <2>1, <2>3, <3>1, <3>2 DEF Intended
  <2>4. CASE changes' # <<>>
    <3>1. Len(changes') > 0
      BY <2>1, <2>4 DEF Inv, TypeOK
    <3>2. changes'[Len(changes')] = changes[Len(changes') + 1]
      BY <2>1, <2>2, <3>1 DEF Inv, TypeOK
    <3> QED
      BY <2>1, <2>2, <2>4, <3>2 DEF Intended
  <2> QED
    BY <2>3, <2>4
<1>4. ASSUME NEW list, Scan(list), changes' = changes
      PROVE  selected' = Intended'
  <2>1. PICK d : current' = d /\ Pick(d)
    BY <1>4 DEF Scan
  <2> QED
    BY <1>4, <2>1 DEF Pick, SelectionFollows, Intended
<1>5. CASE HearWatcher
  BY <1>4, <1>5 DEF HearWatcher, SelectionFollows, Intended
<1>6. CASE CleanScan \/ EmptyScan
  BY <1>4, <1>6 DEF CleanScan, EmptyScan, TimerScan
<1>7. CASE Pulse
  BY <1>7 DEF Pulse, user, SelectionFollows, Intended
<1>8. CASE UNCHANGED vars
  BY <1>8 DEF vars, user, SelectionFollows, Intended
<1>9. CASE \E d \in Loopback : Register(d) \/ Unregister(d) \/ Drain(d)
  BY <1>9 DEF Register, Unregister, Drain, user, SelectionFollows, Intended
<1> QED
  BY <1>1, <1>2, <1>3, <1>5, <1>6, <1>7, <1>8, <1>9 DEF Next, Worker

\* Unless a selection was lost, restored or crossed by a pick, the worker has the
\* selection the user sees, or will have it once its channel is read.
THEOREM SelectionKept == Safety => []SelectionFollows
<1>1. Init => SelectionFollows
  BY DEF Init, SelectionFollows, Intended
<1> QED
  BY <1>1, InvHolds, SelectionStep, PTL DEF Safety

-----------------------------------------------------------------------------
(* The watcher *)

VARIABLES native, dirty, lastSent, channel, seen, lost

Hardware == Device \ Loopback
Plugged == ports \ Loopback
Watcher == INSTANCE MidiWatcher WITH Device <- Hardware, ports <- Plugged
WatcherSafety == Watcher!Init /\ [][Watcher!Next]_Watcher!vars

\* A list appended to a channel is its newest.
LEMMA AppendIsNewest ==
  ASSUME NEW s \in Seq(SUBSET Hardware), NEW p \in SUBSET Hardware
  PROVE  LET t == Append(s, p) IN
           /\ t \in Seq(SUBSET Hardware) /\ t # <<>> /\ Len(t) = Len(s) + 1
           /\ t[Len(t)] = p
OBVIOUS

\* Taking the first list of a channel leaves the newest that the consumer has or will find.
LEMMA TailKeepsNewest ==
  ASSUME NEW s \in Seq(SUBSET Hardware), s # <<>>
  PROVE  /\ Tail(s) \in Seq(SUBSET Hardware) /\ Len(Tail(s)) = Len(s) - 1
         /\ (IF Tail(s) = <<>> THEN Head(s) ELSE Tail(s)[Len(Tail(s))]) = s[Len(s)]
<1>1. Tail(s) \in Seq(SUBSET Hardware) /\ Len(Tail(s)) = Len(s) - 1 /\ Len(s) \in Nat /\ Len(s) > 0
  OBVIOUS
<1>2. CASE Tail(s) = <<>>
  <2>1. Len(Tail(s)) = 0
    <3>1. Len(<<>>) = 0
      OBVIOUS
    <3> QED
      BY <1>2, <3>1, Zenon
  <2>2. Len(s) = 1
    BY <1>1, <2>1
  <2> QED
    BY <1>1, <1>2, <2>2
<1>3. CASE Tail(s) # <<>>
  <2>1. Len(Tail(s)) > 0
    BY <1>1, <1>3
  <2>2. Tail(s)[Len(Tail(s))] = s[Len(Tail(s)) + 1]
    BY <1>1, <2>1
  <2> QED
    BY <1>1, <1>3, <2>2
<1> QED
  BY <1>2, <1>3

-----------------------------------------------------------------------------
(* Type correctness *)

LEMMA WatcherInitType == Watcher!Init => Watcher!TypeOK
<1> SUFFICES ASSUME Watcher!Init PROVE Watcher!TypeOK
  OBVIOUS
<1>1. Watcher!Enumerated \subseteq SUBSET Hardware
  BY DEF Watcher!Init, Watcher!Enumerated
<1>2. ASSUME NEW list \in SUBSET Hardware
      PROVE  <<list>> \in Seq(SUBSET Hardware) /\ Len(<<list>>) = 1
  OBVIOUS
<1>3. Watcher!Seeded
  BY DEF Watcher!Init, Watcher!SeededNative, Watcher!SeededPolling
<1>4. ASSUME NEW c \in Watcher!Consumer PROVE \E list \in SUBSET Hardware : channel[c] = <<list>>
  BY <1>1, <1>3 DEF Watcher!Seeded
<1>5. /\ channel \in [Watcher!Consumer -> Seq(SUBSET Hardware)]
      /\ \A c \in Watcher!Consumer : Len(channel[c]) <= ListCap
  <2>1. channel = [c \in Watcher!Consumer |-> channel[c]]
    BY <1>3 DEF Watcher!Seeded
  <2>2. ASSUME NEW c \in Watcher!Consumer
        PROVE  channel[c] \in Seq(SUBSET Hardware) /\ Len(channel[c]) = 1
    <3>1. PICK list \in SUBSET Hardware : channel[c] = <<list>>
      BY <1>4
    <3> QED
      BY <1>2, <3>1
  <2>3. 1 <= ListCap
    BY BridgeAssumption
  <2> QED
    BY <2>1, <2>2, <2>3
<1> QED
  BY <1>5 DEF Watcher!Init, Watcher!TypeOK

LEMMA BroadcastType ==
  ASSUME Watcher!TypeOK, NEW list \in SUBSET Hardware, Watcher!Broadcast(list)
  PROVE  /\ channel' \in [Watcher!Consumer -> Seq(SUBSET Hardware)]
         /\ \A c \in Watcher!Consumer : Len(channel'[c]) <= ListCap
         /\ lost' \in [Watcher!Consumer -> BOOLEAN]
<1>1. ASSUME NEW c \in Watcher!Consumer
      PROVE  LET t == IF Watcher!Fits(c) THEN Append(channel[c], list) ELSE channel[c] IN
               t \in Seq(SUBSET Hardware) /\ Len(t) <= ListCap
  <2>1. channel[c] \in Seq(SUBSET Hardware) /\ Len(channel[c]) <= ListCap
    BY DEF Watcher!TypeOK
  <2>2. CASE Watcher!Fits(c)
    BY <2>1, <2>2, AppendIsNewest, BridgeAssumption DEF Watcher!Fits
  <2>3. CASE ~Watcher!Fits(c)
    BY <2>1, <2>3
  <2> QED
    BY <2>2, <2>3
<1>2. lost' \in [Watcher!Consumer -> BOOLEAN]
  BY DEF Watcher!Broadcast, Watcher!Fits
<1> QED
  BY <1>1, <1>2 DEF Watcher!Broadcast

LEMMA DecideType == ASSUME Watcher!TypeOK, NEW news \in BOOLEAN, Watcher!Decide(news) PROVE Watcher!TypeOK'
<1>1. CASE news \/ Plugged # lastSent
  <2>1. Watcher!Broadcast(Plugged) /\ lastSent' = Plugged /\ Plugged \in SUBSET Hardware
    BY <1>1 DEF Watcher!Decide, Watcher!TypeOK
  <2> QED
    BY <2>1, BroadcastType DEF Watcher!Decide, Watcher!TypeOK
<1>2. CASE ~(news \/ Plugged # lastSent)
  BY <1>2 DEF Watcher!Decide, Watcher!TypeOK
<1> QED
  BY <1>1, <1>2

LEMMA FrameType == ASSUME Watcher!TypeOK, Watcher!Frame PROVE Watcher!TypeOK'
<1> DEFINE s == channel["editor"]
<1>1. "editor" \in Watcher!Consumer /\ s \in Seq(SUBSET Hardware) /\ s # <<>>
  BY DEF Watcher!Frame, Watcher!TypeOK, Watcher!Consumer
<1>2. Watcher!Newest("editor") \in SUBSET Hardware
  BY <1>1 DEF Watcher!Newest
<1>3. seen' \in [Watcher!Consumer -> SUBSET Hardware]
  BY <1>2 DEF Watcher!Frame, Watcher!TypeOK
<1>4. <<>> \in Seq(SUBSET Hardware) /\ Len(<<>>) = 0
  OBVIOUS
<1>5. channel' \in [Watcher!Consumer -> Seq(SUBSET Hardware)]
  BY <1>4 DEF Watcher!Frame, Watcher!TypeOK
<1>6. ASSUME NEW c \in Watcher!Consumer PROVE Len(channel'[c]) <= ListCap
  <2>1. CASE c = "editor"
    <3>1. channel'[c] = <<>>
      BY <2>1 DEF Watcher!Frame, Watcher!TypeOK
    <3>2. ListCap \in Nat
      BY BridgeAssumption
    <3>3. Len(channel'[c]) = 0
      BY <1>4, <3>1, Zenon
    <3> QED
      BY <3>2, <3>3
  <2>2. CASE c # "editor"
    BY <2>2 DEF Watcher!Frame, Watcher!TypeOK
  <2> QED
    BY <2>1, <2>2
<1> QED
  BY <1>3, <1>5, <1>6 DEF Watcher!Frame, Watcher!TypeOK

LEMMA WorkerTakesType == ASSUME Watcher!TypeOK, Watcher!WorkerTakes PROVE Watcher!TypeOK'
<1> DEFINE s == channel["worker"]
<1>1. "worker" \in Watcher!Consumer /\ s \in Seq(SUBSET Hardware) /\ s # <<>> /\ Len(s) <= ListCap
  BY DEF Watcher!WorkerTakes, Watcher!TypeOK, Watcher!Consumer
<1>2. Head(s) \in SUBSET Hardware /\ Tail(s) \in Seq(SUBSET Hardware) /\ Len(Tail(s)) <= ListCap
  BY <1>1, BridgeAssumption
<1>3. seen' \in [Watcher!Consumer -> SUBSET Hardware]
  BY <1>2 DEF Watcher!WorkerTakes, Watcher!TypeOK
<1>4. /\ channel' \in [Watcher!Consumer -> Seq(SUBSET Hardware)]
      /\ \A c \in Watcher!Consumer : Len(channel'[c]) <= ListCap
  BY <1>2 DEF Watcher!WorkerTakes, Watcher!TypeOK
<1> QED
  BY <1>3, <1>4 DEF Watcher!WorkerTakes, Watcher!TypeOK

LEMMA WatcherNextType == Watcher!TypeOK /\ [Watcher!Next]_Watcher!vars => Watcher!TypeOK'
<1> SUFFICES ASSUME Watcher!TypeOK, [Watcher!Next]_Watcher!vars PROVE Watcher!TypeOK'
  OBVIOUS
<1>1. CASE Watcher!Plug \/ Watcher!Notify
  BY <1>1 DEF Watcher!Plug, Watcher!Notify, Watcher!TypeOK
<1>2. CASE Watcher!Slice \/ Watcher!SafetyPoll
  BY <1>2, DecideType DEF Watcher!Slice, Watcher!SafetyPoll, Watcher!Tick, Watcher!TypeOK
<1>3. CASE \E list \in SUBSET Hardware : Watcher!Poll(list)
  BY <1>3, BroadcastType DEF Watcher!Poll, Watcher!TypeOK
<1>4. CASE Watcher!Frame
  BY <1>4, FrameType
<1>5. CASE Watcher!WorkerTakes
  BY <1>5, WorkerTakesType
<1>6. CASE UNCHANGED Watcher!vars
  BY <1>6 DEF Watcher!vars, Watcher!TypeOK
<1> QED
  BY <1>1, <1>2, <1>3, <1>4, <1>5, <1>6 DEF Watcher!Next

\* Every reachable state of the watcher and its channels is in range.
THEOREM WatcherTypeCorrect == WatcherSafety => []Watcher!TypeOK
BY WatcherInitType, WatcherNextType, PTL DEF WatcherSafety

-----------------------------------------------------------------------------
(* The list that counts as sent *)

\* A broadcast reaches the end of a channel or is known to be lost.
LEMMA BroadcastReaches ==
  ASSUME Watcher!TypeOK, Watcher!Broadcast(Plugged), UNCHANGED seen, NEW c \in Watcher!Consumer
  PROVE  lost'[c] \/ Watcher!Newest(c)' = Plugged
<1>1. channel[c] \in Seq(SUBSET Hardware) /\ Plugged \in SUBSET Hardware
  BY DEF Watcher!TypeOK
<1>2. CASE Watcher!Fits(c)
  <2>1. channel'[c] = Append(channel[c], Plugged)
    BY <1>2 DEF Watcher!Broadcast
  <2> QED
    BY <1>1, <2>1, AppendIsNewest DEF Watcher!Newest
<1>3. CASE ~Watcher!Fits(c)
  BY <1>3 DEF Watcher!Broadcast
<1> QED
  BY <1>2, <1>3

LEMMA SentStep == Watcher!TypeOK /\ Watcher!SentIsNewest /\ [Watcher!Next]_Watcher!vars => Watcher!SentIsNewest'
<1> SUFFICES ASSUME Watcher!TypeOK, Watcher!SentIsNewest, [Watcher!Next]_Watcher!vars, native', NEW c \in Watcher!Consumer
             PROVE  lost'[c] \/ Watcher!Newest(c)' = lastSent'
  BY DEF Watcher!SentIsNewest
<1>1. native /\ (lost[c] \/ Watcher!Newest(c) = lastSent)
  BY DEF Watcher!Next, Watcher!Plug, Watcher!Notify, Watcher!Slice, Watcher!SafetyPoll, Watcher!Tick, Watcher!Decide, Watcher!Poll, Watcher!Frame, Watcher!WorkerTakes, Watcher!vars, Watcher!SentIsNewest
<1>2. CASE Watcher!Plug \/ Watcher!Notify
  BY <1>1, <1>2 DEF Watcher!Plug, Watcher!Notify, Watcher!Newest
<1>3. ASSUME NEW news \in BOOLEAN, Watcher!Decide(news)
      PROVE  lost'[c] \/ Watcher!Newest(c)' = lastSent'
  <2>1. CASE news \/ Plugged # lastSent
    BY <1>3, <2>1, BroadcastReaches DEF Watcher!Decide
  <2>2. CASE ~(news \/ Plugged # lastSent)
    BY <1>1, <1>3, <2>2 DEF Watcher!Decide, Watcher!Newest
  <2> QED
    BY <2>1, <2>2
<1>4. CASE Watcher!Slice \/ Watcher!SafetyPoll
  BY <1>3, <1>4 DEF Watcher!Slice, Watcher!SafetyPoll, Watcher!Tick, Watcher!TypeOK
<1>5. CASE Watcher!Frame
  <2>1. CASE c = "editor"
    BY <1>1, <1>5, <2>1 DEF Watcher!Frame, Watcher!Newest, Watcher!TypeOK
  <2>2. CASE c # "editor"
    BY <1>1, <1>5, <2>2 DEF Watcher!Frame, Watcher!Newest, Watcher!TypeOK
  <2> QED
    BY <2>1, <2>2
<1>6. CASE Watcher!WorkerTakes
  <2>1. CASE c = "worker"
    <3> DEFINE s == channel["worker"]
    <3>1. s \in Seq(SUBSET Hardware) /\ s # <<>>
      BY <1>6, <2>1 DEF Watcher!WorkerTakes, Watcher!TypeOK
    <3>2. channel'[c] = Tail(s) /\ seen'[c] = Head(s)
      BY <1>6, <2>1 DEF Watcher!WorkerTakes, Watcher!TypeOK
    <3>3. Watcher!Newest(c) = s[Len(s)]
      BY <2>1, <3>1 DEF Watcher!Newest
    <3>4. Watcher!Newest(c)' = s[Len(s)]
      <4> HIDE DEF s
      <4> QED
        BY <3>1, <3>2, TailKeepsNewest DEF Watcher!Newest
    <3> QED
      BY <1>1, <1>6, <3>3, <3>4 DEF Watcher!WorkerTakes
  <2>2. CASE c # "worker"
    BY <1>1, <1>6, <2>2 DEF Watcher!WorkerTakes, Watcher!Newest, Watcher!TypeOK
  <2> QED
    BY <2>1, <2>2
<1>7. CASE (\E list \in SUBSET Hardware : Watcher!Poll(list)) \/ UNCHANGED Watcher!vars
  BY <1>1, <1>7 DEF Watcher!Poll, Watcher!vars, Watcher!Newest
<1> QED
  BY <1>2, <1>4, <1>5, <1>6, <1>7 DEF Watcher!Next

\* The comparison that suppresses a broadcast hides no list from a consumer that can
\* still get it: what counts as sent is the newest it has or will find, or was lost.
THEOREM NothingHidden == WatcherSafety => []Watcher!SentIsNewest
<1>1. Watcher!Init => Watcher!SentIsNewest
  <2> SUFFICES ASSUME Watcher!Init, native, NEW c \in Watcher!Consumer PROVE Watcher!Newest(c) = lastSent
    BY DEF Watcher!SentIsNewest
  <2>1. channel[c] = <<Plugged>> /\ lastSent = Plugged
    BY DEF Watcher!Init, Watcher!SeededNative, Watcher!SeededPolling, Watcher!Seeded, Watcher!Enumerated
  <2>2. <<Plugged>> # <<>> /\ Len(<<Plugged>>) = 1 /\ <<Plugged>>[1] = Plugged
    OBVIOUS
  <2> QED
    BY <2>1, <2>2 DEF Watcher!Newest
<1> QED
  BY <1>1, WatcherTypeCorrect, SentStep, PTL DEF WatcherSafety

-----------------------------------------------------------------------------
(* The bridge and the watcher together: the channel to the worker is one, and the devices *)
(* are the same.  Neither assumes of the other what the other does not do.                *)

watcherVars == <<native, dirty, lastSent, channel, seen, lost>>
jointVars == <<vars, watcherVars>>

OneChannel == lists = channel["worker"]

\* The watcher's broadcasts, as they are in the code, in place of Watch.
Announce ==
  /\ Watcher!Slice \/ Watcher!SafetyPoll \/ \E list \in SUBSET Hardware : Watcher!Poll(list)
  /\ UNCHANGED <<ports, conns, backlog, user, current, cooling, connected>>

\* What is no business of the other.
WatcherAlone == (Watcher!Notify \/ Watcher!Frame) /\ UNCHANGED vars
BridgeAlone ==
  /\ \/ ToggleAuto \/ Cooled
     \/ \E d \in Loopback : Register(d) \/ Unregister(d) \/ Drain(d)
     \/ \E d \in Selection : Select(d) \/ Restore(d)
     \/ ChangeDevice \/ CleanScan \/ EmptyScan \/ Pulse
  /\ UNCHANGED watcherVars

JointNext ==
  /\ \/ Announce \/ WatcherAlone \/ BridgeAlone
     \/ Plug /\ Watcher!Plug
     \/ HearWatcher /\ Watcher!WorkerTakes
  /\ OneChannel'

Joint == Init /\ Watcher!Init /\ OneChannel /\ [][JointNext]_jointVars

\* A broadcast leaves the list at the end of the worker's channel, if there is room.
LEMMA BroadcastSeen ==
  ASSUME OneChannel, OneChannel', NEW list, Watcher!Broadcast(list)
  PROVE  \/ Len(lists) < ListCap /\ lists' = Append(lists, list)
         \/ UNCHANGED lists
BY DEF OneChannel, Watcher!Broadcast, Watcher!Fits, Watcher!Consumer

\* Seen from the bridge, what the watcher announces is what Watch allows.
LEMMA AnnounceIsWatch ==
  ASSUME OneChannel, OneChannel', Announce
  PROVE  Watch \/ UNCHANGED vars
<1>1. \/ UNCHANGED channel
      \/ \E list \in Listed : Watcher!Broadcast(list)
  BY DEF Announce, Watcher!Slice, Watcher!SafetyPoll, Watcher!Tick, Watcher!Decide,
         Watcher!Poll, Watcher!Enumerated, Listed, Plugged
<1>2. CASE UNCHANGED channel
  BY <1>2 DEF Announce, OneChannel, vars
<1>3. CASE \E list \in Listed : Watcher!Broadcast(list)
  BY <1>3, BroadcastSeen DEF Announce, Watch, vars
<1> QED
  BY <1>1, <1>2, <1>3

\* The bridge leaves the devices of the system where they are.
LEMMA AloneKeepsDevices == ASSUME BridgeAlone PROVE UNCHANGED Plugged
BY DEF BridgeAlone, ToggleAuto, Cooled, Register, Unregister, Drain, Select, Restore,
       ChangeDevice, CleanScan, EmptyScan, TimerScan, Pulse, Plugged

LEMMA JointStep ==
  ASSUME OneChannel, [JointNext]_jointVars
  PROVE  OneChannel' /\ [Next]_vars /\ [Watcher!Next]_Watcher!vars
<1>1. CASE UNCHANGED jointVars
  BY <1>1 DEF jointVars, vars, watcherVars, conns, user, OneChannel, Plugged, Watcher!vars
<1>2. CASE JointNext
  <2>1. OneChannel'
    BY <1>2 DEF JointNext
  <2>2. CASE Announce
    <3>1. Watcher!Next
      BY <2>2 DEF Announce, Watcher!Next
    <3>2. Watch \/ UNCHANGED vars
      BY <2>1, <2>2, AnnounceIsWatch
    <3> QED
      BY <2>1, <3>1, <3>2 DEF Next
  <2>3. CASE WatcherAlone
    BY <2>1, <2>3 DEF WatcherAlone, Watcher!Next
  <2>4. CASE BridgeAlone
    <3>1. Next
      BY <2>4 DEF BridgeAlone, Next, Worker
    <3>2. UNCHANGED Watcher!vars
      BY <2>4, AloneKeepsDevices DEF BridgeAlone, watcherVars, Watcher!vars
    <3> QED
      BY <2>1, <3>1, <3>2
  <2>5. CASE Plug /\ Watcher!Plug
    BY <2>1, <2>5 DEF Next, Watcher!Next
  <2>6. CASE HearWatcher /\ Watcher!WorkerTakes
    BY <2>1, <2>6 DEF Next, Worker, Watcher!Next
  <2> QED
    BY <1>2, <2>2, <2>3, <2>4, <2>5, <2>6 DEF JointNext
<1> QED
  BY <1>1, <1>2

\* With the watcher of the code in place of Watch, the bridge is still the bridge, and the
\* watcher finds in it the consumer it was modelled with: what is proved of each holds of
\* the two together.
THEOREM WatcherFeedsBridge == Joint => Safety /\ WatcherSafety
BY JointStep, PTL DEF Joint, Safety, WatcherSafety

\* So the worker's device follows the user's selection, and the newest list that is on its
\* way to the worker, or was read last, is the one the watcher holds for sent.
THEOREM JointKeeps == Joint => [](OutputIsHonest /\ SelectionFollows /\ Watcher!SentIsNewest)
BY WatcherFeedsBridge, FlagsHonest, SelectionKept, NothingHidden, PTL
=============================================================================
