------------------------- MODULE NetworkWorker_proofs -------------------------
(***************************************************************************)
(* Proofs about NetworkWorker and, in its second half, about RetryCadence, *)
(* for every set of addresses and identities, every network and every value *)
(* of the bounds and timers.                                                *)
(*                                                                          *)
(* The safety invariants are proved together: what keeps a link that is up *)
(* sound is that an answer is only awaited at an address (AwaitHasTarget),  *)
(* and that is kept by the others.                                           *)
(*                                                                          *)
(* With its clocks the worker takes the same steps, so it keeps the same    *)
(* invariants; how long a console can wait is bounded by a potential, the    *)
(* time Remaining until it is served, that falls as fast as time passes      *)
(* (OnTime).                                                                 *)
(***************************************************************************)
EXTENDS RetryCadence, FiniteSetTheorems, TLAPS

\* The answer the worker waits for belongs to an address it still has.
AwaitHasTarget == phase = "await" => sock /\ target # NoAddr /\ ~userDisc

\* What the invariants say of the link, the loop and the user's choice.
LinkInv ==
  /\ AwaitHasTarget
  /\ ConnectedHasLink /\ HungUpIsSilent /\ ScanOnlyWhenLost
  /\ StatusTracksLink /\ ChosenByUserNotChecked

\* The inductive invariant.
IInv == TypeOK /\ LinkInv /\ FastSearchBounded

\* The bounds, as the provers need them.
LEMMA Bounds ==
  /\ RescanAfter \in Nat \ {0} /\ FastBudget \in Nat \ {0} /\ AttemptsCap \in Nat \ {0}
  /\ IntervalMin \in Nat \ {0} /\ IntervalMax \in Nat /\ IntervalMin < IntervalMax
BY ConstantsAssumption

LEMMA NoAddrIsNone == NoAddr \notin Addr
BY ConstantsAssumption

\* What a probe may send on its way is made of packets.
LEMMA RepliesArePackets ==
  ASSUME NEW a \in Addr, NEW buf \in SUBSET Packet, NEW p \in Packet
  PROVE  Replies(a, buf, p) \subseteq SUBSET Packet
BY DEF Replies

\* A network maps each address to a console or to nobody.
LEMMA DeviceType ==
  ASSUME TypeOK, NEW a \in Addr
  PROVE  device[a] \in Answers \cup {Silent}
BY ConstantsAssumption DEF TypeOK, WorldTypes

\* The two outcomes of the first half of a heartbeat.
LEMMA ProbeOutcome ==
  ASSUME TypeOK, NEW a \in Addr, NEW s \in BOOLEAN, NEW buf \in SUBSET Packet,
         NEW back, Probe(a, s, buf, back)
  PROVE  /\ rxbuf' \subseteq Packet
         /\ \/ /\ s /\ sock' = TRUE
               /\ phase' = "await" /\ ret' = back
               /\ connected' = connected /\ hw' = hw /\ told' = told
            \/ /\ DropSocket
               /\ phase' = back /\ ret' = ret
<1>1. CASE /\ s /\ sock' = TRUE
           /\ rxbuf' \in Replies(a, buf, device[a])
           /\ phase' = "await" /\ ret' = back
           /\ UNCHANGED <<connected, hw, told>>
  <2>1. CASE device[a] = Silent
    BY <1>1, <2>1 DEF Replies
  <2>2. CASE device[a] # Silent
    BY <1>1, <2>2, DeviceType, RepliesArePackets DEF Packet
  <2>. QED BY <1>1, <2>1, <2>2
<1>2. CASE DropSocket /\ phase' = back /\ UNCHANGED ret
  BY <1>2 DEF DropSocket
<1>. QED BY <1>1, <1>2 DEF Probe

\* The two outcomes of connect() at an address that parses.
LEMMA DialOutcome ==
  ASSUME TypeOK, NEW a \in Addr, NEW back, Dial(a, back)
  PROVE  /\ userDisc' = FALSE /\ attempts' = 0 /\ target' = a
         /\ rxbuf' \subseteq Packet
         /\ \/ /\ sock' = TRUE
               /\ phase' = "await" /\ ret' = back
               /\ connected' = connected /\ hw' = hw /\ told' = told
            \/ /\ DropSocket
               /\ phase' = back /\ ret' = ret
<1>1. PICK bound \in BOOLEAN :
         Probe(a, bound \/ sock, IF bound THEN {} ELSE rxbuf, back)
  BY DEF Dial, Rebound
<1>2. /\ (bound \/ sock) \in BOOLEAN
      /\ (IF bound THEN {} ELSE rxbuf) \in SUBSET Packet
  BY DEF TypeOK, LinkTypes
<1>3. rxbuf' \subseteq Packet
  BY <1>1, <1>2, ProbeOutcome
<1>4. \/ /\ sock' = TRUE
         /\ phase' = "await" /\ ret' = back
         /\ connected' = connected /\ hw' = hw /\ told' = told
      \/ /\ DropSocket
         /\ phase' = back /\ ret' = ret
  BY <1>1, <1>2, ProbeOutcome
<1>. QED BY <1>3, <1>4 DEF Dial

\* A saturating counter stays in its range.
LEMMA BumpType ==
  ASSUME NEW cap \in Nat, NEW n \in 0..cap
  PROVE  Bump(n, cap) \in 0..cap
BY DEF Bump

-----------------------------------------------------------------------------
(* Steps that several actions share *)

\* The points of the loop a blocking call may return to.
Back == {"drain", "discover", "heartbeat", "poll"}

\* The hunt's part of the invariant is kept by a step that leaves the hunt alone.
LEMMA HuntFrame ==
  ASSUME IInv, UNCHANGED huntVars, attempts' \in 0..AttemptsCap,
         hbFails' \in 0..RescanAfter
  PROVE  HuntTypes' /\ FastSearchBounded'
<1>1. HuntTypes'
  BY DEF IInv, TypeOK, HuntTypes, huntVars
<1>2. FastSearchBounded'
  BY DEF IInv, FastSearchBounded, huntVars
<1>. QED BY <1>1, <1>2

\* A step that only moves on to the next point of the loop.
LEMMA MoveOn ==
  ASSUME IInv, phase # "await", phase' \in Back \cup {"auto"},
         UNCHANGED <<ret, sockVars, huntVars, failVars, dialVars, envVars, targetIp,
                     lastDev, auto, cmdq>>
  PROVE  IInv'
<1>1. LoopTypes'
  BY DEF IInv, TypeOK, LoopTypes, Phase, Back
<1>2. LinkTypes'
  BY DEF IInv, TypeOK, LinkTypes, sockVars, dialVars
<1>3. HuntTypes' /\ FastSearchBounded'
  BY HuntFrame DEF IInv, TypeOK, HuntTypes, failVars
<1>4. WorldTypes'
  BY DEF IInv, TypeOK, WorldTypes, envVars
<1>5. LinkInv'
  BY DEF IInv, LinkInv, AwaitHasTarget, ConnectedHasLink, HungUpIsSilent,
     ScanOnlyWhenLost, StatusTracksLink, ChosenByUserNotChecked, sockVars, dialVars,
     Back
<1>. QED BY <1>1, <1>2, <1>3, <1>4, <1>5 DEF IInv, TypeOK

\* A step that the worker takes no part in.
LEMMA WorkerFrame ==
  ASSUME IInv, UNCHANGED workerVars, WorldTypes'
  PROVE  IInv'
<1>. USE DEF workerVars
<1>1. LoopTypes'
  BY DEF IInv, TypeOK, LoopTypes, pcVars
<1>2. LinkTypes'
  BY DEF IInv, TypeOK, LinkTypes, sockVars, dialVars
<1>3. HuntTypes' /\ FastSearchBounded'
  BY HuntFrame DEF IInv, TypeOK, HuntTypes, failVars
<1>4. LinkInv'
  BY DEF IInv, LinkInv, AwaitHasTarget, ConnectedHasLink, HungUpIsSilent,
     ScanOnlyWhenLost, StatusTracksLink, ChosenByUserNotChecked, pcVars, sockVars,
     dialVars
<1>. QED BY <1>1, <1>2, <1>3, <1>4 DEF IInv, TypeOK

\* A link that drops leaves nothing to keep sound.
LEMMA Dropped ==
  ASSUME IInv, DropSocket, phase' \in Back \cup {"auto"},
         ret' = ret, target' \in Addr \cup {NoAddr}, fromAuto' \in BOOLEAN,
         dialler' \in {"nobody", "user", "worker"}, userDisc' \in BOOLEAN,
         userDisc' => target' = NoAddr, ChosenByUserNotChecked'
  PROVE  LoopTypes' /\ LinkTypes' /\ LinkInv'
<1>1. LoopTypes'
  BY DEF IInv, TypeOK, LoopTypes, Phase, Back
<1>2. LinkTypes'
  BY DEF LinkTypes, DropSocket
<1>3. LinkInv'
  BY DEF LinkInv, AwaitHasTarget, ConnectedHasLink, HungUpIsSilent,
     ScanOnlyWhenLost, StatusTracksLink, DropSocket, Back
<1>. QED BY <1>1, <1>2, <1>3

\* An address that is dialled, on the user's behalf or on the worker's own.
LEMMA Dialled ==
  ASSUME IInv, NEW a \in Addr, NEW back \in Back, Dial(a, back),
         \/ fromAuto' = FALSE /\ dialler' = "user"
         \/ fromAuto' = TRUE /\ dialler' = "worker"
  PROVE  /\ LoopTypes' /\ LinkTypes' /\ LinkInv'
         /\ attempts' \in 0..AttemptsCap
<1>1. /\ userDisc' = FALSE /\ attempts' = 0 /\ target' = a
      /\ rxbuf' \subseteq Packet
      /\ \/ /\ sock' = TRUE
            /\ phase' = "await" /\ ret' = back
            /\ connected' = connected /\ hw' = hw /\ told' = told
         \/ /\ DropSocket
            /\ phase' = back /\ ret' = ret
  BY DialOutcome DEF IInv
<1>2. attempts' \in 0..AttemptsCap
  BY <1>1, Bounds
<1>3. ChosenByUserNotChecked'
  BY DEF ChosenByUserNotChecked
<1>4. CASE DropSocket /\ phase' = back /\ ret' = ret
  <2>1. LoopTypes' /\ LinkTypes' /\ LinkInv'
    BY <1>1, <1>3, <1>4, Dropped
  <2>. QED BY <1>2, <2>1
<1>5. CASE /\ sock' = TRUE
           /\ phase' = "await" /\ ret' = back
           /\ connected' = connected /\ hw' = hw /\ told' = told
  <2>1. LoopTypes'
    BY <1>5 DEF LoopTypes, Phase, Back
  <2>2. LinkTypes'
    BY <1>1, <1>5 DEF IInv, TypeOK, LinkTypes
  <2>3. LinkInv'
    BY <1>1, <1>3, <1>5, NoAddrIsNone
    DEF IInv, LinkInv, AwaitHasTarget, ConnectedHasLink, HungUpIsSilent,
        ScanOnlyWhenLost, StatusTracksLink
  <2>. QED BY <1>2, <2>1, <2>2, <2>3
<1>. QED BY <1>1, <1>4, <1>5

\* An address that does not parse changes nothing but the backoff.
LEMMA NotDialled ==
  ASSUME IInv, BadDial, phase \in {"drain", "auto"},
         phase' \in {"drain", "discover"}, UNCHANGED dialler,
         fromAuto' \in BOOLEAN, ChosenByUserNotChecked'
  PROVE  /\ LoopTypes' /\ LinkTypes' /\ LinkInv'
         /\ attempts' \in 0..AttemptsCap
<1>1. LoopTypes'
  BY DEF IInv, TypeOK, LoopTypes, Phase, BadDial
<1>2. LinkTypes'
  BY DEF IInv, TypeOK, LinkTypes, BadDial, sockVars
<1>3. LinkInv'
  BY DEF IInv, LinkInv, AwaitHasTarget, ConnectedHasLink, HungUpIsSilent,
     ScanOnlyWhenLost, StatusTracksLink, BadDial, sockVars
<1>4. attempts' \in 0..AttemptsCap
  BY BumpType, Bounds DEF IInv, TypeOK, HuntTypes, BadDial
<1>. QED BY <1>1, <1>2, <1>3, <1>4

\* Taking a command off the channel leaves the hunt and the world as they were.
LEMMA Taken ==
  ASSUME IInv, NEW cmd, Take(cmd), attempts' \in 0..AttemptsCap
  PROVE  HuntTypes' /\ FastSearchBounded' /\ WorldTypes'
<1>1. HuntTypes' /\ FastSearchBounded'
  BY HuntFrame DEF IInv, TypeOK, HuntTypes, Take
<1>2. cmdq' \in Seq(Command)
  BY DEF IInv, TypeOK, WorldTypes, Take
<1>3. WorldTypes'
  BY <1>2 DEF IInv, TypeOK, WorldTypes, Take, envVars
<1>. QED BY <1>1, <1>3

-----------------------------------------------------------------------------
(* Every action preserves the invariant. *)

LEMMA ConnectInv ==
  ASSUME IInv, NEW cmd \in Command, Connect(cmd)
  PROVE  IInv'
<1>1. Take(cmd) /\ fromAuto' = FALSE /\ phase = "drain"
  BY DEF Connect, ExplicitOrigin, Take
<1>2. LoopTypes' /\ LinkTypes' /\ LinkInv' /\ attempts' \in 0..AttemptsCap
  <2>1. CASE \E a \in Addr : dialler' = "user" /\ Dial(a, "drain")
    BY <1>1, <2>1, Dialled DEF Back
  <2>2. CASE BadDial /\ UNCHANGED <<dialler, phase>>
    BY <1>1, <2>2, NotDialled DEF ChosenByUserNotChecked
  <2>. QED BY <2>1, <2>2 DEF Connect
<1>3. HuntTypes' /\ FastSearchBounded' /\ WorldTypes'
  BY <1>1, <1>2, Taken
<1>. QED BY <1>2, <1>3 DEF IInv, TypeOK

LEMMA DisconnectInv == IInv /\ Disconnect => IInv'
<1>. SUFFICES ASSUME IInv, Disconnect PROVE IInv'
  OBVIOUS
<1>1. Take(Plain("Disconnect")) /\ DropSocket /\ UNCHANGED <<phase, ret, fromAuto, attempts>>
      /\ target' = NoAddr /\ dialler' = "nobody" /\ userDisc' = TRUE /\ phase = "drain"
  BY DEF Disconnect, HangUp, Take, pcVars
<1>2. ChosenByUserNotChecked'
  BY <1>1 DEF ChosenByUserNotChecked
<1>3. LoopTypes' /\ LinkTypes' /\ LinkInv'
  BY <1>1, <1>2, Dropped DEF IInv, TypeOK, LinkTypes, Back
<1>4. attempts' \in 0..AttemptsCap
  BY <1>1 DEF IInv, TypeOK, HuntTypes
<1>5. HuntTypes' /\ FastSearchBounded' /\ WorldTypes'
  BY <1>1, <1>4, Taken
<1>. QED BY <1>3, <1>5 DEF IInv, TypeOK

LEMMA SendInv == IInv /\ Send => IInv'
<1>. SUFFICES ASSUME IInv, Send PROVE IInv'
  OBVIOUS
<1>1. /\ Take(Plain("Send")) /\ phase = "drain"
      /\ UNCHANGED <<phase, ret, target, fromAuto, dialler, userDisc, attempts>>
  BY DEF Send, Take, pcVars, dialVars
<1>2. LoopTypes' /\ LinkTypes' /\ LinkInv'
  <2>1. CASE UNCHANGED sockVars
    <3>1. LoopTypes' /\ LinkTypes'
      BY <1>1, <2>1 DEF IInv, TypeOK, LoopTypes, LinkTypes, sockVars
    <3>2. LinkInv'
      BY <1>1, <2>1 DEF IInv, LinkInv, AwaitHasTarget, ConnectedHasLink, HungUpIsSilent,
         ScanOnlyWhenLost, StatusTracksLink, ChosenByUserNotChecked, sockVars
    <3>. QED BY <3>1, <3>2
  <2>2. CASE DropSocket
    BY <1>1, <2>2, Dropped DEF IInv, TypeOK, LinkTypes, LinkInv, HungUpIsSilent,
       ChosenByUserNotChecked, Back
  <2>. QED BY <2>1, <2>2 DEF Send
<1>3. HuntTypes' /\ FastSearchBounded' /\ WorldTypes'
  BY <1>1, Taken DEF IInv, TypeOK, HuntTypes
<1>. QED BY <1>2, <1>3 DEF IInv, TypeOK

LEMMA AuditSlotsInv == IInv /\ AuditSlots => IInv'
<1>. SUFFICES ASSUME IInv, AuditSlots PROVE IInv'
  OBVIOUS
<1>1. /\ Take(Plain("AuditSlots"))
      /\ UNCHANGED <<phase, ret, sock, connected, hw, told, target, fromAuto, dialler,
                     userDisc, attempts>>
  BY DEF AuditSlots, Take, pcVars, dialVars
<1>2. rxbuf' \subseteq Packet
  <2>1. CASE sock /\ target # NoAddr
    <3>1. target \in Addr /\ rxbuf \in SUBSET Packet /\ Fx \in Packet
      BY <2>1 DEF IInv, TypeOK, LinkTypes, Packet
    <3>2. Replies(target, rxbuf, Fx) \subseteq SUBSET Packet
      BY <3>1, RepliesArePackets
    <3>. QED BY <2>1, <3>2 DEF AuditSlots
  <2>2. CASE ~(sock /\ target # NoAddr)
    BY <2>2 DEF AuditSlots, IInv, TypeOK, LinkTypes
  <2>. QED BY <2>1, <2>2
<1>3. LoopTypes' /\ LinkTypes'
  BY <1>1, <1>2 DEF IInv, TypeOK, LoopTypes, LinkTypes
<1>4. LinkInv'
  BY <1>1 DEF IInv, LinkInv, AwaitHasTarget, ConnectedHasLink, HungUpIsSilent,
     ScanOnlyWhenLost, StatusTracksLink, ChosenByUserNotChecked
<1>5. HuntTypes' /\ FastSearchBounded' /\ WorldTypes'
  BY <1>1, Taken DEF IInv, TypeOK, HuntTypes
<1>. QED BY <1>3, <1>4, <1>5 DEF IInv, TypeOK

\* The passes that find nothing to do.
LEMMA IdleInv ==
  IInv /\ (DrainDone \/ SkipAutoConnect \/ SkipScan \/ SkipHeartbeat \/ SkipPoll) => IInv'
BY MoveOn DEF DrainDone, SkipAutoConnect, SkipScan, SkipHeartbeat, SkipPoll, Back

LEMMA AutoConnectInv == IInv /\ AutoConnect => IInv'
<1>. SUFFICES ASSUME IInv, AutoConnect PROVE IInv'
  OBVIOUS
<1>1. /\ phase = "auto" /\ target = NoAddr /\ fromAuto' = TRUE
      /\ UNCHANGED <<huntVars, hbFails, envVars, targetIp, lastDev, auto, cmdq>>
  BY DEF AutoConnect, MayAutoConnect
<1>2. LoopTypes' /\ LinkTypes' /\ LinkInv' /\ attempts' \in 0..AttemptsCap
  <2>1. CASE \E a \in Addr : dialler' = "worker" /\ Dial(a, "discover")
    BY <1>1, <2>1, Dialled DEF Back
  <2>2. CASE BadDial /\ phase' = "discover" /\ UNCHANGED dialler
    <3>1. ChosenByUserNotChecked'
      BY <1>1, <2>2 DEF BadDial, ChosenByUserNotChecked
    <3>. QED BY <1>1, <2>2, <3>1, NotDialled
  <2>. QED BY <2>1, <2>2 DEF AutoConnect
<1>3. HuntTypes' /\ FastSearchBounded'
  BY <1>1, <1>2, HuntFrame DEF IInv, TypeOK, HuntTypes
<1>4. WorldTypes'
  BY <1>1 DEF IInv, TypeOK, WorldTypes, envVars
<1>. QED BY <1>2, <1>3, <1>4 DEF IInv, TypeOK

LEMMA StartScanInv == IInv /\ StartScan => IInv'
<1>. SUFFICES ASSUME IInv, StartScan PROVE IInv'
  OBVIOUS
<1>. USE DEF StartScan
<1>1. LoopTypes' /\ LinkTypes'
  BY DEF IInv, TypeOK, LoopTypes, LinkTypes, Phase, sockVars, dialVars
<1>2. HuntTypes' /\ FastSearchBounded'
  BY DEF IInv, TypeOK, HuntTypes, FastSearchBounded, failVars
<1>3. WorldTypes'
  BY DEF IInv, TypeOK, WorldTypes, envVars
<1>4. LinkInv'
  BY DEF MayDiscover, IInv, LinkInv, AwaitHasTarget, ConnectedHasLink, HungUpIsSilent,
     ScanOnlyWhenLost, StatusTracksLink, ChosenByUserNotChecked, sockVars, dialVars
<1>. QED BY <1>1, <1>2, <1>3, <1>4 DEF IInv, TypeOK

LEMMA ScanFruitlessInv == IInv /\ ScanFruitless => IInv'
<1>. SUFFICES ASSUME IInv, ScanFruitless PROVE IInv'
  OBVIOUS
<1>1. /\ phase = "scan" /\ phase' = "heartbeat" /\ fastPasses' \in 0..FastBudget
      /\ UNCHANGED <<ret, sockVars, retarget, scanned, failVars, dialVars, envVars,
                     targetIp, lastDev, auto, cmdq>>
  BY Bounds DEF ScanFruitless, IInv, TypeOK, HuntTypes
<1>2. interval' \in IntervalMin..IntervalMax
  <2>1. PICK ifacesChanged \in BOOLEAN :
          interval' = IF ifacesChanged \/ fastPasses > 0 THEN IntervalMin
                      ELSE IF 2 * interval > IntervalMax THEN IntervalMax
                      ELSE 2 * interval
    BY DEF ScanFruitless
  <2>2. interval \in IntervalMin..IntervalMax
    BY DEF IInv, TypeOK, HuntTypes
  <2>. QED BY <2>1, <2>2, Bounds
<1>3. HuntTypes'
  BY <1>1, <1>2 DEF ScanFruitless, IInv, TypeOK, HuntTypes, failVars
<1>4. FastSearchBounded'
  BY Bounds DEF ScanFruitless, IInv, TypeOK, HuntTypes, FastSearchBounded
<1>5. LoopTypes' /\ LinkTypes'
  BY <1>1 DEF IInv, TypeOK, LoopTypes, LinkTypes, Phase, sockVars, dialVars
<1>6. WorldTypes'
  BY <1>1 DEF IInv, TypeOK, WorldTypes, envVars
<1>7. LinkInv'
  BY <1>1 DEF IInv, LinkInv, AwaitHasTarget, ConnectedHasLink, HungUpIsSilent,
     ScanOnlyWhenLost, StatusTracksLink, ChosenByUserNotChecked, sockVars, dialVars
<1>. QED BY <1>3, <1>4, <1>5, <1>6, <1>7 DEF IInv, TypeOK

LEMMA ScanHitInv ==
  ASSUME IInv, NEW a \in Addr, ScanHit(a)
  PROVE  IInv'
<1>1. /\ phase = "scan" /\ fastPasses' = 0 /\ spent' = FALSE /\ interval' = IntervalMin
      /\ targetIp' \in {targetIp, a}
      /\ UNCHANGED <<retarget, scanned, hbFails, envVars, lastDev, auto, cmdq>>
  BY DEF ScanHit
<1>2. LoopTypes' /\ LinkTypes' /\ LinkInv' /\ attempts' \in 0..AttemptsCap
  <2>1. CASE phase' = "heartbeat" /\ UNCHANGED <<ret, sockVars, attempts, dialVars>>
    <3>1. LoopTypes' /\ LinkTypes'
      BY <2>1 DEF IInv, TypeOK, LoopTypes, LinkTypes, Phase, sockVars, dialVars
    <3>2. LinkInv'
      BY <1>1, <2>1 DEF IInv, LinkInv, AwaitHasTarget, ConnectedHasLink, HungUpIsSilent,
         ScanOnlyWhenLost, StatusTracksLink, ChosenByUserNotChecked, sockVars, dialVars
    <3>. QED BY <2>1, <3>1, <3>2 DEF IInv, TypeOK, HuntTypes
  <2>2. CASE fromAuto' = TRUE /\ dialler' = "worker" /\ Dial(a, "heartbeat")
    BY <2>2, Dialled DEF Back
  <2>. QED BY <2>1, <2>2 DEF ScanHit
<1>3. HuntTypes'
  <2>1. fastPasses' \in 0..FastBudget /\ interval' \in IntervalMin..IntervalMax
    BY <1>1, Bounds
  <2>. QED BY <1>1, <1>2, <2>1 DEF IInv, TypeOK, HuntTypes
<1>4. FastSearchBounded'
  BY <1>1 DEF FastSearchBounded
<1>5. WorldTypes'
  BY <1>1 DEF IInv, TypeOK, WorldTypes, envVars
<1>. QED BY <1>2, <1>3, <1>4, <1>5 DEF IInv, TypeOK

LEMMA HeartbeatInv == IInv /\ Heartbeat => IInv'
<1>. SUFFICES ASSUME IInv, Heartbeat PROVE IInv'
  OBVIOUS
<1>1. /\ phase = "heartbeat" /\ target \in Addr /\ ~userDisc /\ target # NoAddr
      /\ UNCHANGED <<huntVars, hbFails, dialVars, envVars, targetIp, lastDev, auto, cmdq>>
  BY DEF Heartbeat, MayHeartbeat, IInv, TypeOK, LinkTypes
<1>2. PICK bound \in BOOLEAN :
        /\ Probe(target, sock \/ bound, rxbuf, "poll")
        /\ attempts' = IF sock \/ bound THEN attempts ELSE Bump(attempts, AttemptsCap)
  BY DEF Heartbeat, Rebound
<1>3. attempts' \in 0..AttemptsCap
  BY <1>2, BumpType, Bounds DEF IInv, TypeOK, HuntTypes
<1>4. /\ rxbuf' \subseteq Packet
      /\ \/ /\ sock' = TRUE
            /\ phase' = "await" /\ ret' = "poll"
            /\ connected' = connected /\ hw' = hw /\ told' = told
         \/ /\ DropSocket
            /\ phase' = "poll" /\ ret' = ret
  <2>1. (sock \/ bound) \in BOOLEAN /\ rxbuf \in SUBSET Packet
    BY DEF IInv, TypeOK, LinkTypes
  <2>. QED BY <1>1, <1>2, <2>1, ProbeOutcome DEF IInv
<1>5. LoopTypes' /\ LinkTypes' /\ LinkInv'
  <2>1. CASE DropSocket /\ phase' = "poll" /\ ret' = ret
    BY <1>1, <2>1, Dropped DEF IInv, TypeOK, LinkTypes, LinkInv, ChosenByUserNotChecked,
       dialVars, Back
  <2>2. CASE /\ sock' = TRUE
             /\ phase' = "await" /\ ret' = "poll"
             /\ connected' = connected /\ hw' = hw /\ told' = told
    <3>1. LoopTypes'
      BY <2>2 DEF LoopTypes, Phase
    <3>2. LinkTypes'
      BY <1>1, <1>4, <2>2 DEF IInv, TypeOK, LinkTypes, dialVars
    <3>3. LinkInv'
      BY <1>1, <2>2 DEF IInv, LinkInv, AwaitHasTarget, ConnectedHasLink, HungUpIsSilent,
         ScanOnlyWhenLost, StatusTracksLink, ChosenByUserNotChecked, dialVars
    <3>. QED BY <3>1, <3>2, <3>3
  <2>. QED BY <1>4, <2>1, <2>2
<1>6. HuntTypes' /\ FastSearchBounded'
  BY <1>1, <1>3, HuntFrame DEF IInv, TypeOK, HuntTypes
<1>7. WorldTypes'
  BY <1>1 DEF IInv, TypeOK, WorldTypes, envVars
<1>. QED BY <1>5, <1>6, <1>7 DEF IInv, TypeOK

LEMMA AcceptInv ==
  ASSUME IInv, NEW d \in Answers, Accept(d)
  PROVE  IInv'
<1>. USE DEF Accept
<1>1. LoopTypes'
  BY DEF IInv, TypeOK, LoopTypes, Phase
<1>2. LinkTypes'
  BY DEF IInv, TypeOK, LinkTypes, dialVars
<1>3. HuntTypes'
  <2>1. attempts' \in 0..AttemptsCap /\ hbFails' \in 0..RescanAfter
    BY Bounds
  <2>. QED BY <2>1 DEF IInv, TypeOK, HuntTypes
<1>4. FastSearchBounded'
  BY DEF IInv, FastSearchBounded
<1>5. WorldTypes'
  BY DEF IInv, TypeOK, WorldTypes, Identified, envVars
<1>6. LinkInv'
  BY DEF IInv, TypeOK, LoopTypes, LinkInv, AwaitHasTarget, ConnectedHasLink,
     HungUpIsSilent, ScanOnlyWhenLost, StatusTracksLink, ChosenByUserNotChecked, dialVars
<1>. QED BY <1>1, <1>2, <1>3, <1>4, <1>5, <1>6 DEF IInv, TypeOK

\* A retarget keeps the fast search within its budget.
LEMMA Retargeted ==
  ASSUME IInv, RequestRetarget
  PROVE  /\ retarget' \in BOOLEAN /\ fastPasses' \in 0..FastBudget
         /\ spent' \in BOOLEAN /\ scanned' \in BOOLEAN
         /\ interval' \in IntervalMin..IntervalMax
         /\ FastSearchBounded'
<1>1. /\ retarget' \in BOOLEAN /\ spent' \in BOOLEAN /\ scanned' \in BOOLEAN
      /\ spent' = spent
  BY DEF RequestRetarget, IInv, TypeOK, HuntTypes
<1>2. fastPasses' \in 0..FastBudget /\ interval' \in IntervalMin..IntervalMax
  BY Bounds DEF RequestRetarget, IInv, TypeOK, HuntTypes
<1>3. FastSearchBounded'
  BY <1>1 DEF RequestRetarget, IInv, FastSearchBounded
<1>. QED BY <1>1, <1>2, <1>3

LEMMA RejectInv ==
  ASSUME IInv, NEW d \in Answers, Reject(d)
  PROVE  IInv'
<1>1. /\ phase = "await" /\ phase' = ret /\ target' = NoAddr /\ dialler' = "nobody"
      /\ connected' = FALSE /\ attempts' = Bump(attempts, AttemptsCap)
      /\ rxbuf' = rxbuf \ {d} /\ RequestRetarget
      /\ UNCHANGED <<ret, sock, hw, told, hbFails, fromAuto, userDisc, envVars,
                     targetIp, lastDev, auto, cmdq>>
  BY DEF Reject
<1>2. LoopTypes' /\ LinkTypes'
  BY <1>1 DEF IInv, TypeOK, LoopTypes, LinkTypes, Phase
<1>3. HuntTypes' /\ FastSearchBounded'
  <2>1. attempts' \in 0..AttemptsCap
    BY <1>1, BumpType, Bounds DEF IInv, TypeOK, HuntTypes
  <2>. QED BY <1>1, <2>1, Retargeted DEF IInv, TypeOK, HuntTypes
<1>4. WorldTypes'
  BY <1>1 DEF IInv, TypeOK, WorldTypes, envVars
<1>5. LinkInv'
  BY <1>1 DEF IInv, TypeOK, LoopTypes, LinkInv, AwaitHasTarget, ConnectedHasLink,
     HungUpIsSilent, ScanOnlyWhenLost, StatusTracksLink, ChosenByUserNotChecked
<1>. QED BY <1>2, <1>3, <1>4, <1>5 DEF IInv, TypeOK

LEMMA NoAnswerInv == IInv /\ NoAnswer => IInv'
<1>. SUFFICES ASSUME IInv, NoAnswer PROVE IInv'
  OBVIOUS
<1>1. /\ phase = "await" /\ phase' = ret /\ rxbuf' \subseteq rxbuf
      /\ connected' = FALSE /\ told' = "Disconnected"
      /\ attempts' = Bump(attempts, AttemptsCap)
      /\ UNCHANGED <<ret, sock, hw, dialVars, envVars, targetIp, lastDev, auto, cmdq>>
  BY DEF NoAnswer
<1>2. LoopTypes' /\ LinkTypes'
  BY <1>1 DEF IInv, TypeOK, LoopTypes, LinkTypes, Phase, dialVars
<1>3. HuntTypes' /\ FastSearchBounded'
  <2>1. attempts' \in 0..AttemptsCap
    BY <1>1, BumpType, Bounds DEF IInv, TypeOK, HuntTypes
  <2>2. CASE hbFails' = 0 /\ RequestRetarget
    <3>1. hbFails' \in 0..RescanAfter
      BY <2>2, Bounds
    <3>. QED BY <2>1, <2>2, <3>1, Retargeted DEF HuntTypes
  <2>3. CASE hbFails' = Bump(hbFails, RescanAfter) /\ UNCHANGED huntVars
    <3>1. hbFails' \in 0..RescanAfter
      BY <2>3, BumpType, Bounds DEF IInv, TypeOK, HuntTypes
    <3>. QED BY <2>1, <2>3, <3>1, HuntFrame
  <2>. QED BY <2>2, <2>3 DEF NoAnswer
<1>4. WorldTypes'
  BY <1>1 DEF IInv, TypeOK, WorldTypes, envVars
<1>5. LinkInv'
  BY <1>1 DEF IInv, TypeOK, LoopTypes, LinkInv, AwaitHasTarget, ConnectedHasLink,
     HungUpIsSilent, ScanOnlyWhenLost, StatusTracksLink, ChosenByUserNotChecked, dialVars
<1>. QED BY <1>2, <1>3, <1>4, <1>5 DEF IInv, TypeOK

LEMMA PollInv == IInv /\ Poll => IInv'
<1>. SUFFICES ASSUME IInv, Poll PROVE IInv'
  OBVIOUS
<1>1. /\ phase = "poll" /\ phase' = "drain" /\ connected
      /\ UNCHANGED <<ret, huntVars, failVars, dialVars, envVars, targetIp, lastDev,
                     auto, cmdq>>
  BY DEF Poll
<1>2. LoopTypes' /\ LinkTypes' /\ LinkInv'
  <2>1. CASE DropSocket
    BY <1>1, <2>1, Dropped DEF IInv, TypeOK, LinkTypes, LinkInv, HungUpIsSilent,
       ChosenByUserNotChecked, dialVars, Back
  <2>2. CASE /\ UNCHANGED <<sock, connected, told>>
             /\ \E buf \in Replies(target, rxbuf, Fx) : 
                  \/ rxbuf' = buf /\ UNCHANGED hw
                  \/ \E p \in buf : rxbuf' = buf \ {p} /\ hw' = (hw \/ p = Fx)
    <3>1. target \in Addr /\ rxbuf \in SUBSET Packet /\ Fx \in Packet
      BY <1>1 DEF IInv, TypeOK, LinkTypes, LinkInv, ConnectedHasLink, Packet
    <3>2. rxbuf' \subseteq Packet /\ hw' \in BOOLEAN
      BY <2>2, <3>1, RepliesArePackets DEF IInv, TypeOK, LinkTypes
    <3>3. LoopTypes' /\ LinkTypes'
      BY <1>1, <2>2, <3>2 DEF IInv, TypeOK, LoopTypes, LinkTypes, Phase, dialVars
    <3>4. LinkInv'
      BY <1>1, <2>2 DEF IInv, LinkInv, AwaitHasTarget, ConnectedHasLink, HungUpIsSilent,
         ScanOnlyWhenLost, StatusTracksLink, ChosenByUserNotChecked, dialVars
    <3>. QED BY <3>3, <3>4
  <2>. QED BY <2>1, <2>2 DEF Poll
<1>3. HuntTypes' /\ FastSearchBounded'
  BY <1>1, HuntFrame DEF IInv, TypeOK, HuntTypes, failVars
<1>4. WorldTypes'
  BY <1>1 DEF IInv, TypeOK, WorldTypes, envVars
<1>. QED BY <1>2, <1>3, <1>4 DEF IInv, TypeOK

\* A request that is dropped on a full channel, or queued behind the others.
LEMMA Queued ==
  ASSUME IInv, NEW cmd \in Command
  PROVE  Append(cmdq, cmd) \in Seq(Command)
BY DEF IInv, TypeOK, WorldTypes

LEMMA EnvironmentInv == IInv /\ Environment => IInv'
<1>. SUFFICES ASSUME IInv, Environment PROVE IInv'
  OBVIOUS
<1>1. /\ targetIp \in Addr \cup {NoAddr, BadAddr} /\ lastDev \in Answers
      /\ auto \in BOOLEAN /\ settled \in BOOLEAN
      /\ cmdq \in Seq(Command) /\ device \in Wirings
  BY DEF IInv, TypeOK, WorldTypes
<1>2. ASSUME NEW op \in Ops, Request(Plain(op)) PROVE IInv'
  <2>1. cmdq' \in Seq(Command)
    BY <1>2, Queued DEF Request, Command
  <2>2. WorldTypes'
    BY <1>1, <1>2, <2>1 DEF WorldTypes, Request, workerVars, envVars
  <2>. QED BY <1>2, <2>2, WorkerFrame DEF Request
<1>3. ASSUME NEW x \in Picks, SelectTarget(x) PROVE IInv'
  <2>1. cmdq' \in Seq(Command)
    BY <1>1, <1>3, Queued DEF SelectTarget, Command
  <2>2. x \in Addr
    BY ConstantsAssumption
  <2>3. WorldTypes'
    BY <1>1, <1>3, <2>1, <2>2 DEF WorldTypes, SelectTarget, workerVars, envVars
  <2>. QED BY <1>3, <2>3, WorkerFrame DEF SelectTarget
<1>4. ASSUME NEW x \in Typed, EditTarget(x) PROVE IInv'
  <2>1. x \in Addr \cup {NoAddr, BadAddr}
    BY ConstantsAssumption
  <2>2. WorldTypes'
    BY <1>1, <1>4, <2>1 DEF WorldTypes, EditTarget, workerVars, envVars
  <2>. QED BY <1>4, <2>2, WorkerFrame DEF EditTarget
<1>5. CASE ToggleAuto
  <2>1. auto' \in BOOLEAN
    BY <1>1, <1>5 DEF ToggleAuto
  <2>2. WorldTypes'
    BY <1>1, <1>5, <2>1 DEF WorldTypes, ToggleAuto, workerVars, envVars
  <2>. QED BY <1>5, <2>2, WorkerFrame DEF ToggleAuto
<1>6. CASE Rewire
  <2>1. WorldTypes'
    BY <1>1, <1>6 DEF WorldTypes, Rewire, workerVars
  <2>. QED BY <1>6, <2>1, WorkerFrame DEF Rewire
<1>7. CASE Settle
  <2>1. WorldTypes'
    BY <1>1, <1>7 DEF WorldTypes, Settle, workerVars
  <2>. QED BY <1>7, <2>1, WorkerFrame DEF Settle
<1>. QED BY <1>2, <1>3, <1>4, <1>5, <1>6, <1>7 DEF Environment

-----------------------------------------------------------------------------
(* The inductive invariant *)

LEMMA InitInv == Init => IInv
<1>. SUFFICES ASSUME Init PROVE IInv
  OBVIOUS
<1>. USE DEF Init
<1>1. LoopTypes
  BY DEF LoopTypes, Phase
<1>2. LinkTypes
  BY DEF LinkTypes
<1>3. HuntTypes
  <2>1. /\ attempts \in 0..AttemptsCap /\ hbFails \in 0..RescanAfter
        /\ fastPasses \in 0..FastBudget /\ interval \in IntervalMin..IntervalMax
    BY Bounds
  <2>. QED BY <2>1 DEF HuntTypes
<1>4. WorldTypes
  BY ConstantsAssumption DEF WorldTypes
<1>5. LinkInv /\ FastSearchBounded
  BY DEF LinkInv, AwaitHasTarget, ConnectedHasLink, HungUpIsSilent, ScanOnlyWhenLost,
     StatusTracksLink, ChosenByUserNotChecked, FastSearchBounded
<1>. QED BY <1>1, <1>2, <1>3, <1>4, <1>5 DEF IInv, TypeOK

LEMMA StutterInv == IInv /\ UNCHANGED vars => IInv'
<1>. SUFFICES ASSUME IInv, UNCHANGED vars PROVE IInv'
  OBVIOUS
<1>1. UNCHANGED workerVars /\ UNCHANGED <<envVars, targetIp, auto, cmdq, lastDev>>
  BY DEF vars, workerVars
<1>2. WorldTypes'
  BY <1>1 DEF IInv, TypeOK, WorldTypes, envVars
<1>. QED BY <1>1, <1>2, WorkerFrame

LEMMA NextInv == IInv /\ [Next]_vars => IInv'
<1>. SUFFICES ASSUME IInv, [Next]_vars PROVE IInv'
  OBVIOUS
<1>1. ASSUME NEW cmd \in Command, Connect(cmd) PROVE IInv'
  BY <1>1, ConnectInv
<1>2. CASE Disconnect \/ Send \/ AuditSlots
  BY <1>2, DisconnectInv, SendInv, AuditSlotsInv
<1>3. CASE DrainDone \/ SkipAutoConnect \/ SkipScan \/ SkipHeartbeat \/ SkipPoll
  BY <1>3, IdleInv
<1>4. CASE AutoConnect \/ StartScan \/ ScanFruitless
  BY <1>4, AutoConnectInv, StartScanInv, ScanFruitlessInv
<1>5. ASSUME NEW x \in Addr, ScanHit(x) PROVE IInv'
  BY <1>5, ScanHitInv
<1>6. ASSUME NEW d \in Answers, Accept(d) \/ Reject(d) PROVE IInv'
  BY <1>6, AcceptInv, RejectInv
<1>7. CASE Heartbeat \/ NoAnswer \/ Poll
  BY <1>7, HeartbeatInv, NoAnswerInv, PollInv
<1>8. CASE Environment
  BY <1>8, EnvironmentInv
<1>9. CASE UNCHANGED vars
  BY <1>9, StutterInv
<1>. QED
  BY <1>1, <1>2, <1>3, <1>4, <1>5, <1>6, <1>7, <1>8, <1>9 DEF Next, Worker

LEMMA Invariance == Safety => []IInv
<1>1. Init => IInv
  BY InitInv
<1>2. IInv /\ [Next]_vars => IInv'
  BY NextInv
<1>. QED BY <1>1, <1>2, PTL DEF Safety

-----------------------------------------------------------------------------
(* What every run of the worker keeps, whatever the network does *)

\* Every field of the worker stays within the range of its Rust type and bound:
\* the saturating counters, the halving-doubling discovery interval, the queue.
THEOREM TypeCorrect == Safety => []TypeOK
<1>1. IInv => TypeOK
  BY DEF IInv
<1>. QED BY <1>1, Invariance, PTL

\* A link the worker holds up has a socket, an address and the user's consent.
THEOREM LinkIsReal == Safety => []ConnectedHasLink
<1>1. IInv => ConnectedHasLink
  BY DEF IInv, LinkInv
<1>. QED BY <1>1, Invariance, PTL

\* After a Disconnect the worker is silent until the user connects again.
THEOREM DisconnectSilences == Safety => []HungUpIsSilent
<1>1. IInv => HungUpIsSilent
  BY DEF IInv, LinkInv
<1>. QED BY <1>1, Invariance, PTL

\* The debug_assert of discover_and_retarget() holds throughout every scan.
THEOREM ScanAssertion == Safety => []ScanOnlyWhenLost
<1>1. IInv => ScanOnlyWhenLost
  BY DEF IInv, LinkInv
<1>. QED BY <1>1, Invariance, PTL

\* What the plugin was told last is outdated in one direction only, and only
\* after a rejection or while an answer is pending.
THEOREM StatusIsHonest == Safety => []StatusTracksLink
<1>1. IInv => StatusTracksLink
  BY DEF IInv, LinkInv
<1>. QED BY <1>1, Invariance, PTL

\* A console the user asked for is never checked against the persisted identity.
THEOREM UserChoiceStands == Safety => []ChosenByUserNotChecked
<1>1. IInv => ChosenByUserNotChecked
  BY DEF IInv, LinkInv
<1>. QED BY <1>1, Invariance, PTL

\* The fast search runs at the floor cadence, and not again once it is spent.
THEOREM SearchBudget == Safety => []FastSearchBounded
<1>1. IInv => FastSearchBounded
  BY DEF IInv
<1>. QED BY <1>1, Invariance, PTL

-----------------------------------------------------------------------------
(* What no step of the worker does *)

\* A step that is not the user's leaves the user's choice and the identity alone.
LEMMA EnvironmentFrame == Environment => UNCHANGED workerVars
BY DEF Environment, Request, SelectTarget, EditTarget, ToggleAuto, Rewire, Settle,
   workerVars

\* Only an explicit connect, taken from the command channel, ends a Disconnect:
\* not the self-connect, not a scan that was running, not a late answer.
THEOREM OnlyTheUserResumes == Safety => OnlyUserResumes
<1> DEFINE Explicit == /\ cmdq # <<>> /\ cmdq' = Tail(cmdq)
                       /\ Head(cmdq).op \in {"UpdateTarget", "ConnectToLast"}
<1>1. ASSUME IInv, [Next]_vars, userDisc, ~userDisc' PROVE Explicit
  <2>. USE <1>1
  <2>1. ASSUME NEW cmd \in Command, Connect(cmd) PROVE Explicit
    BY <2>1 DEF Connect, Take
  <2>2. CASE Disconnect \/ Send \/ AuditSlots
    BY <2>2 DEF Disconnect, HangUp, Send, AuditSlots, dialVars
  <2>3. CASE DrainDone \/ SkipAutoConnect \/ SkipScan \/ SkipHeartbeat \/ SkipPoll
    BY <2>3 DEF DrainDone, SkipAutoConnect, SkipScan, SkipHeartbeat, SkipPoll, dialVars
  <2>4. ~AutoConnect
    BY DEF AutoConnect, MayAutoConnect
  <2>5. ASSUME NEW x \in Addr PROVE ~ScanHit(x)
    BY DEF ScanHit, IInv, LinkInv, ScanOnlyWhenLost
  <2>6. CASE StartScan \/ ScanFruitless \/ Heartbeat \/ NoAnswer \/ Poll
    BY <2>6 DEF StartScan, ScanFruitless, Heartbeat, NoAnswer, Poll, dialVars
  <2>7. ASSUME NEW d \in Answers, Accept(d) \/ Reject(d) PROVE FALSE
    BY <2>7 DEF Accept, Reject, dialVars
  <2>8. CASE Environment
    BY <2>8, EnvironmentFrame DEF workerVars, dialVars
  <2>9. CASE UNCHANGED vars
    BY <2>9 DEF vars, dialVars
  <2>. QED
    BY <2>1, <2>2, <2>3, <2>4, <2>5, <2>6, <2>7, <2>8, <2>9 DEF Next, Worker
<1>2. IInv /\ [Next]_vars => [userDisc /\ ~userDisc' => Explicit]_vars
  BY <1>1
<1>. QED BY <1>2, Invariance, PTL DEF Safety, OnlyUserResumes

\* While no command asks for a connection, the worker dials on its own account only, and so
\* checks who answers, wherever the answer comes from and however late: it keeps the console it
\* knew at first, or one that reports no name takes its place, but no other named one.
Unattended == [][\A cmd \in Command : ~Connect(cmd)]_vars
KnownStays(k) ==
  /\ target # NoAddr => fromAuto
  /\ lastDev \in {k} \cup Nameless

THEOREM UnattendedKeepsConsole ==
  ASSUME NEW k \in Named
  PROVE  Safety /\ lastDev = k /\ Unattended => [](lastDev \in {k} \cup Nameless)
<1>1. Init /\ lastDev = k => KnownStays(k)
  BY DEF Init, KnownStays
<1>2. IInv /\ KnownStays(k) /\ [Next]_vars /\ [\A cmd \in Command : ~Connect(cmd)]_vars => KnownStays(k)'
  <2> SUFFICES ASSUME IInv, KnownStays(k), [Next]_vars,
                      [\A cmd \in Command : ~Connect(cmd)]_vars
               PROVE  KnownStays(k)'
    OBVIOUS
  <2>1. ASSUME NEW d \in Answers, Accept(d) PROVE KnownStays(k)'
    <3>1. fromAuto /\ lastDev # Blank
      BY <2>1, ConstantsAssumption DEF Accept, Ident, IInv, LinkInv, AwaitHasTarget, KnownStays
    <3>2. d \in {lastDev, Blank} \cup Nameless
      BY <2>1, <3>1 DEF Accept, WrongDevice, Answers, Ident
    <3> QED
      BY <2>1, <3>2 DEF Accept, Identified, KnownStays, dialVars
  <2>2. ASSUME NEW d \in Answers, Reject(d) PROVE KnownStays(k)'
    BY <2>2 DEF Reject, KnownStays
  <2>3. CASE AutoConnect
    BY <2>3 DEF AutoConnect, KnownStays
  <2>4. ASSUME NEW x \in Addr, ScanHit(x) PROVE KnownStays(k)'
    BY <2>4 DEF ScanHit, KnownStays, dialVars
  <2>5. CASE Disconnect
    BY <2>5 DEF Disconnect, HangUp, Take, KnownStays
  <2>6. CASE Send \/ AuditSlots
    BY <2>6 DEF Send, AuditSlots, Take, KnownStays, dialVars
  <2>7. CASE DrainDone \/ SkipAutoConnect \/ SkipScan \/ SkipHeartbeat \/ SkipPoll
    BY <2>7 DEF DrainDone, SkipAutoConnect, SkipScan, SkipHeartbeat, SkipPoll, KnownStays, dialVars
  <2>8. CASE StartScan \/ ScanFruitless \/ Heartbeat \/ NoAnswer \/ Poll
    BY <2>8 DEF StartScan, ScanFruitless, Heartbeat, NoAnswer, Poll, KnownStays, dialVars
  <2>9. CASE Environment
    BY <2>9, EnvironmentFrame DEF workerVars, KnownStays, dialVars
  <2>10. CASE UNCHANGED vars
    BY <2>10 DEF vars, KnownStays, dialVars
  <2>11. ASSUME NEW cmd \in Command, Connect(cmd) PROVE KnownStays(k)'
    BY <2>10, <2>11
  <2> QED
    BY <2>1, <2>2, <2>3, <2>4, <2>5, <2>6, <2>7, <2>8, <2>9, <2>10, <2>11 DEF Next, Worker
<1>3. KnownStays(k) => lastDev \in {k} \cup Nameless
  BY DEF KnownStays
<1> QED
  BY <1>1, <1>2, <1>3, Invariance, PTL DEF Safety, Unattended

\* The verdict on the link as the worker reports it.
VerdictOn(up) == IF up THEN "Connected" ELSE "Disconnected"

\* Whatever happens to the link, the plugin is told how it is now, but for one silence: a
\* rejection, which gives up the address with the link.
SaysSo ==
  \/ UNCHANGED <<connected, told>>
  \/ told' = VerdictOn(connected')
  \/ ~connected' /\ target' = NoAddr /\ UNCHANGED told

LinkIsReported == [][SaysSo]_vars

LEMMA DropSays == DropSocket => SaysSo
BY DEF DropSocket, SaysSo, VerdictOn

LEMMA ProbeSays ==
  ASSUME NEW a, NEW s, NEW buf, NEW back, Probe(a, s, buf, back)
  PROVE  SaysSo
BY DropSays DEF Probe, SaysSo

LEMMA DialSays == ASSUME NEW a, NEW back, Dial(a, back) PROVE SaysSo
BY ProbeSays DEF Dial

LEMMA BadDialSays == BadDial => SaysSo
BY DEF BadDial, SaysSo, sockVars

\* The worker that SyncEngine and HostPanel see as a link that comes and goes, and speaks or
\* does not, is this one: each of its steps is a verdict, silence without a change, or the
\* silence of a rejection.
THEOREM LossesAreReported == Safety => LinkIsReported
<1>1. ASSUME [Next]_vars PROVE SaysSo
  <2>1. ASSUME NEW cmd \in Command, Connect(cmd) PROVE SaysSo
    BY <2>1, DialSays, BadDialSays DEF Connect
  <2>2. CASE Disconnect \/ Send
    BY <2>2, DropSays DEF Disconnect, Send, SaysSo, sockVars
  <2>3. CASE AuditSlots \/ DrainDone \/ SkipAutoConnect \/ SkipScan \/ SkipHeartbeat \/ SkipPoll
    BY <2>3 DEF AuditSlots, DrainDone, SkipAutoConnect, SkipScan, SkipHeartbeat, SkipPoll,
                SaysSo, sockVars
  <2>4. CASE AutoConnect
    BY <2>4, DialSays, BadDialSays DEF AutoConnect
  <2>5. CASE StartScan \/ ScanFruitless
    BY <2>5 DEF StartScan, ScanFruitless, SaysSo, sockVars
  <2>6. ASSUME NEW a \in Addr, ScanHit(a) PROVE SaysSo
    BY <2>6, DialSays DEF ScanHit, SaysSo, sockVars
  <2>7. CASE Heartbeat
    BY <2>7, ProbeSays DEF Heartbeat
  <2>8. ASSUME NEW d \in Answers, Accept(d) \/ Reject(d) PROVE SaysSo
    BY <2>8 DEF Accept, Reject, SaysSo, VerdictOn
  <2>9. CASE NoAnswer
    BY <2>9 DEF NoAnswer, SaysSo, VerdictOn
  <2>10. CASE Poll
    BY <2>10, DropSays DEF Poll, SaysSo
  <2>11. CASE Environment
    BY <2>11, EnvironmentFrame DEF workerVars, sockVars, SaysSo
  <2>12. CASE UNCHANGED vars
    BY <2>12 DEF vars, sockVars, SaysSo
  <2>. QED
    BY <1>1, <2>1, <2>2, <2>3, <2>4, <2>5, <2>6, <2>7, <2>8, <2>9, <2>10, <2>11, <2>12
       DEF Next, Worker
<1>2. [Next]_vars => [SaysSo]_vars
  BY <1>1
<1>. QED BY <1>2, PTL DEF Safety, LinkIsReported

\* The background passes of the loop never take down a link that is up.
THEOREM BackgroundIsHarmless == Safety => OnlyLinkTrafficDrops
<1> DEFINE Traffic == phase \in {"drain", "await", "heartbeat", "poll"}
<1>1. ASSUME IInv, [Next]_vars, connected, ~connected' PROVE Traffic
  <2>. USE <1>1
  <2>1. ASSUME NEW cmd \in Command, Connect(cmd) PROVE Traffic
    BY <2>1 DEF Connect, Take
  <2>2. CASE Disconnect \/ Send \/ AuditSlots
    BY <2>2 DEF Disconnect, Send, AuditSlots, Take
  <2>3. ~(DrainDone \/ SkipAutoConnect \/ SkipScan \/ SkipHeartbeat \/ SkipPoll)
    BY DEF DrainDone, SkipAutoConnect, SkipScan, SkipHeartbeat, SkipPoll, sockVars
  <2>4. ~AutoConnect
    BY DEF AutoConnect, MayAutoConnect, IInv, LinkInv, ConnectedHasLink
  <2>5. ASSUME NEW x \in Addr PROVE ~ScanHit(x)
    BY DEF ScanHit, IInv, LinkInv, ScanOnlyWhenLost
  <2>6. ~(StartScan \/ ScanFruitless)
    BY DEF StartScan, ScanFruitless, sockVars
  <2>7. CASE Heartbeat \/ NoAnswer \/ Poll
    BY <2>7 DEF Heartbeat, NoAnswer, Poll
  <2>8. ASSUME NEW d \in Answers, Accept(d) \/ Reject(d) PROVE Traffic
    BY <2>8 DEF Accept, Reject
  <2>9. ~Environment
    BY EnvironmentFrame DEF workerVars, sockVars
  <2>10. ~UNCHANGED vars
    BY DEF vars, sockVars
  <2>. QED
    BY <2>1, <2>2, <2>3, <2>4, <2>5, <2>6, <2>7, <2>8, <2>9, <2>10 DEF Next, Worker
<1>2. IInv /\ [Next]_vars => [connected /\ ~connected' => Traffic]_vars
  BY <1>1
<1>. QED BY <1>2, Invariance, PTL DEF Safety, OnlyLinkTrafficDrops

-----------------------------------------------------------------------------
(* The worker implements ConsoleLink *)

\* What a dial does to the link.
LEMMA DialKeepsOrTries ==
  ASSUME IInv, NEW a \in Addr, NEW back, Dial(a, back)
  PROVE  LinkState' \in {"trying"} \cup {LinkState}
<1>1. /\ userDisc' = FALSE /\ target' = a
      /\ connected' = connected \/ connected' = FALSE
  BY DialOutcome DEF IInv, DropSocket
<1>2. userDisc => ~connected
  BY DEF IInv, LinkInv, HungUpIsSilent
<1>. QED BY <1>1, <1>2, NoAddrIsNone DEF LinkState, IInv, TypeOK, LinkTypes

\* A dropped socket loses a link that is up, and leaves any other alone.
LEMMA DropLoses ==
  ASSUME IInv, DropSocket, UNCHANGED <<target, userDisc, fromAuto, lastDev>>
  PROVE  Link!Lost \/ UNCHANGED Link!linkVars
<1>1. connected => ~userDisc /\ target # NoAddr
  BY DEF IInv, LinkInv, ConnectedHasLink
<1>. QED BY <1>1 DEF DropSocket, LinkState, Link!Lost, Link!linkVars

LEMMA ConnectLink ==
  ASSUME IInv, NEW cmd \in Command, Connect(cmd)
  PROVE  Link!UserConnect
<1>1. fromAuto' = FALSE /\ UNCHANGED lastDev
  BY DEF Connect, ExplicitOrigin, Take
<1>2. LinkState' \in {"trying"} \cup {LinkState}
  <2>1. CASE \E a \in Addr : Dial(a, "drain")
    BY <2>1, DialKeepsOrTries
  <2>2. CASE BadDial
    BY <2>2 DEF BadDial, sockVars, LinkState
  <2>. QED BY <2>1, <2>2 DEF Connect
<1>. QED BY <1>1, <1>2 DEF Link!UserConnect

LEMMA AutoConnectLink == IInv /\ AutoConnect => Link!SelfConnect
<1>. SUFFICES ASSUME IInv, AutoConnect PROVE Link!SelfConnect
  OBVIOUS
<1>1. LinkState \in {"idle", "trying"}
  BY DEF AutoConnect, MayAutoConnect, IInv, LinkInv, ConnectedHasLink, LinkState
<1>2. LinkState' \in {"trying"} \cup {LinkState}
  <2>1. CASE \E a \in Addr : Dial(a, "discover")
    BY <2>1, DialKeepsOrTries
  <2>2. CASE BadDial
    BY <2>2 DEF BadDial, sockVars, LinkState
  <2>. QED BY <2>1, <2>2 DEF AutoConnect
<1>. QED BY <1>1, <1>2 DEF AutoConnect, Link!SelfConnect

LEMMA ScanHitLink ==
  ASSUME IInv, NEW a \in Addr, ScanHit(a)
  PROVE  Link!SelfConnect \/ UNCHANGED Link!linkVars
<1>1. CASE UNCHANGED <<sockVars, dialVars, lastDev>>
  BY <1>1 DEF sockVars, dialVars, LinkState, Link!linkVars
<1>2. CASE fromAuto' = TRUE /\ Dial(a, "heartbeat") /\ UNCHANGED lastDev
  <2>1. LinkState \in {"idle", "trying"}
    BY DEF ScanHit, IInv, LinkInv, ScanOnlyWhenLost, LinkState
  <2>2. LinkState' \in {"trying"} \cup {LinkState}
    BY <1>2, DialKeepsOrTries
  <2>. QED BY <1>2, <2>1, <2>2 DEF Link!SelfConnect
<1>. QED BY <1>1, <1>2 DEF ScanHit

LEMMA AcceptLink ==
  ASSUME IInv, NEW d \in Answers, Accept(d)
  PROVE  Link!Up(d)
<1>1. LinkState \in {"trying", "up"} /\ LinkState' = "up"
  BY DEF Accept, IInv, LinkInv, AwaitHasTarget, LinkState, dialVars
<1>2. fromAuto /\ lastDev # Blank /\ d \in Named => d = lastDev
  BY DEF Accept, Identified, WrongDevice
<1>. QED BY <1>1, <1>2 DEF Accept, Identified, dialVars, Link!Up

LEMMA RejectLink ==
  ASSUME IInv, NEW d \in Answers, Reject(d)
  PROVE  Link!GiveUp
<1>1. LinkState \in {"trying", "up"} /\ LinkState' = "idle"
  BY DEF Reject, IInv, LinkInv, AwaitHasTarget, LinkState
<1>. QED BY <1>1 DEF Reject, WrongDevice, Link!GiveUp

LEMMA NoAnswerLink == IInv /\ NoAnswer => Link!Lost \/ UNCHANGED Link!linkVars
<1>. SUFFICES ASSUME IInv, NoAnswer PROVE Link!Lost \/ UNCHANGED Link!linkVars
  OBVIOUS
<1>1. target # NoAddr /\ ~userDisc
  BY DEF NoAnswer, IInv, LinkInv, AwaitHasTarget
<1>. QED BY <1>1 DEF NoAnswer, dialVars, LinkState, Link!Lost, Link!linkVars

\* The packets of the commands, the heartbeat and the telemetry.
LEMMA TrafficLink ==
  ASSUME IInv, Send \/ AuditSlots \/ Heartbeat \/ Poll
  PROVE  Link!Lost \/ UNCHANGED Link!linkVars
<1>1. UNCHANGED <<target, userDisc, fromAuto, lastDev>>
  BY DEF Send, AuditSlots, Heartbeat, Poll, Take, dialVars
<1>2. DropSocket \/ UNCHANGED connected
  BY DEF Send, AuditSlots, Heartbeat, Poll, Probe, sockVars
<1>3. CASE DropSocket
  BY <1>1, <1>3, DropLoses
<1>4. CASE UNCHANGED connected
  BY <1>1, <1>4 DEF LinkState, Link!linkVars
<1>. QED BY <1>2, <1>3, <1>4

LEMMA LinkStep ==
  ASSUME IInv, [Next]_vars
  PROVE  Link!Next \/ UNCHANGED Link!linkVars
<1>. USE DEF Link!Next
<1>1. ASSUME NEW cmd \in Command, Connect(cmd) PROVE Link!Next
  BY <1>1, ConnectLink
<1>2. CASE Disconnect
  BY <1>2 DEF Disconnect, HangUp, Take, LinkState, Link!HangUp
<1>3. CASE Send \/ AuditSlots \/ Heartbeat \/ Poll
  BY <1>3, TrafficLink
<1>4. CASE AutoConnect
  BY <1>4, AutoConnectLink
<1>5. ASSUME NEW x \in Addr, ScanHit(x) PROVE Link!Next \/ UNCHANGED Link!linkVars
  BY <1>5, ScanHitLink
<1>6. ASSUME NEW d \in Answers, Accept(d) \/ Reject(d) PROVE Link!Next
  BY <1>6, AcceptLink, RejectLink DEF Answers, Ident
<1>7. CASE NoAnswer
  BY <1>7, NoAnswerLink
<1>8. CASE \/ DrainDone \/ SkipAutoConnect \/ SkipScan \/ SkipHeartbeat \/ SkipPoll
           \/ StartScan \/ ScanFruitless \/ Environment \/ UNCHANGED vars
  <2>1. UNCHANGED <<sockVars, dialVars, lastDev>>
    BY <1>8, EnvironmentFrame
    DEF DrainDone, SkipAutoConnect, SkipScan, SkipHeartbeat, SkipPoll, StartScan,
        ScanFruitless, workerVars, vars
  <2>. QED BY <2>1 DEF sockVars, dialVars, LinkState, Link!linkVars
<1>. QED
  BY <1>1, <1>2, <1>3, <1>4, <1>5, <1>6, <1>7, <1>8 DEF Next, Worker

\* Every behaviour of the worker, seen as the state of its link, is one that
\* ConsoleLink allows.
THEOREM WorkerImplementsLink == Safety => ImplementsLink
<1>1. Init => Link!Init
  BY DEF Init, LinkState, Link!Init, Answers, Ident
<1>2. IInv /\ [Next]_vars => [Link!Next]_(Link!linkVars)
  BY LinkStep
<1>. QED BY <1>1, <1>2, Invariance, PTL DEF Safety, ImplementsLink, Link!Spec

-----------------------------------------------------------------------------
(* The worker with its clocks *)

\* The ages stop at the longest interval; a heartbeat that is under way was due.
ClockTypes ==
  /\ hbAge \in 0..IntervalMax /\ dialAge \in 0..IntervalMax /\ scanAge \in 0..IntervalMax
  /\ hbDue \in 0..IntervalMax /\ (phase = "await" /\ ret = "poll" => hbDue <= hbAge)
  /\ ifKnown \in BOOLEAN /\ moves \in Nat /\ unserved \in Nat

\* With nobody in the way, one packet at most is on its way, and only to a wait for it.
Undisturbed ==
  /\ settled /\ auto /\ ~userDisc /\ cmdq = <<>>
  /\ targetIp \in Addr /\ lastDev # Blank
  /\ phase # "await" => rxbuf = {}
  /\ \A p, q \in rxbuf : p = q

\* The inductive invariant of the worker with its clocks.
TimedInv == IInv /\ Undisturbed /\ ClockTypes

LEMMA CadenceBounds ==
  /\ HeartbeatEvery \in 1..(IntervalMax - 1) /\ BackoffCap \in 0..IntervalMax
  /\ RecvTimeout \in 0..(IntervalMax - 1) /\ ScanWindow \in Nat
  /\ IntervalMin \in 1..IntervalMax /\ IntervalMax \in Nat
BY CadenceAssumption, Bounds

\* The delay of the back-off never exceeds its cap, however many failures there were.
LEMMA DelayCapped == ASSUME NEW n PROVE NextDelay(n) \in 0..BackoffCap
<1>. DEFINE doubled == BackoffBase * 2^n
<1>1. NextDelay(n) = IF doubled \in 0..BackoffCap THEN doubled ELSE BackoffCap
  BY DEF NextDelay
<1>2. BackoffCap \in 0..BackoffCap
  BY CadenceBounds
<1>. HIDE DEF doubled
<1>. QED BY <1>1, <1>2

LEMMA HeartbeatIntervalType ==
  HeartbeatInterval \in 0..IntervalMax /\ (connected => HeartbeatInterval = HeartbeatEvery)
BY DelayCapped, CadenceBounds DEF HeartbeatInterval

LEMMA LaterType ==
  ASSUME NEW age \in 0..IntervalMax, NEW dt \in Nat
  PROVE  /\ Later(age, dt) \in 0..IntervalMax
         /\ Later(age, dt) >= age
         /\ Later(age, dt) = age + dt \/ Later(age, dt) = IntervalMax
BY CadenceBounds DEF Later, AgeCap

\* The history counts the time while the console is there and not served.
LEMMA Waited ==
  ASSUME ClockTypes, NEW dt \in Nat, Wait(dt)
  PROVE  /\ unserved' \in 0..(unserved + dt)
         /\ unserved' # 0 => ConsolePresent' /\ ~Served'
BY CadenceBounds DEF ClockTypes, Wait, UnservedCap, Patience

LEMMA PassType ==
  ASSUME ClockTypes, NEW dt \in Nat, NEW restarted, Pass(dt, restarted)
  PROVE  /\ hbAge' \in 0..IntervalMax /\ dialAge' \in 0..IntervalMax
         /\ scanAge' \in 0..IntervalMax /\ unserved' \in Nat
<1>1. unserved' \in Nat
  BY Waited DEF Pass, ClockTypes
<1>2. /\ hbAge' \in {0, Later(hbAge, dt)} /\ dialAge' \in {0, Later(dialAge, dt)}
      /\ scanAge' \in {0, Later(scanAge, dt)}
  BY DEF Pass
<1>3. 0 \in 0..IntervalMax
  BY CadenceBounds
<1>. QED BY <1>1, <1>2, <1>3, LaterType DEF ClockTypes

\* A probe on an empty socket in a settled network brings the answer, if there is one.
LEMMA OneReply ==
  ASSUME settled, NEW a, NEW p, NEW buf \in Replies(a, {}, p)
  PROVE  buf = IF device[a] = Silent THEN {} ELSE {p}
<1>1. Cardinality({}) # LateCap
  BY FS_EmptySet, ConstantsAssumption
<1>. QED BY <1>1 DEF Replies

\* The two ways a probe leaves in a settled network: a socket there always is.
LEMMA SettledDial ==
  ASSUME settled, NEW a, NEW back, Dial(a, back)
  PROVE  /\ userDisc' = FALSE /\ attempts' = 0 /\ target' = a
         /\ phase' = "await" /\ ret' = back /\ connected' = connected
         /\ rxbuf' = IF device[a] = Silent THEN {} ELSE {device[a]}
<1>1. Probe(a, TRUE, {}, back)
  BY DEF Dial, Rebound
<1>2. rxbuf' \in Replies(a, {}, device[a]) /\ phase' = "await" /\ ret' = back /\ connected' = connected
  BY <1>1 DEF Probe
<1>. QED BY <1>2, OneReply DEF Dial

LEMMA SettledHeartbeat ==
  ASSUME TimedInv, Heartbeat
  PROVE  /\ phase = "heartbeat" /\ target # NoAddr
         /\ phase' = "await" /\ ret' = "poll"
         /\ rxbuf' = IF device[target] = Silent THEN {} ELSE {device[target]}
         /\ UNCHANGED <<connected, huntVars, failVars, dialVars, envVars, targetIp, lastDev, auto, cmdq>>
<1>1. phase = "heartbeat" /\ target # NoAddr /\ rxbuf = {} /\ settled
  BY DEF Heartbeat, MayHeartbeat, TimedInv, Undisturbed
<1>2. Probe(target, TRUE, {}, "poll") /\ attempts' = attempts
  BY <1>1 DEF Heartbeat, Rebound
<1>3. rxbuf' \in Replies(target, {}, device[target]) /\ phase' = "await" /\ ret' = "poll" /\ connected' = connected
  BY <1>1, <1>2 DEF Probe
<1>. QED BY <1>1, <1>2, <1>3, OneReply DEF Heartbeat, failVars

\* The telemetry of a link that is up takes its own answer, or none.
LEMMA SettledPoll ==
  ASSUME TimedInv, Poll \/ SkipPoll
  PROVE  /\ phase = "poll" /\ phase' = "drain" /\ rxbuf' = {}
         /\ UNCHANGED <<connected, huntVars, failVars, dialVars, envVars, targetIp, lastDev, auto, cmdq>>
<1>1. CASE SkipPoll
  BY <1>1 DEF SkipPoll, sockVars, TimedInv, Undisturbed
<1>2. CASE Poll
  <2>1. phase = "poll" /\ connected /\ rxbuf = {} /\ settled /\ sock
    BY <1>2 DEF Poll, TimedInv, Undisturbed, IInv, LinkInv, ConnectedHasLink
  <2>2. PICK buf \in Replies(target, {}, Fx) :
          (rxbuf' = buf /\ buf = {}) \/ \E p \in buf : rxbuf' = buf \ {p}
    BY <1>2, <2>1 DEF Poll
  <2>3. buf = {} \/ buf = {Fx}
    BY <2>1, OneReply
  <2>. QED BY <1>2, <2>1, <2>2, <2>3 DEF Poll
<1>. QED BY <1>1, <1>2

\* All that happens with the clocks happens to the worker, but for the consoles' moves.
LEMMA StepIsWorkers == ASSUME Step PROVE Worker
<1>1. CASE TimedDrain \/ TimedAutoConnect \/ TimedSkipAutoConnect
  BY <1>1 DEF TimedDrain, TimedAutoConnect, TimedSkipAutoConnect, Worker
<1>2. CASE TimedStartScan \/ TimedSkipScan \/ TimedScanEnd
  BY <1>2 DEF TimedStartScan, TimedSkipScan, TimedScanEnd, Worker
<1>3. CASE TimedHeartbeat \/ TimedSkipHeartbeat \/ TimedSleep
  BY <1>3 DEF TimedHeartbeat, TimedSkipHeartbeat, TimedSleep, Worker
<1>4. CASE TimedAnswer
  BY <1>4 DEF TimedAnswer, Worker
<1>. QED BY <1>1, <1>2, <1>3, <1>4 DEF Step

LEMMA TimedWorkerInv == IInv /\ [TimedNext]_allVars => IInv'
<1>. SUFFICES ASSUME IInv, [TimedNext]_allVars PROVE IInv'
  OBVIOUS
<1>1. CASE Step
  BY <1>1, StepIsWorkers, NextInv DEF Next
<1>2. CASE Move
  <2>1. UNCHANGED workerVars
    BY <1>2 DEF Move
  <2>2. WorldTypes'
    BY <1>2 DEF Move, workerVars, IInv, TypeOK, WorldTypes
  <2>. QED BY <2>1, <2>2, WorkerFrame
<1>3. CASE UNCHANGED allVars
  BY <1>3, NextInv DEF allVars
<1>. QED BY <1>1, <1>2, <1>3 DEF TimedNext

\* The self-connect has an address that parses, so it dials.
LEMMA SettledAutoConnect ==
  ASSUME TimedInv, AutoConnect
  PROVE  /\ phase = "auto" /\ target = NoAddr /\ Dial(targetIp, "discover")
         /\ phase' = "await" /\ ret' = "discover" /\ target' = targetIp
         /\ connected' = connected
         /\ rxbuf' = IF device[targetIp] = Silent THEN {} ELSE {device[targetIp]}
         /\ UNCHANGED <<huntVars, envVars, targetIp, lastDev, auto, cmdq>>
<1>1. targetIp \in Addr /\ settled
  BY DEF TimedInv, Undisturbed
<1>2. Dial(targetIp, "discover")
  BY <1>1 DEF AutoConnect
<1>. QED BY <1>1, <1>2, SettledDial DEF AutoConnect, MayAutoConnect

\* A step on the way round the loop that touches neither the socket nor the world.
LEMMA UndisturbedFrame ==
  ASSUME Undisturbed, phase # "await", phase' # "await",
         UNCHANGED <<sockVars, userDisc, settled, targetIp, lastDev, auto, cmdq>>
  PROVE  Undisturbed'
BY DEF Undisturbed, sockVars

LEMMA LastOne ==
  ASSUME NEW s, \A p, q \in s : p = q, NEW d \in s
  PROVE  s \ {d} = {}
OBVIOUS

LEMMA AnswerFacts ==
  ASSUME TimedInv, (\E d \in Answers : Accept(d) \/ Reject(d)) \/ NoAnswer
  PROVE  /\ phase = "await" /\ phase' = ret /\ ret' = ret /\ rxbuf' = {}
         /\ lastDev' # Blank
         /\ ret \in {"drain", "discover", "heartbeat", "poll"}
         /\ UNCHANGED <<device, settled, userDisc, targetIp, auto, cmdq, scanned>>
<1>1. ret \in {"drain", "discover", "heartbeat", "poll"}
  BY DEF TimedInv, IInv, TypeOK, LoopTypes
<1>2. (\A p, q \in rxbuf : p = q) /\ lastDev # Blank /\ settled
  BY DEF TimedInv, Undisturbed
<1>3. ASSUME NEW d \in Answers, Accept(d) PROVE rxbuf' = {} /\ lastDev' # Blank
  BY <1>2, <1>3 DEF Accept, Identified
<1>4. ASSUME NEW d \in Answers, Reject(d) PROVE rxbuf' = {} /\ lastDev' # Blank
  BY <1>2, <1>4 DEF Reject
<1>5. ASSUME NoAnswer PROVE rxbuf' = {} /\ lastDev' # Blank
  <2>1. \/ Fx \in rxbuf /\ rxbuf' = rxbuf \ {Fx}
        \/ (settled => rxbuf = {}) /\ rxbuf' = rxbuf
    BY <1>5 DEF NoAnswer
  <2>2. lastDev' = lastDev
    BY <1>5 DEF NoAnswer
  <2>3. rxbuf' = {}
    BY <1>2, <2>1, LastOne
  <2>. QED BY <1>2, <2>2, <2>3
<1>6. rxbuf' = {} /\ lastDev' # Blank
  BY <1>3, <1>4, <1>5
<1>. QED
  BY <1>1, <1>6 DEF Accept, Reject, NoAnswer, RequestRetarget, huntVars, dialVars, envVars

LEMMA UndisturbedInv == TimedInv /\ [TimedNext]_allVars => Undisturbed'
<1>. SUFFICES ASSUME TimedInv, [TimedNext]_allVars PROVE Undisturbed'
  OBVIOUS
<1>0. Undisturbed
  BY DEF TimedInv
<1>1. CASE TimedDrain \/ TimedSkipAutoConnect \/ TimedSkipScan \/ TimedSkipHeartbeat
  BY <1>0, <1>1, UndisturbedFrame DEF TimedDrain, DrainDone, TimedSkipAutoConnect, SkipAutoConnect,
     TimedSkipScan, SkipScan, TimedSkipHeartbeat, SkipHeartbeat, dialVars, envVars
<1>2. CASE TimedStartScan
  BY <1>0, <1>2, UndisturbedFrame DEF TimedStartScan, StartScan, dialVars, envVars
<1>3. CASE TimedAutoConnect
  <2>1. /\ phase' = "await" /\ userDisc' = FALSE
        /\ rxbuf' = IF device[targetIp] = Silent THEN {} ELSE {device[targetIp]}
        /\ UNCHANGED <<envVars, targetIp, lastDev, auto, cmdq>>
    BY <1>3, SettledAutoConnect DEF TimedAutoConnect, Dial
  <2>. QED BY <1>0, <2>1 DEF Undisturbed, envVars
<1>4. CASE TimedScanEnd
  <2>1. CASE ScanFruitless
    BY <1>0, <2>1, UndisturbedFrame DEF ScanFruitless, dialVars, envVars
  <2>2. ASSUME NEW a \in Addr, ScanHit(a) PROVE Undisturbed'
    <3>1. CASE target = a
      BY <1>0, <2>2, <3>1, UndisturbedFrame DEF ScanHit, dialVars, envVars
    <3>2. CASE target # a
      <4>1. settled /\ Dial(a, "heartbeat") /\ targetIp' = a
        BY <1>0, <2>2, <3>2 DEF ScanHit, Undisturbed
      <4>. QED BY <1>0, <2>2, <4>1, SettledDial DEF ScanHit, Undisturbed, envVars
    <3>. QED BY <3>1, <3>2
  <2>. QED BY <1>4, <2>1, <2>2 DEF TimedScanEnd
<1>5. CASE TimedHeartbeat
  <2>1. Heartbeat
    BY <1>5 DEF TimedHeartbeat
  <2>. QED BY <1>0, <2>1, SettledHeartbeat DEF Undisturbed, dialVars, envVars
<1>6. CASE TimedAnswer
  <2>1. /\ phase' # "await" /\ rxbuf' = {} /\ lastDev' # Blank
        /\ UNCHANGED <<settled, userDisc, targetIp, auto, cmdq>>
    BY <1>6, AnswerFacts DEF TimedAnswer
  <2>. QED BY <1>0, <2>1 DEF Undisturbed
<1>7. CASE TimedSleep
  <2>1. Poll \/ SkipPoll
    BY <1>7 DEF TimedSleep
  <2>2. /\ phase' # "await" /\ rxbuf' = {}
        /\ UNCHANGED <<settled, userDisc, targetIp, lastDev, auto, cmdq>>
    BY <2>1, SettledPoll DEF dialVars, envVars
  <2>. QED BY <1>0, <2>2 DEF Undisturbed
<1>8. CASE Move
  BY <1>0, <1>8 DEF Move, workerVars, pcVars, sockVars, dialVars, Undisturbed
<1>9. CASE UNCHANGED allVars
  BY <1>0, <1>9 DEF allVars, vars, pcVars, sockVars, dialVars, envVars, Undisturbed
<1>. QED BY <1>1, <1>2, <1>3, <1>4, <1>5, <1>6, <1>7, <1>8, <1>9 DEF TimedNext, Step

LEMMA ClocksInv == TimedInv /\ [TimedNext]_allVars => ClockTypes'
<1>. SUFFICES ASSUME TimedInv, [TimedNext]_allVars PROVE ClockTypes'
  OBVIOUS
<1>0. ClockTypes
  BY DEF TimedInv
<1>1. CASE TimedDrain \/ TimedSkipAutoConnect \/ TimedSkipScan \/ TimedSkipHeartbeat
  BY <1>0, <1>1 DEF TimedDrain, DrainDone, TimedSkipAutoConnect, SkipAutoConnect,
     TimedSkipScan, SkipScan, TimedSkipHeartbeat, SkipHeartbeat, clocks, ClockTypes
<1>2. CASE TimedStartScan \/ TimedAutoConnect \/ TimedSleep
  <2>1. ~(phase' = "await" /\ ret' = "poll")
    <3>1. CASE TimedStartScan
      BY <3>1 DEF TimedStartScan, StartScan
    <3>2. CASE TimedAutoConnect
      BY <3>2, SettledAutoConnect DEF TimedAutoConnect
    <3>3. CASE TimedSleep
      BY <3>3, SettledPoll DEF TimedSleep
    <3>. QED BY <1>2, <3>1, <3>2, <3>3
  <2>2. /\ \E dt \in Nat : \E restarted : Pass(dt, restarted)
        /\ UNCHANGED <<hbDue, ifKnown, moves>>
    BY <1>2 DEF TimedStartScan, TimedAutoConnect, TimedSleep
  <2>. QED BY <1>0, <2>1, <2>2, PassType DEF ClockTypes
<1>3. CASE TimedScanEnd
  <2>1. ~(phase' = "await" /\ ret' = "poll")
    <3>1. CASE ScanFruitless
      BY <3>1 DEF ScanFruitless
    <3>2. ASSUME NEW a \in Addr, ScanHit(a) PROVE ~(phase' = "await" /\ ret' = "poll")
      <4>1. settled
        BY DEF TimedInv, Undisturbed
      <4>2. CASE target = a
        BY <3>2, <4>2 DEF ScanHit
      <4>3. CASE target # a
        <5>1. Dial(a, "heartbeat")
          BY <3>2, <4>3 DEF ScanHit
        <5>2. ret' = "heartbeat"
          BY <4>1, <5>1, SettledDial
        <5>. QED BY <5>2
      <4>. QED BY <4>2, <4>3
    <3>. QED BY <1>3, <3>1, <3>2 DEF TimedScanEnd
  <2>. QED
    BY <1>0, <1>3, <2>1, PassType, CadenceBounds DEF TimedScanEnd, ClockTypes
<1>4. CASE TimedHeartbeat
  BY <1>0, <1>4, HeartbeatIntervalType DEF TimedHeartbeat, ClockTypes
<1>5. CASE TimedAnswer
  <2>. DEFINE dt == IF rxbuf = {} THEN RecvTimeout ELSE 0
              age == Later(hbAge, dt)
  <2>1. dt \in Nat
    BY CadenceBounds
  <2>2. /\ dialAge' = Later(dialAge, dt) /\ scanAge' = Later(scanAge, dt)
        /\ hbAge' = IF ret = "poll" THEN NextBeat(age) ELSE age
        /\ Wait(dt)
        /\ UNCHANGED <<hbDue, ifKnown, moves>>
    BY <1>5 DEF TimedAnswer
  <2>. HIDE DEF dt
  <2>3. /\ age \in 0..IntervalMax /\ age >= hbAge
        /\ dialAge' \in 0..IntervalMax /\ scanAge' \in 0..IntervalMax
        /\ unserved' \in Nat
    BY <1>0, <2>1, <2>2, LaterType, Waited DEF ClockTypes
  <2>. HIDE DEF age
  <2>4. phase = "await" /\ phase' = ret /\ ret \in {"drain", "discover", "heartbeat", "poll"}
    BY <1>5, AnswerFacts DEF TimedAnswer
  <2>5. hbAge' \in 0..IntervalMax
    BY <1>0, <2>2, <2>3, <2>4, CadenceBounds DEF ClockTypes, NextBeat
  <2>. QED BY <1>0, <2>2, <2>3, <2>4, <2>5 DEF ClockTypes
<1>6. CASE Move
  BY <1>0, <1>6 DEF Move, workerVars, pcVars, ClockTypes
<1>7. CASE UNCHANGED allVars
  BY <1>0, <1>7 DEF allVars, vars, pcVars, clocks, ClockTypes
<1>. QED BY <1>1, <1>2, <1>3, <1>4, <1>5, <1>6, <1>7 DEF TimedNext, Step

LEMMA TimedInitInv == TimedInit => TimedInv
<1>. SUFFICES ASSUME TimedInit PROVE TimedInv
  OBVIOUS
<1>1. IInv
  BY InitInv DEF TimedInit
<1>2. Undisturbed
  BY DEF TimedInit, Init, Undisturbed
<1>3. phase # "await"
  BY DEF TimedInit, Init
<1>4. ClockTypes
  <2>1. 0 \in 0..IntervalMax /\ IntervalMax \in 0..IntervalMax
    BY CadenceBounds
  <2>2. /\ hbAge = 0 /\ hbDue = 0 /\ scanAge = 0 /\ dialAge = IntervalMax
        /\ moves = 0 /\ unserved = 0 /\ ifKnown \in BOOLEAN
    BY DEF TimedInit, AgeCap
  <2>. QED BY <1>3, <2>1, <2>2 DEF ClockTypes
<1>. QED BY <1>1, <1>2, <1>4 DEF TimedInv

LEMMA TimedInvariance == TimedSpec => []TimedInv
<1>1. TimedInit => TimedInv
  BY TimedInitInv
<1>2. TimedInv /\ [TimedNext]_allVars => TimedInv'
  BY TimedWorkerInv, UndisturbedInv, ClocksInv DEF TimedInv
<1>. QED BY <1>1, <1>2, PTL DEF TimedSpec

-----------------------------------------------------------------------------
(* A console that is reachable is served in time *)

\* Each console says who it is: the worker takes one that does not for any other.
Introduced == \A w \in Wirings, a \in Addr : w[a] # Blank

\* Units until what happened `age' units ago is due again.
Left(age, due) == IF age < due THEN due - age ELSE 0
ScanLeft == Left(scanAge, interval)
BeatLeft == Left(hbAge, HeartbeatInterval)

Longer(x, y) == IF x < y THEN y ELSE x

\* The target is an address of the known console.
Aimed == target # NoAddr /\ device[target] = lastDev

\* At the end of the loop a unit of sleep comes first.
Asleep(n) == IF phase = "poll" THEN Longer(n, 1) ELSE n

\* One wait in vain and the scan that ends the search.
LastCalls == RecvTimeout + ScanWindow

\* The longest it can still take until the console is served, if nothing moves: while an
\* answer is awaited, while a link to something else is up, with the right address but
\* before its heartbeat, and in the search.
AwaitLeft ==
  IF Aimed THEN 0
  ELSE Longer(ScanLeft, IF ret = "discover" THEN 0 ELSE 1) + LastCalls
         + (IF ret \in {"discover", "poll"} THEN 0 ELSE RecvTimeout)
StrandedLeft == Longer(Asleep(BeatLeft) + 1, ScanLeft) + LastCalls
AimedLeft ==
  IF phase = "heartbeat" /\ BeatLeft = 0 THEN 0 ELSE Asleep(BeatLeft) + ScanWindow
SearchLeft ==
  IF phase = "scan" THEN ScanWindow
  ELSE IF phase = "heartbeat" THEN Longer(ScanLeft, 1) + LastCalls
  ELSE IF phase = "poll" THEN
    IF target # NoAddr /\ ScanLeft <= 1 THEN 1 + ScanWindow ELSE Longer(ScanLeft, 1) + LastCalls
  ELSE
    IF ScanLeft = 0 /\ (target # NoAddr \/ phase = "discover") THEN ScanWindow
    ELSE ScanLeft + LastCalls

Remaining ==
  IF phase = "await" THEN AwaitLeft
  ELSE IF connected THEN StrandedLeft
  ELSE IF Aimed THEN AimedLeft
  ELSE SearchLeft

\* The answer on its way is what the target would answer now.
Fresh == phase = "await" => rxbuf = IF device[target] = Silent THEN {} ELSE {device[target]}

\* The console has not waited, or it waits with time enough left.
OnTime ==
  \/ unserved = 0
  \/ /\ ConsolePresent /\ ~Served /\ Fresh
     /\ unserved + Remaining <= Patience

LEMMA LeftShrinks ==
  ASSUME NEW age \in 0..IntervalMax, NEW due \in 0..IntervalMax, NEW dt \in Nat
  PROVE  /\ Left(age, due) \in 0..due
         /\ Left(Later(age, dt), due) =
              IF Left(age, due) < dt THEN 0 ELSE Left(age, due) - dt
BY CadenceBounds DEF Left, Later, AgeCap

LEMMA LeftGrows ==
  ASSUME NEW age \in 0..IntervalMax, NEW d1 \in 0..IntervalMax, NEW d2 \in 0..IntervalMax,
         d1 <= d2
  PROVE  Left(age, d1) <= Left(age, d2)
BY CadenceBounds DEF Left

LEMMA TimedTypes ==
  ASSUME TimedInv
  PROVE  /\ interval \in IntervalMin..IntervalMax
         /\ hbAge \in 0..IntervalMax /\ scanAge \in 0..IntervalMax /\ unserved \in Nat
         /\ target \in Addr \cup {NoAddr} /\ connected \in BOOLEAN
         /\ ret \in {"drain", "discover", "heartbeat", "poll"}
BY DEF TimedInv, IInv, TypeOK, LoopTypes, LinkTypes, HuntTypes, ClockTypes

LEMMA LeftTypes ==
  ASSUME TimedInv
  PROVE  /\ ScanLeft \in 0..IntervalMax /\ BeatLeft \in 0..IntervalMax
         /\ connected => BeatLeft <= HeartbeatEvery
<1>1. interval \in 0..IntervalMax
  BY TimedTypes, CadenceBounds
<1>2. ScanLeft \in 0..interval /\ BeatLeft \in 0..HeartbeatInterval
  BY <1>1, TimedTypes, HeartbeatIntervalType, LeftShrinks DEF ScanLeft, BeatLeft
<1>. QED BY <1>1, <1>2, HeartbeatIntervalType, CadenceBounds

LEMMA PatienceType == Patience \in Nat /\ Patience' = Patience
BY CadenceBounds DEF Patience

LEMMA RemainingType == TimedInv => Remaining \in Nat
<1>. SUFFICES ASSUME TimedInv PROVE Remaining \in Nat
  OBVIOUS
<1>1. /\ ScanLeft \in Nat /\ BeatLeft \in Nat
      /\ RecvTimeout \in Nat /\ ScanWindow \in Nat /\ LastCalls \in Nat
  BY LeftTypes, CadenceBounds DEF LastCalls
<1>2. AwaitLeft \in Nat
  BY <1>1 DEF AwaitLeft, Longer
<1>3. Asleep(BeatLeft) \in Nat
  BY <1>1 DEF Asleep, Longer
<1>4. StrandedLeft \in Nat /\ AimedLeft \in Nat
  BY <1>1, <1>3 DEF StrandedLeft, AimedLeft, Longer
<1>5. SearchLeft \in Nat
  BY <1>1 DEF SearchLeft, Longer
<1>. QED BY <1>2, <1>4, <1>5 DEF Remaining

\* Outside a wait there never is more than Patience left, and once the console has
\* waited there is no more left than it may still wait.
LEMMA Budget ==
  ASSUME TimedInv, OnTime, phase # "await"
  PROVE  unserved + Remaining <= Patience
<1>1. unserved \in Nat
  BY TimedTypes
<1>2. Remaining <= Patience
  BY LeftTypes, CadenceBounds
     DEF Remaining, StrandedLeft, AimedLeft, SearchLeft, Asleep, Longer, LastCalls, Patience
<1>. QED BY <1>1, <1>2, RemainingType, PatienceType DEF OnTime

\* A link that is up and waited for leads elsewhere.
LEMMA StrandedNotAimed == ASSUME ~Served, connected, target # NoAddr PROVE ~Aimed
BY DEF Served, Aimed

\* The known console is the one of some address that answers.
LEMMA KnownAnswers ==
  ASSUME TimedInv PROVE lastDev \in Answers /\ lastDev # Silent
BY ConstantsAssumption DEF TimedInv, IInv, TypeOK, WorldTypes

-----------------------------------------------------------------------------
(* The steps that take no time *)

\* What a step keeps that leaves the clocks, the link and the network alone.
LEMMA Unmoved ==
  ASSUME UNCHANGED <<target, device, lastDev, connected, attempts, interval, scanAge, hbAge>>
  PROVE  /\ ScanLeft' = ScanLeft /\ BeatLeft' = BeatLeft
         /\ Aimed' <=> Aimed
         /\ ConsolePresent' <=> ConsolePresent
         /\ Served' <=> Served
BY DEF ScanLeft, BeatLeft, HeartbeatInterval, Aimed, ConsolePresent, Served

LEMMA NoMoreLeft ==
  ASSUME NEW u \in Nat, NEW left \in Nat, NEW left2 \in Nat, NEW all \in Nat,
         u + left <= all, left2 <= left
  PROVE  u + left2 <= all
OBVIOUS

\* It is on time if no more is left than before.
LEMMA StillOnTime ==
  ASSUME TimedInv, TimedInv', OnTime,
         UNCHANGED <<target, device, lastDev, connected>>, unserved' = unserved,
         unserved # 0 => Fresh' /\ Remaining' <= Remaining
  PROVE  OnTime'
<1>1. (ConsolePresent' <=> ConsolePresent) /\ (Served' <=> Served)
  BY DEF ConsolePresent, Served
<1>2. unserved \in Nat /\ Remaining \in Nat /\ Patience \in Nat /\ Patience' = Patience
  BY TimedTypes, RemainingType, PatienceType
<1>3. (Remaining \in Nat)'
  BY RemainingType, PTL
<1>4. CASE unserved = 0
  BY <1>4 DEF OnTime
<1>5. CASE unserved # 0
  <2>1. unserved + Remaining <= Patience /\ Remaining' <= Remaining
    BY <1>5 DEF OnTime
  <2>4. Remaining' \in Nat
    BY <1>3
  <2>5. unserved + Remaining' <= Patience
    BY <2>1, <1>2, <2>4, NoMoreLeft
  <2>2. unserved' + Remaining' <= Patience'
    BY <2>5, <1>2
  <2>3. ConsolePresent' /\ ~Served' /\ Fresh'
    BY <1>1, <1>5 DEF OnTime
  <2>. QED BY <2>2, <2>3 DEF OnTime
<1>. QED BY <1>4, <1>5

LEMMA IdleOnTime ==
  ASSUME TimedInv, TimedInv', OnTime,
         TimedDrain \/ TimedSkipAutoConnect \/ TimedSkipScan \/ TimedSkipHeartbeat
  PROVE  OnTime'
<1>1. UNCHANGED <<target, device, lastDev, connected, attempts, interval, scanAge, hbAge, unserved>>
  BY DEF TimedDrain, DrainDone, TimedSkipAutoConnect, SkipAutoConnect,
     TimedSkipScan, SkipScan, TimedSkipHeartbeat, SkipHeartbeat,
     clocks, dialVars, envVars, sockVars, failVars, huntVars
<1>2. auto /\ ~userDisc
  BY DEF TimedInv, Undisturbed
<1>3. phase' # "await"
  BY DEF TimedDrain, DrainDone, TimedSkipAutoConnect, SkipAutoConnect,
     TimedSkipScan, SkipScan, TimedSkipHeartbeat, SkipHeartbeat
<1>4. Remaining' <= Remaining
  <2>1. CASE TimedDrain
    <3>1. phase = "drain" /\ phase' = "auto"
      BY <2>1 DEF TimedDrain, DrainDone
    <3>. QED
      BY <1>1, <3>1, Unmoved, LeftTypes, CadenceBounds
         DEF Remaining, StrandedLeft, AimedLeft, SearchLeft, Asleep, Longer, LastCalls
  <2>2. CASE TimedSkipAutoConnect
    <3>1. phase = "auto" /\ phase' = "discover"
      BY <2>2 DEF TimedSkipAutoConnect, SkipAutoConnect
    <3>. QED
      BY <1>1, <3>1, Unmoved, LeftTypes, CadenceBounds
         DEF Remaining, StrandedLeft, AimedLeft, SearchLeft, Asleep, Longer, LastCalls
  <2>3. CASE TimedSkipScan
    <3>1. phase = "discover" /\ phase' = "heartbeat" /\ (connected \/ ~ScanDue)
      BY <1>2, <2>3 DEF TimedSkipScan, SkipScan, MayDiscover
    <3>2. connected \/ ScanLeft > 0
      BY <3>1, TimedTypes, CadenceBounds DEF ScanDue, ScanLeft, Left
    <3>. QED
      BY <1>1, <3>1, <3>2, Unmoved, LeftTypes, CadenceBounds
         DEF Remaining, StrandedLeft, AimedLeft, SearchLeft, Asleep, Longer, LastCalls
  <2>4. CASE TimedSkipHeartbeat
    <3>1. phase = "heartbeat" /\ phase' = "poll" /\ (target = NoAddr \/ hbAge < HeartbeatInterval)
      BY <1>2, <2>4 DEF TimedSkipHeartbeat, SkipHeartbeat, MayHeartbeat
    <3>2. target = NoAddr \/ BeatLeft > 0
      BY <3>1, TimedTypes, HeartbeatIntervalType DEF BeatLeft, Left
    <3>3. target = NoAddr => ~connected /\ ~Aimed
      BY DEF TimedInv, IInv, LinkInv, ConnectedHasLink, Aimed
    <3>. QED
      BY <1>1, <3>1, <3>2, <3>3, Unmoved, LeftTypes, CadenceBounds
         DEF Remaining, StrandedLeft, AimedLeft, SearchLeft, Asleep, Longer, LastCalls
  <2>. QED BY <2>1, <2>2, <2>3, <2>4
<1>. QED BY <1>1, <1>3, <1>4, StillOnTime DEF Fresh

LEMMA HeartbeatOnTime ==
  ASSUME TimedInv, TimedInv', OnTime, TimedHeartbeat
  PROVE  OnTime'
<1>1. /\ phase = "heartbeat" /\ target # NoAddr /\ phase' = "await" /\ ret' = "poll"
      /\ rxbuf' = IF device[target] = Silent THEN {} ELSE {device[target]}
      /\ UNCHANGED <<target, device, lastDev, connected, attempts, interval, scanAge, hbAge, unserved>>
  BY SettledHeartbeat DEF TimedHeartbeat, dialVars, envVars, failVars, huntVars
<1>2. Fresh'
  BY <1>1 DEF Fresh
<1>3. BeatLeft = 0
  BY TimedTypes, HeartbeatIntervalType DEF TimedHeartbeat, BeatLeft, Left
<1>4. unserved # 0 => Remaining' <= Remaining
  <2>1. unserved # 0 /\ connected => ~Aimed
    BY <1>1, StrandedNotAimed DEF OnTime
  <2>. QED
    BY <1>1, <1>3, <2>1, Unmoved, LeftTypes, CadenceBounds
       DEF Remaining, AwaitLeft, StrandedLeft, AimedLeft, SearchLeft, Asleep, Longer, LastCalls
<1>. QED BY <1>1, <1>2, <1>4, StillOnTime


-----------------------------------------------------------------------------
(* The steps that take time *)

LEMMA AsMuchLess ==
  ASSUME NEW u \in Nat, NEW u2 \in Nat, NEW left \in Nat, NEW left2 \in Nat,
         NEW all \in Nat, NEW dt \in Nat,
         u2 <= u + dt, u + left <= all, left2 + dt <= left
  PROVE  u2 + left2 <= all
OBVIOUS

\* It is on time if no less time is saved than passes.
LEMMA ElapsedOnTime ==
  ASSUME TimedInv, TimedInv', NEW dt \in Nat, Wait(dt),
         unserved' # 0 => /\ unserved + Remaining <= Patience
                          /\ Fresh' /\ Remaining' + dt <= Remaining
  PROVE  OnTime'
<1>1. /\ unserved' \in 0..(unserved + dt)
      /\ unserved' # 0 => ConsolePresent' /\ ~Served'
  BY Waited DEF TimedInv
<1>2. unserved \in Nat /\ Remaining \in Nat /\ Patience \in Nat /\ Patience' = Patience
  BY TimedTypes, RemainingType, PatienceType
<1>3. (Remaining \in Nat)'
  BY RemainingType, PTL
<1>4. Remaining' \in Nat /\ unserved' \in Nat /\ unserved' <= unserved + dt
  BY <1>1, <1>2, <1>3
<1>5. CASE unserved' = 0
  BY <1>5 DEF OnTime
<1>6. CASE unserved' # 0
  <2>1. unserved + Remaining <= Patience /\ Remaining' + dt <= Remaining
    BY <1>6
  <2>2. unserved' + Remaining' <= Patience
    BY <2>1, <1>2, <1>4, AsMuchLess
  <2>3. unserved' + Remaining' <= Patience'
    BY <2>2, <1>2
  <2>. QED BY <1>1, <1>6, <2>3 DEF OnTime
<1>. QED BY <1>5, <1>6

\* What is left of a timer after dt units.
LEMMA LessLeft ==
  ASSUME TimedInv, NEW dt \in Nat
  PROVE  /\ scanAge' = Later(scanAge, dt) /\ interval' = interval =>
              ScanLeft' = IF ScanLeft < dt THEN 0 ELSE ScanLeft - dt
         /\ hbAge' = Later(hbAge, dt) /\ connected' = connected /\ attempts' = attempts =>
              BeatLeft' = IF BeatLeft < dt THEN 0 ELSE BeatLeft - dt
<1>1. interval \in 0..IntervalMax
  BY TimedTypes, CadenceBounds
<1>2. ASSUME scanAge' = Later(scanAge, dt) /\ interval' = interval
      PROVE  ScanLeft' = IF ScanLeft < dt THEN 0 ELSE ScanLeft - dt
  <2>1. ScanLeft' = Left(Later(scanAge, dt), interval)
    BY <1>2 DEF ScanLeft
  <2>. QED BY <1>1, <2>1, TimedTypes, LeftShrinks DEF ScanLeft
<1>3. ASSUME hbAge' = Later(hbAge, dt), connected' = connected, attempts' = attempts
      PROVE  BeatLeft' = IF BeatLeft < dt THEN 0 ELSE BeatLeft - dt
  <2>1. BeatLeft' = Left(Later(hbAge, dt), HeartbeatInterval)
    BY <1>3 DEF BeatLeft, HeartbeatInterval
  <2>. QED BY <2>1, TimedTypes, HeartbeatIntervalType, LeftShrinks DEF BeatLeft
<1>. QED BY <1>2, <1>3

LEMMA NothingLess ==
  ASSUME TimedInv
  PROVE  /\ scanAge' = Later(scanAge, 0) /\ interval' = interval => ScanLeft' = ScanLeft
         /\ hbAge' = Later(hbAge, 0) /\ connected' = connected /\ attempts' = attempts =>
              BeatLeft' = BeatLeft
<1>1. ScanLeft \in Nat /\ BeatLeft \in Nat
  BY LeftTypes, CadenceBounds
<1>2. 0 \in Nat
  OBVIOUS
<1>. QED BY <1>1, <1>2, LessLeft

LEMMA StartScanOnTime ==
  ASSUME TimedInv, TimedInv', OnTime, TimedStartScan
  PROVE  OnTime'
<1>1. /\ phase = "discover" /\ phase' = "scan" /\ ~connected
      /\ hbAge' = Later(hbAge, 0) /\ Wait(0)
      /\ UNCHANGED <<target, device, lastDev, connected, attempts>>
  BY DEF TimedStartScan, StartScan, MayDiscover, Pass, dialVars, envVars, sockVars, failVars
<1>2. BeatLeft' = BeatLeft /\ (Aimed' <=> Aimed)
  BY <1>1, NothingLess DEF Aimed
<1>3. Remaining' <= Remaining
  BY <1>1, <1>2, LeftTypes, CadenceBounds
     DEF Remaining, AimedLeft, SearchLeft, Asleep, Longer, LastCalls
<1>4. Fresh'
  BY <1>1 DEF Fresh
<1>5. unserved + Remaining <= Patience
  BY <1>1, Budget
<1>6. (Remaining \in Nat)'
  BY RemainingType, PTL
<1>7. Remaining' + 0 <= Remaining
  BY <1>3, <1>6
<1>. QED BY <1>1, <1>4, <1>5, <1>7, ElapsedOnTime

LEMMA AutoConnectOnTime ==
  ASSUME TimedInv, TimedInv', OnTime, TimedAutoConnect
  PROVE  OnTime'
<1>1. /\ phase = "auto" /\ target = NoAddr /\ phase' = "await" /\ ret' = "discover"
      /\ target' = targetIp
      /\ rxbuf' = IF device[targetIp] = Silent THEN {} ELSE {device[targetIp]}
      /\ UNCHANGED <<huntVars, envVars>>
  BY SettledAutoConnect DEF TimedAutoConnect
<1>2. Wait(0) /\ scanAge' = Later(scanAge, 0)
  BY DEF TimedAutoConnect, Pass, Redialled
<1>3. ScanLeft' = ScanLeft
  BY <1>1, <1>2, NothingLess DEF huntVars
<1>4. Fresh'
  BY <1>1 DEF Fresh, envVars
<1>5. ~connected /\ ~Aimed
  BY <1>1 DEF TimedInv, IInv, LinkInv, ConnectedHasLink, Aimed
<1>6. Remaining = ScanLeft + LastCalls
  BY <1>1, <1>5 DEF Remaining, SearchLeft
<1>7. Remaining' <= Remaining
  BY <1>1, <1>3, <1>6, LeftTypes, CadenceBounds DEF Remaining, AwaitLeft, Longer, LastCalls
<1>8. unserved + Remaining <= Patience
  BY <1>1, Budget
<1>9. (Remaining \in Nat)'
  BY RemainingType, PTL
<1>10. Remaining' + 0 <= Remaining
  BY <1>7, <1>9
<1>. QED BY <1>2, <1>4, <1>8, <1>10, ElapsedOnTime

LEMMA SleepOnTime ==
  ASSUME TimedInv, TimedInv', OnTime, TimedSleep
  PROVE  OnTime'
<1>1. /\ phase = "poll" /\ phase' = "drain"
      /\ UNCHANGED <<target, device, lastDev, connected, attempts, interval>>
  BY SettledPoll DEF TimedSleep, dialVars, envVars, failVars, huntVars
<1>2. Wait(1) /\ hbAge' = Later(hbAge, 1) /\ scanAge' = Later(scanAge, 1)
  BY DEF TimedSleep, Pass
<1>3. /\ ScanLeft' = IF ScanLeft < 1 THEN 0 ELSE ScanLeft - 1
      /\ BeatLeft' = IF BeatLeft < 1 THEN 0 ELSE BeatLeft - 1
      /\ (Aimed' <=> Aimed)
  BY <1>1, <1>2, LessLeft DEF Aimed
<1>4. Aimed => target # NoAddr
  BY DEF Aimed
<1>5. Remaining' + 1 <= Remaining
  BY <1>1, <1>3, <1>4, LeftTypes, CadenceBounds
     DEF Remaining, StrandedLeft, AimedLeft, SearchLeft, Asleep, Longer, LastCalls
<1>6. Fresh'
  BY <1>1 DEF Fresh
<1>7. unserved + Remaining <= Patience
  BY <1>1, Budget
<1>. QED BY <1>2, <1>5, <1>6, <1>7, ElapsedOnTime

\* The scan finds the console that is there: nothing is lost.
LEMMA ScanFinds ==
  ASSUME TimedInv, ScanFruitless
  PROVE  ~ConsolePresent /\ UNCHANGED <<device, lastDev>>
<1>1. Candidates(Present) = {} /\ UNCHANGED <<device, lastDev>>
  BY DEF ScanFruitless, ScanResults, TimedInv, Undisturbed, envVars
<1>2. ASSUME NEW a \in Addr, device[a] = lastDev PROVE FALSE
  <2>1. a \in Present
    BY <1>2, KnownAnswers DEF Present
  <2>2. a \in Candidates(Present)
    BY <1>2, <2>1 DEF Candidates, TimedInv, Undisturbed
  <2>. QED BY <1>1, <2>2
<1>. QED BY <1>1, <1>2 DEF ConsolePresent

LEMMA ScanAims ==
  ASSUME TimedInv, NEW a \in Addr, ScanHit(a)
  PROVE  device[a] = lastDev
BY DEF ScanHit, Candidates, TimedInv, Undisturbed

LEMMA ScanEndOnTime ==
  ASSUME TimedInv, TimedInv', OnTime, TimedScanEnd
  PROVE  OnTime'
<1>0. ScanWindow \in Nat /\ RecvTimeout \in Nat
  BY CadenceBounds
<1>1. Wait(ScanWindow) /\ hbAge' = IF target' # target THEN 0 ELSE Later(hbAge, ScanWindow)
  BY DEF TimedScanEnd, Pass, Redialled
<1>2. phase = "scan" /\ ~connected
  BY DEF TimedScanEnd, ScanFruitless, ScanHit, TimedInv, IInv, LinkInv, ScanOnlyWhenLost
<1>3. unserved + Remaining <= Patience
  BY <1>2, Budget
<1>4. CASE ScanFruitless
  <2>1. ~ConsolePresent'
    BY <1>4, ScanFinds DEF ConsolePresent
  <2>2. unserved' = 0
    BY <1>0, <1>1, <2>1, Waited DEF TimedInv
  <2>. QED BY <2>2 DEF OnTime
<1>5. ASSUME NEW a \in Addr, ScanHit(a) PROVE OnTime'
  <2>1. device[a] = lastDev /\ UNCHANGED <<device, lastDev>> /\ settled
    BY <1>5, ScanAims DEF ScanHit, envVars, TimedInv, Undisturbed
  <2>2. a # NoAddr
    BY ConstantsAssumption
  <2>3. CASE target = a
    <3>1. /\ phase' = "heartbeat" /\ ~connected'
          /\ UNCHANGED <<target, connected, attempts>>
      BY <1>2, <1>5, <2>3 DEF ScanHit, sockVars, dialVars
    <3>2. Aimed /\ Aimed'
      BY <2>1, <2>2, <2>3, <3>1 DEF Aimed
    <3>3. BeatLeft' = IF BeatLeft < ScanWindow THEN 0 ELSE BeatLeft - ScanWindow
      BY <1>0, <1>1, <3>1, LessLeft
    <3>4. Remaining = BeatLeft + ScanWindow
      BY <1>2, <3>2 DEF Remaining, AimedLeft, Asleep
    <3>5. Remaining' = IF BeatLeft' = 0 THEN 0 ELSE BeatLeft' + ScanWindow
      BY <3>1, <3>2 DEF Remaining, AimedLeft, Asleep
    <3>6. Remaining' + ScanWindow <= Remaining
      BY <1>0, <3>3, <3>4, <3>5, LeftTypes
    <3>7. Fresh'
      BY <3>1 DEF Fresh
    <3>. QED BY <1>0, <1>1, <1>3, <3>6, <3>7, ElapsedOnTime
  <2>4. CASE target # a
    <3>1. Dial(a, "heartbeat")
      BY <1>5, <2>4 DEF ScanHit
    <3>2. /\ phase' = "await" /\ target' = a
          /\ rxbuf' = IF device[a] = Silent THEN {} ELSE {device[a]}
      BY <2>1, <3>1, SettledDial
    <3>3. Aimed' /\ Fresh'
      BY <2>1, <2>2, <3>2 DEF Aimed, Fresh
    <3>4. Remaining' = 0
      BY <3>2, <3>3 DEF Remaining, AwaitLeft
    <3>5. ScanWindow <= Remaining
      BY <1>0, <1>2, LeftTypes DEF Remaining, AimedLeft, SearchLeft, Asleep
    <3>6. Remaining' + ScanWindow <= Remaining
      BY <1>0, <3>4, <3>5
    <3>. QED BY <1>0, <1>1, <1>3, <3>3, <3>6, ElapsedOnTime
  <2>. QED BY <2>3, <2>4
<1>. QED BY <1>4, <1>5 DEF TimedScanEnd

-----------------------------------------------------------------------------
(* The answer, or the end of the wait for it *)

\* A search that is speeded up has no more left of its interval.
LEMMA NoSlower ==
  ASSUME TimedInv, NEW dt \in Nat, scanAge' = Later(scanAge, dt),
         interval' \in {interval, IntervalMin}
  PROVE  /\ ScanLeft' \in Nat
         /\ ScanLeft' <= IF ScanLeft < dt THEN 0 ELSE ScanLeft - dt
<1>. DEFINE age == Later(scanAge, dt)
<1>1. /\ interval \in 0..IntervalMax /\ interval' \in 0..IntervalMax /\ interval' <= interval
      /\ scanAge \in 0..IntervalMax
  BY TimedTypes, CadenceBounds
<1>2. age \in 0..IntervalMax
  BY <1>1, LaterType
<1>3. ScanLeft' = Left(age, interval')
  BY DEF ScanLeft
<1>4. Left(age, interval) = IF ScanLeft < dt THEN 0 ELSE ScanLeft - dt
  BY <1>1, LeftShrinks DEF ScanLeft
<1>. HIDE DEF age
<1>5. Left(age, interval') <= Left(age, interval) /\ Left(age, interval') \in Nat
  BY <1>1, <1>2, LeftGrows, LeftShrinks
<1>. QED BY <1>3, <1>4, <1>5

\* The target that is asked is an address, and someone or nobody is there.
LEMMA AskedIsThere ==
  ASSUME TimedInv, phase = "await"
  PROVE  /\ target \in Addr /\ target # NoAddr
         /\ device[target] \in Answers \cup {Silent}
         /\ Introduced => device[target] # Blank
<1>1. target \in Addr /\ target # NoAddr
  BY TimedTypes DEF TimedInv, IInv, LinkInv, AwaitHasTarget
<1>2. device \in Wirings /\ TypeOK
  BY DEF TimedInv, IInv, TypeOK, WorldTypes
<1>. QED BY <1>1, <1>2, DeviceType DEF Introduced

LEMMA AcceptOnTime ==
  ASSUME TimedInv, TimedInv', OnTime, Introduced,
         NEW d \in Answers, Accept(d), Wait(0)
  PROVE  OnTime'
<1>1. /\ phase = "await" /\ d \in rxbuf /\ connected'
      /\ lastDev' = IF d = Blank THEN lastDev ELSE d
      /\ UNCHANGED <<target, device>>
  BY DEF Accept, Identified, dialVars, envVars
<1>2. unserved' # 0 => unserved # 0 /\ ~Served'
  BY TimedTypes, Waited DEF TimedInv
<1>3. ASSUME unserved # 0 PROVE Served'
  <2>1. d = device[target] /\ d # Blank
    BY <1>1, <1>3, AskedIsThere DEF OnTime, Fresh
  <2>. QED BY <1>1, <2>1 DEF Served
<1>. QED BY <1>2, <1>3 DEF OnTime

\* After a rejection the search takes no longer than what was promised before it.
LEMMA TurnedAway ==
  ASSUME NEW s \in Nat, NEW s2 \in Nat, NEW t \in Nat, NEW w \in Nat, s2 <= s,
         NEW back \in {"drain", "discover", "heartbeat", "poll"}
  PROVE  (IF back = "drain" THEN s2 + (t + w)
          ELSE IF back = "discover" THEN IF s2 = 0 THEN w ELSE s2 + (t + w)
               ELSE Longer(s2, 1) + (t + w))
           <= Longer(s, IF back = "discover" THEN 0 ELSE 1) + (t + w)
                + (IF back \in {"discover", "poll"} THEN 0 ELSE t)
BY DEF Longer

LEMMA RejectOnTime ==
  ASSUME TimedInv, TimedInv', OnTime, NEW d \in Answers, Reject(d),
         Wait(0), scanAge' = Later(scanAge, 0)
  PROVE  OnTime'
<1>1. /\ phase = "await" /\ d \in rxbuf /\ d # lastDev
      /\ target' = NoAddr /\ ~connected' /\ phase' = ret
      /\ interval' \in {interval, IntervalMin}
  BY DEF Reject, WrongDevice, RequestRetarget
<1>2. unserved' # 0 => unserved # 0
  BY TimedTypes, Waited DEF TimedInv
<1>3. ASSUME unserved # 0 PROVE Remaining' <= Remaining
  <2>1. d = device[target]
    BY <1>1, <1>3 DEF OnTime, Fresh
  <2>2. ~Aimed /\ ~Aimed'
    BY <1>1, <2>1 DEF Aimed
  <2>3. ScanLeft' \in Nat /\ ScanLeft' <= ScanLeft
    BY <1>1, NoSlower, LeftTypes
  <2>4. LastCalls = RecvTimeout + ScanWindow /\ LastCalls' = LastCalls
    BY DEF LastCalls
  <2>5. Remaining = Longer(ScanLeft, IF ret = "discover" THEN 0 ELSE 1)
                      + (RecvTimeout + ScanWindow)
                      + (IF ret \in {"discover", "poll"} THEN 0 ELSE RecvTimeout)
    BY <1>1, <2>2, <2>4 DEF Remaining, AwaitLeft
  <2>6. Remaining' = IF ret = "drain" THEN ScanLeft' + (RecvTimeout + ScanWindow)
                     ELSE IF ret = "discover"
                          THEN IF ScanLeft' = 0 THEN ScanWindow
                               ELSE ScanLeft' + (RecvTimeout + ScanWindow)
                          ELSE Longer(ScanLeft', 1) + (RecvTimeout + ScanWindow)
    BY <1>1, <2>2, <2>4, TimedTypes DEF Remaining, SearchLeft
  <2>7. /\ ScanLeft \in Nat /\ RecvTimeout \in Nat /\ ScanWindow \in Nat
        /\ ret \in {"drain", "discover", "heartbeat", "poll"}
    BY TimedTypes, LeftTypes, CadenceBounds
  <2>. QED BY <2>3, <2>5, <2>6, <2>7, TurnedAway
<1>4. Fresh'
  BY <1>1, TimedTypes DEF Fresh
<1>5. (Remaining \in Nat)'
  BY RemainingType, PTL
<1>6. unserved' # 0 => Remaining' + 0 <= Remaining /\ unserved + Remaining <= Patience
  BY <1>2, <1>3, <1>5 DEF OnTime
<1>. QED BY <1>4, <1>6, ElapsedOnTime

LEMMA WholeWait ==
  ASSUME NEW u \in Nat, NEW left \in Nat, NEW max \in Nat, NEW t \in Nat, NEW w \in Nat,
         u <= t, left <= max + w
  PROVE  u + left <= max + t + w
OBVIOUS

LEMMA NoReplyOnTime ==
  ASSUME TimedInv, TimedInv', OnTime, NoAnswer, rxbuf = {},
         Wait(RecvTimeout), scanAge' = Later(scanAge, RecvTimeout)
  PROVE  OnTime'
<1>0. RecvTimeout \in Nat /\ 0 \in Nat
  BY CadenceBounds
<1>1. /\ phase = "await" /\ phase' = ret /\ ~connected'
      /\ UNCHANGED <<target, device, lastDev>>
      /\ interval' \in {interval, IntervalMin}
  BY DEF NoAnswer, RequestRetarget, huntVars, dialVars, envVars
<1>2. target # NoAddr /\ (Aimed' <=> Aimed)
  BY <1>1, AskedIsThere DEF Aimed
<1>3. /\ ScanLeft' \in Nat
      /\ ScanLeft' <= IF ScanLeft < RecvTimeout THEN 0 ELSE ScanLeft - RecvTimeout
  BY <1>0, <1>1, NoSlower
<1>4. (/\ ScanLeft \in 0..IntervalMax /\ BeatLeft \in 0..IntervalMax
       /\ connected => BeatLeft <= HeartbeatEvery)'
  BY LeftTypes, PTL
<1>5. Fresh'
  BY <1>1, TimedTypes DEF Fresh
<1>6. CASE unserved # 0
  <2>1. unserved + Remaining <= Patience /\ ~Aimed
    BY <1>1, <1>6, KnownAnswers DEF OnTime, Fresh, Aimed
  <2>2. Remaining' + RecvTimeout <= Remaining
    BY <1>1, <1>2, <1>3, <2>1, TimedTypes, LeftTypes, CadenceBounds
       DEF Remaining, AwaitLeft, SearchLeft, Longer, LastCalls
  <2>. QED BY <1>0, <1>5, <2>1, <2>2, ElapsedOnTime
<1>7. CASE unserved = 0
  <2>1. /\ unserved' \in 0..RecvTimeout
        /\ unserved' # 0 => ConsolePresent' /\ ~Served'
    BY <1>0, <1>7, Waited DEF TimedInv
  <2>2. Remaining' <= IntervalMax + ScanWindow
    BY <1>1, <1>2, <1>3, <1>4, TimedTypes, LeftTypes, CadenceBounds
       DEF Remaining, AimedLeft, SearchLeft, Asleep, Longer, LastCalls
  <2>3. (Remaining \in Nat)'
    BY RemainingType, PTL
  <2>4. unserved' + Remaining' <= Patience'
    <3>1. unserved' \in Nat /\ unserved' <= RecvTimeout /\ Remaining' \in Nat
      BY <1>0, <2>1, <2>3
    <3>2. IntervalMax \in Nat /\ ScanWindow \in Nat
      BY CadenceBounds
    <3>3. unserved' + Remaining' <= IntervalMax + RecvTimeout + ScanWindow
      BY <1>0, <2>2, <3>1, <3>2, WholeWait
    <3>. QED BY <3>3 DEF Patience
  <2>. QED BY <1>5, <2>1, <2>4 DEF OnTime
<1>. QED BY <1>6, <1>7

LEMMA AnswerOnTime ==
  ASSUME TimedInv, TimedInv', OnTime, Introduced, TimedAnswer
  PROVE  OnTime'
<1>. DEFINE dt == IF rxbuf = {} THEN RecvTimeout ELSE 0
<1>1. /\ (\E d \in Answers : Accept(d) \/ Reject(d)) \/ NoAnswer
      /\ Wait(dt) /\ scanAge' = Later(scanAge, dt)
  BY DEF TimedAnswer
<1>2. CASE NoAnswer /\ rxbuf = {}
  BY <1>1, <1>2, NoReplyOnTime
<1>3. CASE NoAnswer /\ rxbuf # {}
  <2>1. Fx \in rxbuf /\ phase = "await"
    BY <1>3 DEF NoAnswer, TimedInv, Undisturbed
  <2>2. ~Fresh
    BY <2>1, AskedIsThere, ConstantsAssumption DEF Fresh
  <2>3. unserved = 0
    BY <2>2 DEF OnTime
  <2>4. Wait(0) /\ 0 \in Nat
    BY <1>1, <1>3
  <2>5. unserved' = 0
    BY <2>3, <2>4, Waited DEF TimedInv
  <2>. QED BY <2>5 DEF OnTime
<1>4. ASSUME NEW d \in Answers, Accept(d) PROVE OnTime'
  <2>1. rxbuf # {}
    BY <1>4 DEF Accept
  <2>. QED BY <1>1, <1>4, <2>1, AcceptOnTime
<1>5. ASSUME NEW d \in Answers, Reject(d) PROVE OnTime'
  <2>1. rxbuf # {}
    BY <1>5 DEF Reject
  <2>. QED BY <1>1, <1>5, <2>1, RejectOnTime
<1>. QED BY <1>1, <1>2, <1>3, <1>4, <1>5

-----------------------------------------------------------------------------
(* The bound on the recovery *)

LEMMA OnTimeNext ==
  TimedInv /\ TimedInv' /\ OnTime /\ Introduced /\ [TimedNext]_allVars => OnTime'
<1>. SUFFICES ASSUME TimedInv, TimedInv', OnTime, Introduced, [TimedNext]_allVars
              PROVE  OnTime'
  OBVIOUS
<1>1. CASE TimedDrain \/ TimedSkipAutoConnect \/ TimedSkipScan \/ TimedSkipHeartbeat
  BY <1>1, IdleOnTime
<1>2. CASE TimedAutoConnect
  BY <1>2, AutoConnectOnTime
<1>3. CASE TimedStartScan
  BY <1>3, StartScanOnTime
<1>4. CASE TimedScanEnd
  BY <1>4, ScanEndOnTime
<1>5. CASE TimedHeartbeat
  BY <1>5, HeartbeatOnTime
<1>6. CASE TimedAnswer
  BY <1>6, AnswerOnTime
<1>7. CASE TimedSleep
  BY <1>7, SleepOnTime
<1>8. CASE Move
  BY <1>8 DEF Move, OnTime
<1>9. CASE UNCHANGED allVars
  BY <1>9 DEF allVars, vars, pcVars, sockVars, huntVars, failVars, dialVars, envVars, clocks,
     OnTime, ConsolePresent, Served, Fresh, Remaining, AwaitLeft, StrandedLeft, AimedLeft,
     SearchLeft, Asleep, Longer, ScanLeft, BeatLeft, HeartbeatInterval, Aimed, LastCalls, Patience
<1>. QED
  BY <1>1, <1>2, <1>3, <1>4, <1>5, <1>6, <1>7, <1>8, <1>9 DEF TimedNext, Step

\* With the clocks running, and however the consoles change places, the loop, the link,
\* the search and the sockets hold what their types allow; the ages stay in their range,
\* and a heartbeat that is under way was due (TimedInv has ClockTypes).
THEOREM TimedTypeCorrect == TimedSpec => [](TypeOK /\ ClockTypes)
<1>1. TimedInv => TypeOK /\ ClockTypes
  BY DEF TimedInv, IInv
<1>. QED BY <1>1, TimedInvariance, PTL

\* Nor do the timers undo what the worker keeps when its timers are a free choice.
THEOREM TimedKeepsLink == TimedSpec => [](ConnectedHasLink /\ StatusTracksLink /\ FastSearchBounded)
<1>1. TimedInv => ConnectedHasLink /\ StatusTracksLink /\ FastSearchBounded
  BY DEF TimedInv, IInv, LinkInv
<1>. QED BY <1>1, TimedInvariance, PTL

\* Wherever the known console went, and whoever took its address, the worker serves it
\* within the longest discovery interval, one wait for an answer and one scan: for every
\* set of addresses and consoles, every number of moves and every value of the timers.
\* Every console says who it is: one that does not is taken for any other.
THEOREM RecoveryBound == ASSUME Introduced PROVE TimedSpec => []RecoveryIsBounded
<1>1. TimedInit => OnTime
  BY DEF TimedInit, OnTime
<1>2. TimedInv /\ TimedInv' /\ OnTime /\ [TimedNext]_allVars => OnTime'
  BY OnTimeNext
<1>3. TimedInv /\ OnTime => RecoveryIsBounded
  <2>. SUFFICES ASSUME TimedInv, OnTime PROVE RecoveryIsBounded
    OBVIOUS
  <2>1. unserved \in Nat /\ Remaining \in Nat /\ Patience \in Nat
    BY TimedTypes, RemainingType, PatienceType
  <2>. QED BY <2>1 DEF OnTime, RecoveryIsBounded
<1>. QED BY <1>1, <1>2, <1>3, TimedInvariance, PTL DEF TimedSpec

-----------------------------------------------------------------------------
(* The worker and the plugin together: the status channel and the auto_reconnect atom are *)
(* one, the verdict the plugin hears of is the worker's, and two of the triggers send the  *)
(* commands that connect and disconnect.  The session is not opened in a new instance:    *)
(* that one has a worker of its own.                                                      *)

VARIABLES autoParam, trig, isConn, session, active, pc, seen, left, prev, conn, lastConn, force,
          statusq, toMirror, pressed, news, lost

\* The triggers, by the command each sends; and the capacity of the status channel.
Presses == {"ConnectToLast", "Disconnect"}
StatusRoom == 64

Panel == INSTANCE HostPanel_proofs WITH
           Trigger <- Presses, StatusCap <- StatusRoom,
           auto <- autoParam, atom <- auto, link <- (told = "Connected")

panelVars == <<autoParam, trig, isConn, session, active, pc, seen, left, prev, conn, lastConn,
               force, statusq, toMirror, pressed, news, lost>>
pluginVars == <<vars, panelVars>>

\* A step of the worker passes its verdict on if it has a new one.
WorkerStep == Worker /\ (Panel!Verdict \/ UNCHANGED <<told, panelVars>>)

\* It says the same again, or something else.
WorkerTalks == UNCHANGED vars /\ (Panel!Verdict \/ Panel!Chatter)

\* The network, the device list and the address fields, and what else process() sends.
Elsewhere ==
  /\ \/ \E op \in Ops \ Presses : Request(Plain(op))
     \/ \E a \in Picks : SelectTarget(a)
     \/ \E a \in Typed : EditTarget(a)
     \/ Rewire \/ Settle
  /\ UNCHANGED panelVars

\* A trigger that fires sends its command, if the channel has room.
Fire(t) ==
  /\ \/ Panel!Fires(t) /\ t \in Ops /\ Request(Plain(t))
     \/ Panel!Fires(t) /\ Len(cmdq) >= CmdCap /\ UNCHANGED vars
     \/ ~Panel!Fires(t) /\ UNCHANGED vars
  /\ Panel!Look(t)

\* The rest of what the host, the editor and process() do changes no more of the worker's
\* state than the atom.
PanelStep ==
  /\ ToggleAuto \/ UNCHANGED vars
  /\ \/ Panel!Save \/ Panel!Restore \/ Panel!Initialize \/ Panel!Suspend
     \/ Panel!Buffer \/ Panel!Mirror \/ Panel!Drain \/ Panel!Publish \/ Panel!EndBuffer
     \/ \E t \in Presses : Panel!Reset(t) \/ Panel!Press(t)
     \/ Panel!Automate \/ Panel!Toggle \/ Panel!EditorMirror

PluginNext == WorkerStep \/ WorkerTalks \/ Elsewhere \/ (\E t \in Presses : Fire(t)) \/ PanelStep

Plugin == Init /\ Panel!Init /\ [][PluginNext]_pluginVars

\* The panel's constants are what it assumes of them.
LEMMA PanelConstants == StatusRoom \in Nat \ {0} /\ Presses \cap Panel!Stages = {}
BY DEF StatusRoom, Presses, Panel!Stages

\* The switch is the plugin's to move.
LEMMA WorkerKeepsAuto == ASSUME Worker PROVE UNCHANGED auto
<1>1. ASSUME NEW cmd \in Command, Connect(cmd) PROVE UNCHANGED auto
  BY <1>1 DEF Connect, Take
<1>2. CASE Disconnect \/ Send \/ AuditSlots
  BY <1>2 DEF Disconnect, Send, AuditSlots, Take
<1>3. CASE DrainDone \/ SkipAutoConnect \/ SkipScan \/ SkipHeartbeat \/ SkipPoll
  BY <1>3 DEF DrainDone, SkipAutoConnect, SkipScan, SkipHeartbeat, SkipPoll
<1>4. CASE AutoConnect \/ StartScan \/ ScanFruitless \/ Heartbeat \/ NoAnswer \/ Poll
  BY <1>4 DEF AutoConnect, StartScan, ScanFruitless, Heartbeat, NoAnswer, Poll
<1>5. ASSUME NEW a \in Addr, ScanHit(a) PROVE UNCHANGED auto
  BY <1>5 DEF ScanHit
<1>6. ASSUME NEW d \in Answers, Accept(d) \/ Reject(d) PROVE UNCHANGED auto
  BY <1>6 DEF Accept, Reject
<1> QED
  BY <1>1, <1>2, <1>3, <1>4, <1>5, <1>6 DEF Worker

LEMMA PanelFrame == UNCHANGED <<auto, told, panelVars>> => UNCHANGED Panel!vars
BY DEF panelVars, Panel!vars, Panel!paramVars, Panel!audioVars, Panel!linkVars

\* Each of the two sees a step of its own, or nothing.
LEMMA PluginSteps ==
  ASSUME [PluginNext]_pluginVars
  PROVE  [Next]_vars /\ [Panel!Next]_Panel!vars
<1>1. CASE WorkerStep
  <2>1. Next
    BY <1>1 DEF WorkerStep, Next
  <2>2. CASE Panel!Verdict
    BY <2>1, <2>2 DEF Panel!Next
  <2>3. CASE UNCHANGED <<told, panelVars>>
    BY <1>1, <2>1, <2>3, WorkerKeepsAuto, PanelFrame DEF WorkerStep
  <2> QED
    BY <1>1, <2>2, <2>3 DEF WorkerStep
<1>2. CASE WorkerTalks
  BY <1>2 DEF WorkerTalks, Panel!Next
<1>3. CASE Elsewhere
  <2>1. Environment
    BY <1>3 DEF Elsewhere, Environment
  <2>2. UNCHANGED <<auto, told, panelVars>>
    BY <1>3 DEF Elsewhere, Request, SelectTarget, EditTarget, Rewire, Settle, workerVars, sockVars
  <2> QED
    BY <2>1, <2>2, PanelFrame DEF Next
<1>4. ASSUME NEW t \in Presses, Fire(t) PROVE [Next]_vars /\ [Panel!Next]_Panel!vars
  <2>1. Panel!Next
    BY <1>4 DEF Fire, Panel!Next, Panel!Process
  <2>2. Next \/ UNCHANGED vars
    BY <1>4 DEF Fire, Next, Environment
  <2> QED
    BY <2>1, <2>2
<1>5. CASE PanelStep
  <2>1. Panel!Next
    BY <1>5 DEF PanelStep, Panel!Next, Panel!Process
  <2>2. Next \/ UNCHANGED vars
    BY <1>5 DEF PanelStep, Next, Environment
  <2> QED
    BY <2>1, <2>2
<1>6. CASE UNCHANGED pluginVars
  BY <1>6, PanelFrame DEF pluginVars, vars, sockVars
<1> QED
  BY <1>1, <1>2, <1>3, <1>4, <1>5, <1>6 DEF PluginNext

\* What is proved of the worker and of the panel holds of the two together.
THEOREM WorkerFeedsPanel == Plugin => Safety /\ Panel!Safety
BY PluginSteps, PTL DEF Plugin, Safety, Panel!Safety

\* Between two buffers, once only pulses are left in the channel and unless the channel was
\* too full for the last verdict: a connection the host is not shown is not there, and one
\* it is shown is there, or is being asked for, or was turned away as another console's;
\* never one that the user has closed.
ShownIsReal ==
  active /\ pc = "idle" /\ ~force /\ ~lost /\ Panel!Pulses(statusq, 1) =>
    /\ ~isConn => ~connected
    /\ isConn /\ ~connected => ~userDisc /\ (target = NoAddr \/ phase = "await")

\* From the socket to the host's read-out, however dials, scans, rejections, reports,
\* buffers, activations and restored sessions interleave.
THEOREM HostSeesTheLink == Plugin => []ShownIsReal
<1>1. IInv /\ Panel!VerdictShown => ShownIsReal
  BY DEF IInv, LinkInv, StatusTracksLink, Panel!VerdictShown, ShownIsReal
<1>2. Panel!Safety => []Panel!VerdictShown
  BY PanelConstants, Panel!VerdictsReachTheHost
<1> QED
  BY <1>1, <1>2, Invariance, WorkerFeedsPanel, PTL

\* Two commands that make the same channel of the one before are the same.
LEMMA LastIn ==
  ASSUME NEW q \in Seq(Command), NEW c \in Command, NEW d \in Command, Append(q, c) = Append(q, d)
  PROVE  c = d
<1>1. Append(q, c)[Len(q) + 1] = c /\ Append(q, d)[Len(q) + 1] = d
  OBVIOUS
<1> QED
  BY <1>1

\* A channel that has got longer is not the one it was, nor what the worker leaves of it.
LEMMA NotTheSame ==
  ASSUME NEW q \in Seq(Command), NEW c \in Command
  PROVE  q # Append(q, c) /\ (q # <<>> => Tail(q) # Append(q, c))
<1>1. Len(Append(q, c)) = Len(q) + 1 /\ Len(q) \in Nat
  OBVIOUS
<1>2. q # <<>> => Len(Tail(q)) = Len(q) - 1
  OBVIOUS
<1> QED
  BY <1>1, <1>2

\* The worker sends itself nothing.
LEMMA WorkerOnlyTakes ==
  ASSUME TypeOK, Worker, NEW c \in Command
  PROVE  cmdq' # Append(cmdq, c)
<1>0. cmdq \in Seq(Command)
  BY DEF TypeOK, WorldTypes
<1>1. UNCHANGED cmdq \/ (cmdq # <<>> /\ cmdq' = Tail(cmdq))
  <2>1. ASSUME NEW cmd \in Command, Connect(cmd) PROVE cmdq # <<>> /\ cmdq' = Tail(cmdq)
    BY <2>1 DEF Connect, Take
  <2>2. CASE Disconnect \/ Send \/ AuditSlots
    BY <2>2 DEF Disconnect, Send, AuditSlots, Take
  <2>3. CASE DrainDone \/ SkipAutoConnect \/ SkipScan \/ SkipHeartbeat \/ SkipPoll
    BY <2>3 DEF DrainDone, SkipAutoConnect, SkipScan, SkipHeartbeat, SkipPoll
  <2>4. CASE AutoConnect \/ StartScan \/ ScanFruitless \/ Heartbeat \/ NoAnswer \/ Poll
    BY <2>4 DEF AutoConnect, StartScan, ScanFruitless, Heartbeat, NoAnswer, Poll
  <2>5. ASSUME NEW a \in Addr, ScanHit(a) PROVE UNCHANGED cmdq
    BY <2>5 DEF ScanHit
  <2>6. ASSUME NEW d \in Answers, Accept(d) \/ Reject(d) PROVE UNCHANGED cmdq
    BY <2>6 DEF Accept, Reject
  <2> QED
    BY <2>1, <2>2, <2>3, <2>4, <2>5, <2>6 DEF Worker
<1> QED
  BY <1>0, <1>1, NotTheSame

\* A command to connect or to hang up comes from a trigger that was pressed since the last
\* activation, in an active plugin: none from one that the session held down, or that was
\* pressed while the plugin was suspended.
CommandsAreAsked ==
  [][\A t \in Presses \cap Ops :
       cmdq' = Append(cmdq, Plain(t)) => active /\ t \in pressed]_pluginVars

\* So what ends a user's Disconnect (OnlyUserResumes) is a press or the device list.
THEOREM OnlyPressesCommand == Plugin => CommandsAreAsked
<1> DEFINE Asked == \A t \in Presses \cap Ops :
                      cmdq' = Append(cmdq, Plain(t)) => active /\ t \in pressed
<1>1. ASSUME TypeOK, Panel!RestsSuspended, Panel!NothingUnasked, PluginNext
      PROVE  Asked
  <2> SUFFICES ASSUME NEW t \in Presses \cap Ops, cmdq' = Append(cmdq, Plain(t))
               PROVE  active /\ t \in pressed
    OBVIOUS
  <2>1. cmdq \in Seq(Command) /\ Plain(t) \in Command
    BY <1>1 DEF TypeOK, WorldTypes, Command
  <2>2. ~UNCHANGED cmdq
    BY <2>1, NotTheSame
  <2>3. ~WorkerStep
    BY <1>1, <2>1, WorkerOnlyTakes DEF WorkerStep
  <2>4. ~WorkerTalks /\ ~PanelStep
    BY <2>2 DEF WorkerTalks, PanelStep, ToggleAuto, vars
  <2>5. ~Elsewhere
    <3>1. ASSUME NEW op \in Ops \ Presses, Request(Plain(op)) PROVE FALSE
      <4>1. Plain(op) \in Command /\ cmdq' = Append(cmdq, Plain(op))
        BY <3>1 DEF Request, Command
      <4>2. Plain(op) = Plain(t)
        BY <2>1, <4>1, LastIn
      <4> QED
        BY <4>2 DEF Plain
    <3>2. ASSUME NEW a \in Picks, SelectTarget(a) PROVE FALSE
      <4>1. UpdateTarget(a) \in Command /\ cmdq' = Append(cmdq, UpdateTarget(a))
        BY <2>2, <3>2 DEF SelectTarget, Command
      <4>2. UpdateTarget(a) = Plain(t)
        BY <2>1, <4>1, LastIn
      <4> QED
        BY <4>2 DEF Plain, UpdateTarget, Presses
    <3> QED
      BY <2>2, <3>1, <3>2 DEF Elsewhere, EditTarget, Rewire, Settle
  <2>6. PICK u \in Presses : Fire(u)
    BY <1>1, <2>3, <2>4, <2>5 DEF PluginNext
  <2>7. Panel!Fires(u) /\ u \in Ops /\ cmdq' = Append(cmdq, Plain(u))
    BY <2>2, <2>6 DEF Fire, Request, vars
  <2>8. u = t
    <3>1. Plain(u) \in Command
      BY <2>7 DEF Command
    <3>2. Plain(u) = Plain(t)
      BY <2>1, <2>7, <3>1, LastIn
    <3> QED
      BY <3>2 DEF Plain
  <2>9. active
    BY <1>1, <2>6 DEF Fire, Panel!Look, Panel!RestsSuspended
  <2> QED
    BY <1>1, <2>7, <2>8, <2>9 DEF Panel!NothingUnasked
<1>2. IInv /\ Panel!IInv => TypeOK /\ Panel!RestsSuspended /\ Panel!NothingUnasked
  BY DEF IInv, Panel!IInv
<1>3. IInv /\ Panel!IInv /\ [PluginNext]_pluginVars => [Asked]_pluginVars
  BY <1>1, <1>2
<1>4. Panel!Safety => []Panel!IInv
  BY PanelConstants, Panel!Invariant
<1> QED
  BY <1>3, <1>4, Invariance, WorkerFeedsPanel, PTL DEF Plugin, CommandsAreAsked
=============================================================================
