---------------------------- MODULE NetworkWorker ----------------------------
(***************************************************************************)
(* The network worker of src/network.rs: one thread that owns the UDP      *)
(* socket, dials a mixing console, keeps a /info heartbeat going, and hunts *)
(* for a console whose address has moved.  The thread runs one loop;       *)
(* `phase' is the point of the loop it has reached, and the two blocking    *)
(* calls (waiting for an /info answer, listening out a scan window) are     *)
(* phases of their own, so that the user, the network and the editor can    *)
(* act while the worker is blocked.                                         *)
(*                                                                          *)
(* Time is abstract: a timer that may have expired is a nondeterministic    *)
(* choice.  Addresses, identities and packets are members of small sets.    *)
(***************************************************************************)
EXTENDS Naturals, Sequences, FiniteSets

CONSTANTS
  Addr,          \* socket addresses that parse
  Named,         \* identities (name, model) whose name is not empty
  Nameless,      \* identities with an empty name and a model
  Blank,         \* the identity ("", ""): nothing reported, or nothing persisted
  Fx,            \* an OSC packet that is not an /info message (an fx parameter)
  NoAddr,        \* no address: `target' is None, or the persisted ip is empty
  BadAddr,       \* a persisted ip the user typed that does not parse
  Silent,        \* nothing answers at this address
  CmdCap,        \* capacity of the command channel (64 in lib.rs)
  RescanAfter,   \* AUTO_RESCAN_FAILURES
  FastBudget,    \* RETARGET_FAST_PASSES
  IntervalMin,   \* DISCOVERY_INTERVAL_MIN
  IntervalMax,   \* DISCOVERY_INTERVAL_MAX
  AttemptsCap,   \* failures from which the capped backoff delay is constant
  LateCap,       \* packets that may be on their way to the socket at once
  Ops,           \* the commands without an address the plugin may send
  Picks,         \* the addresses the user may pick from the device list
  Typed,         \* what the user may type into the address fields
  AutoModes,     \* the values the auto_reconnect parameter may take
  Wirings        \* the networks there may be: who answers at each address

Ident == Named \cup Nameless

\* What an /info answer says of its sender; one with too few strings says nothing.
Answers == Ident \cup {Blank}

\* A datagram, as far as the worker decodes it.
Packet == Answers \cup {Fx}

ASSUME ConstantsAssumption ==
  /\ Named \cap Nameless = {} /\ Blank \notin Ident /\ Fx \notin Answers
  /\ NoAddr \notin Addr /\ BadAddr \notin Addr /\ NoAddr # BadAddr
  /\ Silent \notin Answers
  /\ CmdCap \in Nat \ {0} /\ RescanAfter \in Nat \ {0}
  /\ FastBudget \in Nat \ {0} /\ AttemptsCap \in Nat \ {0}
  /\ IntervalMin \in Nat \ {0} /\ IntervalMax \in Nat
  /\ IntervalMin < IntervalMax
  /\ LateCap \in Nat \ {0}
  /\ Ops \subseteq {"ConnectToLast", "Disconnect", "Send", "AuditSlots"}
  /\ Picks \subseteq Addr
  /\ AutoModes \subseteq BOOLEAN
  /\ Typed \subseteq Addr \cup {NoAddr, BadAddr}
  /\ Wirings \subseteq [Addr -> Answers \cup {Silent}]

VARIABLES
  phase,        \* where the loop of run() is
  ret,          \* the phase send_heartbeat() returns to
  sock,         \* self.socket is Some
  rxbuf,        \* packets that are on their way to that socket
  target,       \* self.target
  fromAuto,     \* self.target_from_auto
  userDisc,     \* self.user_disconnected
  connected,    \* self.connected
  hw,           \* hardware_float_out holds a read-back delay (is not 0.0)
  attempts,     \* self.backoff.attempts, up to AttemptsCap
  hbFails,      \* self.heartbeat_failures, up to RescanAfter
  retarget,     \* self.retarget_requested
  fastPasses,   \* self.retarget_fast_passes
  spent,        \* self.retarget_search_spent
  interval,     \* self.discovery_interval
  scanned,      \* self.last_discovery is Some
  targetIp,     \* the persisted target_ip / target_port
  lastDev,      \* the persisted last_device
  auto,         \* the auto_reconnect atom
  cmdq,         \* the command channel
  told,         \* the last of Connected / Disconnected offered to the plugin
  device,       \* environment: who answers at each address
  settled,      \* environment: nothing is lost or moved, and the user lets go
  dialler       \* history: who established the current target

pcVars   == <<phase, ret>>
sockVars == <<sock, rxbuf, connected, hw, told>>
huntVars == <<retarget, fastPasses, spent, interval, scanned>>
failVars == <<attempts, hbFails>>
dialVars == <<target, fromAuto, dialler, userDisc>>
envVars  == <<device, settled>>
vars == <<pcVars, sockVars, huntVars, failVars, dialVars, envVars,
          targetIp, lastDev, auto, cmdq>>

Phase == {"drain", "auto", "discover", "scan", "heartbeat", "await", "poll"}

UpdateTarget(a) == [op |-> "UpdateTarget", addr |-> a]
Plain(op) == [op |-> op, addr |-> NoAddr]
Command == {UpdateTarget(a) : a \in Picks} \cup {Plain(op) : op \in Ops}

Bump(n, cap) == IF n < cap THEN n + 1 ELSE cap

\* A machine that has just loaded a session: the persisted address and
\* identity are whatever the session held, and nothing has been sent yet.
Init ==
  /\ phase = "drain" /\ ret = "drain"
  /\ sock = FALSE /\ rxbuf = {} /\ connected = FALSE /\ hw = FALSE
  /\ told = "Disconnected"
  /\ target = NoAddr /\ fromAuto = FALSE /\ dialler = "nobody" /\ userDisc = FALSE
  /\ attempts = 0 /\ hbFails = 0
  /\ retarget = FALSE /\ fastPasses = 0 /\ spent = FALSE
  /\ interval = IntervalMin /\ scanned = FALSE
  /\ targetIp \in Addr \cup {NoAddr}
  /\ lastDev \in Answers
  /\ auto \in AutoModes
  /\ cmdq = <<>>
  /\ device \in Wirings
  /\ settled \in BOOLEAN

-----------------------------------------------------------------------------
(* The socket *)

\* rebind(): a new socket, unless the machine has none left to give.
Rebound == IF settled THEN {TRUE} ELSE BOOLEAN

\* The console: what may be on its way after a probe to `a' on a socket with `buf' on its
\* way is the answer p as well, unless nobody answers or it is lost.
Replies(a, buf, p) ==
  IF device[a] = Silent \/ Cardinality(buf) = LateCap THEN {buf}
  ELSE {buf \cup {p}} \cup (IF settled THEN {} ELSE {buf})

\* Mutants: a failed send that keeps the connection up, or keeps quiet about it.
DropSocketOnly ==
  sock' = FALSE /\ rxbuf' = {} /\ hw' = FALSE /\ UNCHANGED <<connected, told>>
DropSocketQuietly ==
  sock' = FALSE /\ rxbuf' = {} /\ hw' = FALSE /\ connected' = FALSE /\ UNCHANGED told

\* A failed send drops the socket, the connection and the read-back, and says so.
DropSocket ==
  /\ sock' = FALSE /\ rxbuf' = {} /\ connected' = FALSE /\ hw' = FALSE
  /\ told' = "Disconnected"

\* First half of send_heartbeat() on socket `s' with buffer `buf': the /info
\* probe leaves and the worker blocks, or the send fails and it returns.
Probe(a, s, buf, back) ==
  \/ /\ s
     /\ sock' = TRUE
     /\ rxbuf' \in Replies(a, buf, device[a])
     /\ phase' = "await" /\ ret' = back
     /\ UNCHANGED <<connected, hw, told>>
  \/ /\ ~(s /\ settled)
     /\ DropSocket
     /\ phase' = back /\ UNCHANGED ret

\* connect() with an address that parses.  A failed rebind() keeps the socket
\* that is there, with whatever is still on its way to it.
Dial(a, back) ==
  /\ userDisc' = FALSE
  /\ attempts' = 0
  /\ target' = a
  /\ \E bound \in Rebound :
       Probe(a, bound \/ sock, IF bound THEN {} ELSE rxbuf, back)

\* connect() with an address that does not.
BadDial ==
  /\ attempts' = Bump(attempts, AttemptsCap)
  /\ UNCHANGED <<sockVars, target, userDisc, ret>>

-----------------------------------------------------------------------------
(* Commands: the inner loop of run(), and handle() *)

Take(cmd) ==
  /\ phase = "drain"
  /\ cmdq # <<>> /\ cmd = Head(cmdq)
  /\ cmdq' = Tail(cmdq)
  /\ UNCHANGED <<huntVars, hbFails, lastDev, targetIp, auto, envVars>>

\* Mutant: an explicit connect that forgets whose choice the address is.
OriginUntouched == UNCHANGED fromAuto

ExplicitOrigin == fromAuto' = FALSE

\* UpdateTarget and ConnectToLast: an explicit connect adopts any identity.
Connect(cmd) ==
  LET a == IF cmd.op = "UpdateTarget" THEN cmd.addr ELSE targetIp IN
  /\ Take(cmd)
  /\ cmd.op \in {"UpdateTarget", "ConnectToLast"}
  /\ ExplicitOrigin
  /\ \/ a \in Addr /\ dialler' = "user" /\ Dial(a, "drain")
     \/ a \notin Addr /\ BadDial /\ UNCHANGED <<dialler, phase>>

\* Mutant: a Disconnect that only counts when there is something to disconnect.
HangUpDialled == target' = NoAddr /\ dialler' = "nobody" /\ userDisc' = (target # NoAddr)

HangUp == target' = NoAddr /\ dialler' = "nobody" /\ userDisc' = TRUE

Disconnect ==
  /\ Take(Plain("Disconnect"))
  /\ DropSocket
  /\ HangUp
  /\ UNCHANGED <<pcVars, fromAuto, attempts>>

\* SyncNow and HardResetBatch: packets to the target, any of which may fail.
Send ==
  /\ Take(Plain("Send"))
  /\ \/ (target = NoAddr \/ sock) /\ UNCHANGED sockVars
     \/ target # NoAddr /\ ~(sock /\ settled) /\ DropSocket
  /\ UNCHANGED <<pcVars, dialVars, attempts>>

\* Seen from the connection, audit_slots() sends queries whose answers may
\* come late; what it does to the slot map is SlotAudit's subject.
AuditSlots ==
  /\ Take(Plain("AuditSlots"))
  /\ IF sock /\ target # NoAddr
     THEN \E buf \in Replies(target, rxbuf, Fx) : rxbuf' \in SUBSET buf
     ELSE UNCHANGED rxbuf
  /\ UNCHANGED <<pcVars, sock, connected, hw, told, dialVars, attempts>>

DrainDone ==
  /\ phase = "drain" /\ cmdq = <<>>
  /\ phase' = "auto"
  /\ UNCHANGED <<ret, sockVars, huntVars, failVars, dialVars, envVars, targetIp,
                 lastDev, auto, cmdq>>

-----------------------------------------------------------------------------
(* The run-loop self-connect *)

\* Mutant: a self-connect that ignores the user's Disconnect.
MayAutoConnectAlways == target = NoAddr /\ auto /\ ~retarget /\ targetIp # NoAddr

MayAutoConnect ==
  /\ target = NoAddr /\ ~userDisc /\ auto
  /\ ~retarget
  /\ targetIp # NoAddr

AutoConnect ==
  /\ phase = "auto" /\ MayAutoConnect
  /\ fromAuto' = TRUE
  /\ \/ targetIp \in Addr /\ dialler' = "worker" /\ Dial(targetIp, "discover")
     \/ targetIp \notin Addr /\ BadDial /\ phase' = "discover" /\ UNCHANGED dialler
  /\ UNCHANGED <<huntVars, hbFails, envVars, targetIp, lastDev, auto, cmdq>>

\* No reason to self-connect, or the throttle has not expired yet.
SkipAutoConnect ==
  /\ phase = "auto"
  /\ phase' = "discover"
  /\ UNCHANGED <<ret, sockVars, huntVars, failVars, dialVars, envVars, targetIp,
                 lastDev, auto, cmdq>>

-----------------------------------------------------------------------------
(* Background discovery *)

\* Mutant: a retarget that re-arms the fast search after it was spent.
RequestRetargetAgain ==
  /\ retarget' = TRUE /\ fastPasses' = FastBudget /\ interval' = IntervalMin
  /\ UNCHANGED <<spent, scanned>>

\* request_retarget(): one fast search per loss.
RequestRetarget ==
  /\ retarget' = TRUE
  /\ fastPasses' = IF spent THEN fastPasses ELSE FastBudget
  /\ interval' = IF spent THEN interval ELSE IntervalMin
  /\ UNCHANGED <<spent, scanned>>

\* Mutants: discovery that ignores the user's Disconnect, runs while a link is
\* up, or only runs when there is no address to wait for.
MayDiscoverOffline == ~connected /\ auto
MayDiscoverOnline  == ~userDisc /\ auto
MayDiscoverIdle    == ~connected /\ ~userDisc /\ auto /\ target = NoAddr

MayDiscover == ~connected /\ ~userDisc /\ auto

\* The pass is certain when none has run or a retarget was asked for, and
\* otherwise depends on the interval.
DiscoveryForced == ~scanned \/ retarget

StartScan ==
  /\ phase = "discover" /\ MayDiscover
  /\ scanned' = TRUE /\ retarget' = FALSE
  /\ phase' = "scan"
  /\ UNCHANGED <<ret, sockVars, fastPasses, spent, interval, failVars, dialVars,
                 envVars, targetIp, lastDev, auto, cmdq>>

SkipScan ==
  /\ phase = "discover" /\ ~(MayDiscover /\ DiscoveryForced)
  /\ phase' = "heartbeat"
  /\ UNCHANGED <<ret, sockVars, huntVars, failVars, dialVars, envVars, targetIp,
                 lastDev, auto, cmdq>>

\* scan_collect(): the addresses that answered within the window.
Present == {a \in Addr : device[a] # Silent}
ScanResults == IF settled THEN {Present} ELSE SUBSET Present

\* Entries of the merged device list: one per identity, one per blank address.
Entries(found) ==
  Cardinality({device[a] : a \in found} \cap Ident)
    + Cardinality({a \in found : device[a] = Blank})

\* The addresses discovery may adopt, best path first: any of them here.
Candidates(found) ==
  IF lastDev # Blank THEN {a \in found : device[a] = lastDev}
  ELSE IF Entries(found) = 1 THEN found ELSE {}

\* Nothing to adopt: the fast search pays one pass of its budget, and the
\* cadence ramps down unless that search, or a changed network, keeps it up.
ScanFruitless ==
  /\ phase = "scan"
  /\ \E found \in ScanResults : Candidates(found) = {}
  /\ fastPasses' = IF fastPasses > 0 THEN fastPasses - 1 ELSE 0
  /\ spent' = (spent \/ fastPasses = 1)
  /\ \E ifacesChanged \in BOOLEAN :
       interval' = IF ifacesChanged \/ fastPasses > 0 THEN IntervalMin
                   ELSE IF 2 * interval > IntervalMax THEN IntervalMax
                   ELSE 2 * interval
  /\ phase' = "heartbeat"
  /\ UNCHANGED <<ret, sockVars, retarget, scanned, failVars, dialVars, envVars,
                 targetIp, lastDev, auto, cmdq>>

\* A hit ends the hunt.  An address already dialled is left alone; any other
\* is persisted and dialled.
ScanHit(a) ==
  /\ phase = "scan"
  /\ \E found \in ScanResults : a \in Candidates(found)
  /\ interval' = IntervalMin /\ fastPasses' = 0 /\ spent' = FALSE
  /\ \/ /\ target = a
        /\ phase' = "heartbeat"
        /\ UNCHANGED <<ret, sockVars, attempts, dialVars, targetIp>>
     \/ /\ target # a
        /\ targetIp' = a
        /\ fromAuto' = TRUE /\ dialler' = "worker"
        /\ Dial(a, "heartbeat")
  /\ UNCHANGED <<retarget, scanned, hbFails, envVars, lastDev, auto, cmdq>>

-----------------------------------------------------------------------------
(* Heartbeat and telemetry *)

MayHeartbeat == ~userDisc /\ target # NoAddr

Heartbeat ==
  /\ phase = "heartbeat" /\ MayHeartbeat
  /\ \E bound \in Rebound :
       /\ Probe(target, sock \/ bound, rxbuf, "poll")
       /\ attempts' = IF sock \/ bound THEN attempts ELSE Bump(attempts, AttemptsCap)
  /\ UNCHANGED <<huntVars, hbFails, dialVars, envVars, targetIp, lastDev, auto, cmdq>>

SkipHeartbeat ==
  /\ phase = "heartbeat"
  /\ phase' = "poll"
  /\ UNCHANGED <<ret, sockVars, huntVars, failVars, dialVars, envVars, targetIp,
                 lastDev, auto, cmdq>>

\* A different console answers at an address the worker chose for itself.
WrongDevice(d) ==
  /\ fromAuto
  /\ d \in Named
  /\ lastDev # Blank /\ d # lastDev

\* Mutant: the identity is written down at the first contact only.
IdentifiedAtFirst(d) == IF d = Blank \/ connected THEN lastDev ELSE d

\* The console to look for from now on: whoever answered, if it says who it is.
Identified(d) == IF d = Blank THEN lastDev ELSE d

\* Second half of send_heartbeat(): the first packet to arrive is the answer,
\* whoever sent it and whatever probe it answers.
Accept(d) ==
  /\ phase = "await" /\ d \in rxbuf \cap Answers /\ ~WrongDevice(d)
  /\ connected' = TRUE /\ told' = "Connected"
  /\ hbFails' = 0 /\ spent' = FALSE /\ attempts' = 0
  /\ lastDev' = Identified(d)
  /\ rxbuf' = rxbuf \ {d}
  /\ phase' = ret
  /\ UNCHANGED <<ret, sock, hw, retarget, fastPasses, interval, scanned, dialVars,
                 envVars, targetIp, auto, cmdq>>

Reject(d) ==
  /\ phase = "await" /\ d \in rxbuf /\ WrongDevice(d)
  /\ target' = NoAddr /\ dialler' = "nobody" /\ connected' = FALSE
  /\ attempts' = Bump(attempts, AttemptsCap)
  /\ RequestRetarget
  /\ rxbuf' = rxbuf \ {d}
  /\ phase' = ret
  /\ UNCHANGED <<ret, sock, hw, told, hbFails, fromAuto, userDisc, envVars,
                 targetIp, lastDev, auto, cmdq>>

\* Nothing arrived in time, or something that is not an /info message.
NoAnswer ==
  /\ phase = "await"
  /\ \/ Fx \in rxbuf /\ rxbuf' = rxbuf \ {Fx}
     \/ (settled => rxbuf = {}) /\ UNCHANGED rxbuf
  /\ connected' = FALSE /\ told' = "Disconnected"
  /\ attempts' = Bump(attempts, AttemptsCap)
  /\ LET fails == Bump(hbFails, RescanAfter) IN
       IF fails = RescanAfter /\ auto
       THEN hbFails' = 0 /\ RequestRetarget
       ELSE hbFails' = fails /\ UNCHANGED huntVars
  /\ phase' = ret
  /\ UNCHANGED <<ret, sock, hw, dialVars, envVars, targetIp, lastDev, auto, cmdq>>

\* poll_delay(): query the active slot, and believe the first packet to arrive.
Poll ==
  /\ phase = "poll" /\ connected
  /\ \/ /\ sock
        /\ \E buf \in Replies(target, rxbuf, Fx) :
             \/ /\ settled => buf = {}
                /\ rxbuf' = buf /\ UNCHANGED hw
             \/ \E p \in buf : /\ rxbuf' = buf \ {p}
                               /\ hw' = (hw \/ p = Fx)
        /\ UNCHANGED <<sock, connected, told>>
     \/ ~(sock /\ settled) /\ DropSocket
  /\ phase' = "drain"
  /\ UNCHANGED <<ret, huntVars, failVars, dialVars, envVars, targetIp, lastDev,
                 auto, cmdq>>

SkipPoll ==
  /\ phase = "poll"
  /\ phase' = "drain"
  /\ UNCHANGED <<ret, sockVars, huntVars, failVars, dialVars, envVars, targetIp,
                 lastDev, auto, cmdq>>
-----------------------------------------------------------------------------
(* The rest of the program, and the network *)

workerVars == <<pcVars, sockVars, huntVars, failVars, dialVars, lastDev>>

\* try_send() on the command channel: a full channel drops the command.
Request(cmd) ==
  /\ ~settled /\ Len(cmdq) < CmdCap
  /\ cmdq' = Append(cmdq, cmd)
  /\ UNCHANGED <<workerVars, envVars, targetIp, auto>>

\* The editor's device list: SelectTarget persists the address, then asks for it.
SelectTarget(a) ==
  /\ ~settled
  /\ targetIp' = a
  /\ cmdq' = IF Len(cmdq) < CmdCap THEN Append(cmdq, UpdateTarget(a)) ELSE cmdq
  /\ UNCHANGED <<workerVars, envVars, auto>>

\* The editor's address fields; they are locked by the connection status the
\* plugin has seen, which may lag behind the worker.
EditTarget(a) ==
  /\ ~settled
  /\ targetIp' = a
  /\ UNCHANGED <<workerVars, envVars, auto, cmdq>>

ToggleAuto ==
  /\ ~settled
  /\ auto' = ~auto /\ auto' \in AutoModes
  /\ UNCHANGED <<workerVars, envVars, targetIp, cmdq>>

\* Consoles appear, disappear, or get other addresses.
Rewire ==
  /\ ~settled
  /\ device' \in Wirings
  /\ UNCHANGED <<workerVars, settled, targetIp, auto, cmdq>>

Settle ==
  /\ ~settled /\ settled' = TRUE
  /\ UNCHANGED <<workerVars, device, targetIp, auto, cmdq>>

-----------------------------------------------------------------------------
(* The specification *)

Worker ==
  \/ \E cmd \in Command : Connect(cmd)
  \/ Disconnect \/ Send \/ AuditSlots \/ DrainDone
  \/ AutoConnect \/ SkipAutoConnect
  \/ StartScan \/ SkipScan \/ ScanFruitless \/ (\E a \in Addr : ScanHit(a))
  \/ Heartbeat \/ SkipHeartbeat
  \/ (\E d \in Answers : Accept(d) \/ Reject(d)) \/ NoAnswer
  \/ Poll \/ SkipPoll

Environment ==
  \/ \E op \in Ops : Request(Plain(op))
  \/ \E a \in Picks : SelectTarget(a)
  \/ \E a \in Typed : EditTarget(a)
  \/ ToggleAuto
  \/ Rewire
  \/ Settle

Next == Worker \/ Environment

\* The thread keeps running, and a timer that keeps being waited for expires.
Fairness ==
  /\ WF_vars(Worker)
  /\ SF_vars(AutoConnect) /\ SF_vars(StartScan) /\ SF_vars(Heartbeat)

Safety == Init /\ [][Next]_vars
Spec == Safety /\ Fairness

-----------------------------------------------------------------------------
(* Properties *)

\* What each group of the variables may hold.
LoopTypes == phase \in Phase /\ ret \in {"drain", "discover", "heartbeat", "poll"}

LinkTypes ==
  /\ sock \in BOOLEAN /\ rxbuf \subseteq Packet
  /\ connected \in BOOLEAN /\ hw \in BOOLEAN /\ told \in {"Connected", "Disconnected"}
  /\ target \in Addr \cup {NoAddr} /\ fromAuto \in BOOLEAN
  /\ dialler \in {"nobody", "user", "worker"} /\ userDisc \in BOOLEAN

HuntTypes ==
  /\ attempts \in 0..AttemptsCap /\ hbFails \in 0..RescanAfter
  /\ retarget \in BOOLEAN /\ fastPasses \in 0..FastBudget /\ spent \in BOOLEAN
  /\ interval \in IntervalMin..IntervalMax /\ scanned \in BOOLEAN

WorldTypes ==
  /\ targetIp \in Addr \cup {NoAddr, BadAddr} /\ lastDev \in Answers
  /\ auto \in BOOLEAN /\ settled \in BOOLEAN
  /\ cmdq \in Seq(Command)
  /\ device \in Wirings

\* Every variable holds what the code's field of that name can hold: in
\* particular the counters saturate and the discovery interval stays clamped.
TypeOK == LoopTypes /\ LinkTypes /\ HuntTypes /\ WorldTypes

\* A connection that is up has a socket, an address and the user's consent.
ConnectedHasLink == connected => sock /\ target # NoAddr /\ ~userDisc

\* After the user's Disconnect nothing can be sent or received, whatever the
\* worker was in the middle of: no socket, no address, no wait, no scan; and no
\* read-back of the console is shown as if it were still there.
HungUpIsSilent ==
  userDisc => /\ ~sock /\ target = NoAddr /\ ~connected /\ ~hw
              /\ phase \notin {"await", "scan"}

\* debug_assert!(!self.connected) in discover_and_retarget(), over the whole
\* second the scan blocks the worker.
ScanOnlyWhenLost == phase = "scan" => ~connected /\ ~userDisc

\* The plugin is never told a link is down while the worker holds it up, and
\* an outdated "up" survives only where no answer is pending at an address:
\* after a rejection, never after the user hung up.
StatusTracksLink ==
  /\ connected => told = "Connected"
  /\ told = "Connected" /\ ~connected =>
       ~userDisc /\ (target = NoAddr \/ phase = "await")

\* An address the worker checks identities at is one it dialled itself, so the
\* console the user asked for is never turned away.
ChosenByUserNotChecked == fromAuto /\ target # NoAddr => dialler = "worker"

\* The fast search is over once it is spent, and runs at the floor cadence.
FastSearchBounded ==
  /\ spent => fastPasses = 0
  /\ fastPasses > 0 => interval = IntervalMin

\* Only an explicit connect ends a user's Disconnect: no timer, no scan and no
\* answer that was already on its way.
OnlyUserResumes ==
  [][userDisc /\ ~userDisc' =>
       /\ cmdq # <<>> /\ cmdq' = Tail(cmdq)
       /\ Head(cmdq).op \in {"UpdateTarget", "ConnectToLast"}]_vars

\* The background passes never take down a link that is up: only a command,
\* or the heartbeat or telemetry of that very link, does.
OnlyLinkTrafficDrops ==
  [][connected /\ ~connected' => phase \in {"drain", "await", "heartbeat", "poll"}]_vars

\* A known console that is reachable is found, wherever it is, once the network
\* and the user have settled with auto_reconnect on.
ConsolePresent == \E a \in Addr : device[a] = lastDev
Reconverges ==
  <>[](settled /\ auto /\ ~userDisc /\ lastDev # Blank /\ ConsolePresent)
    => <>[]connected

\* Whatever late answers, moved consoles, failed sends and half-done connects were about: once
\* the network has settled, a link that is up comes to be with the console that the worker
\* would look for if it lost it, or with one that does not say who it is.
TalksToTheKnown ==
  <>[]settled => <>[](connected => device[target] \in {lastDev, Blank})

\* A Disconnect that is in the command channel is carried out, even behind a
\* blocking scan or heartbeat.
DisconnectHonoured ==
  (\E i \in DOMAIN cmdq : cmdq[i].op = "Disconnect") ~> userDisc

\* The worker implements the promise of ConsoleLink: of the variables, what
\* counts is whether the link is off, idle, being tried or up, whose choice the
\* address is, and which console is the known one.
LinkState ==
  IF userDisc THEN "off" ELSE IF connected THEN "up"
  ELSE IF target # NoAddr THEN "trying" ELSE "idle"
Link == INSTANCE ConsoleLink WITH
          link <- LinkState, vouched <- fromAuto, known <- lastDev
ImplementsLink == Link!Spec
=============================================================================
