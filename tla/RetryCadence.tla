----------------------------- MODULE RetryCadence -----------------------------
(***************************************************************************)
(* The network worker with its clocks: when it retries, re-dials and scans *)
(* while a console is away.  Every step but Move is a step of              *)
(* NetworkWorker; the timers that are a free choice there are read here.   *)
(* The user has left auto_reconnect on and does nothing, and no packet is   *)
(* lost: what happens is decided by the clocks and by where the consoles   *)
(* are.                                                                     *)
(*                                                                          *)
(* Ages count units of time since an event, up to AgeCap, beyond which no  *)
(* timer tells two ages apart.  Time passes in the blocking calls and in   *)
(* the sleep at the end of the loop, which is rounded up to one unit.       *)
(***************************************************************************)
EXTENDS NetworkWorker

CONSTANTS
  HeartbeatEvery,   \* HEARTBEAT_INTERVAL, in units
  BackoffBase,      \* first argument of Backoff::new
  BackoffCap,       \* second argument of Backoff::new
  RecvTimeout,      \* RECV_TIMEOUT
  ScanWindow,       \* SCAN_WINDOW
  MaxMoves          \* how often the consoles change places

\* A heartbeat interval, a capped back-off and a wait are shorter than the slowest discovery.
ASSUME CadenceAssumption ==
  /\ HeartbeatEvery \in Nat \ {0} /\ HeartbeatEvery < IntervalMax
  /\ BackoffBase \in Nat /\ BackoffCap \in Nat /\ BackoffCap <= IntervalMax
  /\ RecvTimeout \in Nat /\ RecvTimeout < IntervalMax
  /\ ScanWindow \in Nat /\ MaxMoves \in Nat

VARIABLES
  hbAge,     \* self.last_heartbeat.elapsed()
  hbDue,     \* the interval the running heartbeat was sent for
  dialAge,   \* self.last_auto_attempt, AgeCap for None
  scanAge,   \* self.last_discovery.elapsed()
  ifKnown,   \* self.last_iface_set is the machine's interfaces
  moves,     \* bound: the moves made so far
  unserved   \* history: time the known console has been reachable in vain

clocks == <<hbAge, hbDue, dialAge, scanAge, ifKnown, moves, unserved>>
allVars == <<vars, clocks>>

AgeCap == IntervalMax

\* Backoff::next_delay_ms()
NextDelay(n) ==
  LET doubled == BackoffBase * 2^n IN IF doubled \in 0..BackoffCap THEN doubled ELSE BackoffCap

HeartbeatInterval == IF connected THEN HeartbeatEvery ELSE NextDelay(attempts)

Later(age, dt) == IF age + dt < AgeCap THEN age + dt ELSE AgeCap

\* The known console answers where the link is.
Served == connected /\ device[target] = lastDev

\* How long it may take to be served, and bound: the time counted beyond.
Patience == IntervalMax + RecvTimeout + ScanWindow
UnservedCap == Patience + 1

\* The history of dt units that pass.
Wait(dt) ==
  unserved' = IF Served' \/ ~ConsolePresent' THEN 0
              ELSE IF unserved + dt < UnservedCap THEN unserved + dt ELSE UnservedCap

\* dt units pass, and then the clocks in `restarted' start again.
Pass(dt, restarted) ==
  /\ hbAge' = IF "heartbeat" \in restarted THEN 0 ELSE Later(hbAge, dt)
  /\ dialAge' = IF "dial" \in restarted THEN 0 ELSE Later(dialAge, dt)
  /\ scanAge' = IF "scan" \in restarted THEN 0 ELSE Later(scanAge, dt)
  /\ Wait(dt)

TimedInit ==
  /\ Init /\ settled /\ auto /\ targetIp \in Addr /\ lastDev # Blank
  /\ hbAge = 0 /\ hbDue = 0 /\ dialAge = AgeCap /\ scanAge = 0
  /\ ifKnown = FALSE /\ moves = 0 /\ unserved = 0

Redialled == IF target' # target THEN {"heartbeat"} ELSE {}

TimedAutoConnect ==
  /\ AutoConnect
  /\ dialAge >= NextDelay(attempts)
  /\ Pass(0, {"dial"} \cup Redialled)
  /\ UNCHANGED <<hbDue, ifKnown, moves>>

TimedSkipAutoConnect ==
  /\ SkipAutoConnect
  /\ MayAutoConnect => dialAge < NextDelay(attempts)
  /\ UNCHANGED clocks

ScanDue == DiscoveryForced \/ scanAge >= interval

TimedStartScan ==
  /\ StartScan /\ ScanDue
  /\ Pass(0, {"scan"})
  /\ UNCHANGED <<hbDue, ifKnown, moves>>

TimedSkipScan ==
  /\ SkipScan
  /\ ~(MayDiscover /\ ScanDue)
  /\ UNCHANGED clocks

\* The interfaces count as changed on the first pass only.
TimedScanEnd ==
  /\ \/ ScanFruitless /\ (interval' = IntervalMin <=> ~ifKnown \/ fastPasses > 0)
     \/ \E a \in Addr : ScanHit(a)
  /\ ifKnown' = TRUE
  /\ Pass(ScanWindow, Redialled)
  /\ UNCHANGED <<hbDue, moves>>

TimedHeartbeat ==
  /\ Heartbeat
  /\ hbAge >= HeartbeatInterval
  /\ hbDue' = HeartbeatInterval
  /\ UNCHANGED <<hbAge, dialAge, scanAge, ifKnown, moves, unserved>>

TimedSkipHeartbeat ==
  /\ SkipHeartbeat
  /\ MayHeartbeat => hbAge < HeartbeatInterval
  /\ UNCHANGED clocks

\* last_heartbeat += interval, or now when that is already an interval ago.
NextBeat(age) == IF age - hbDue >= hbDue THEN 0 ELSE age - hbDue

\* The answer, or the end of the wait.  A periodic heartbeat then advances its
\* clock; the one inside connect() does not.
TimedAnswer ==
  /\ (\E d \in Answers : Accept(d) \/ Reject(d)) \/ NoAnswer
  /\ LET dt == IF rxbuf = {} THEN RecvTimeout ELSE 0 IN
       /\ dialAge' = Later(dialAge, dt) /\ scanAge' = Later(scanAge, dt)
       /\ hbAge' = IF ret = "poll" THEN NextBeat(Later(hbAge, dt)) ELSE Later(hbAge, dt)
       /\ Wait(dt)
  /\ UNCHANGED <<hbDue, ifKnown, moves>>

TimedDrain == DrainDone /\ UNCHANGED clocks

TimedSleep ==
  /\ Poll \/ SkipPoll
  /\ Pass(1, {})
  /\ UNCHANGED <<hbDue, ifKnown, moves>>

\* The consoles change places: a lease expires, one is switched on or off.
Move ==
  /\ moves < MaxMoves /\ moves' = moves + 1
  /\ device' \in Wirings \ {device}
  /\ unserved' = 0
  /\ UNCHANGED <<workerVars, settled, targetIp, auto, cmdq,
                 hbAge, hbDue, dialAge, scanAge, ifKnown>>

Step ==
  \/ TimedDrain \/ TimedAutoConnect \/ TimedSkipAutoConnect
  \/ TimedStartScan \/ TimedSkipScan \/ TimedScanEnd
  \/ TimedHeartbeat \/ TimedSkipHeartbeat \/ TimedAnswer \/ TimedSleep

TimedNext == Step \/ Move

TimedSpec == TimedInit /\ [][TimedNext]_allVars /\ WF_allVars(Step)

-----------------------------------------------------------------------------
(* Properties *)

\* A known console that is reachable, wherever it went and whoever took its
\* address, is served within the longest discovery interval, one wait for an
\* answer and one scan: the README's "follows it to its new IP".
RecoveryIsBounded == unserved <= Patience

\* README: discovery "backs off to one scan every 30 seconds when it keeps
\* finding nothing": on an empty network the fast search is spent for good.
SearchSettles == (<>[](Present = {})) => <>[](interval = IntervalMax)
=============================================================================
