------------------------------ MODULE DeviceScan ------------------------------
(***************************************************************************)
(* The device scan of src/network.rs and the scan panel of src/editor.rs.   *)
(* Scans run on threads of their own, started by the worker for the editor, *)
(* and in the worker's discovery; both publish to one device list, behind a *)
(* mutex, and one health verdict, behind none.  Opening the panel starts    *)
(* over: the generation is raised, the list cleared, a scan asked for.      *)
(***************************************************************************)
EXTENDS Naturals, Sequences

CONSTANTS
  Thread,      \* bound: scan threads at one time
  Worker,      \* the worker, which scans in its discovery pass
  Nets,        \* what the network may be: an interface is up, and the replies to hear
  NoId,        \* the identity of a console that reports neither name nor model
  Failures,    \* SCAN_HEALTH_FAILURES (3)
  CmdCap,      \* capacity of the command channel (64)
  MaxGen       \* bound: times the panel is opened

Scanner == Thread \cup {Worker}
Reply == UNION {net.air : net \in Nets}
Stages == {"off", "scan", "lock", "merge", "count", "load", "store"}
Healths == {"unknown", "ok", "noReplies", "noInterfaces"}
Outcomes == Healths \cup
  {"none", "hold", "quiet", "quiet, no interface", "replies", "replies, no interface"}

\* A reply is [ip, id, rank, loop]: rank orders the paths (loopback first, then the
\* same subnet, then latency), loop tells the loopback socket's.
Device == {[id |-> e.id, ip |-> e.ip] : e \in Reply}

\* The generation of a device found by the worker, which is not compared.
Unguarded == MaxGen + 1
Entry == [id : {d.id : d \in Device}, ip : {d.ip : d \in Device}, gen : 0..Unguarded]

ASSUME ScanAssumption ==
  /\ Worker \notin Thread
  /\ Failures \in Nat \ {0} /\ CmdCap \in Nat \ {0} /\ MaxGen \in Nat

VARIABLES
  net,      \* the network now
  panel,    \* show_scan_results
  opening,  \* the panel's generation is raised, the list not yet cleared
  gen,      \* scan_generation
  scans,    \* ScanTargets commands in the channel
  discovering,  \* the worker is in a discovery pass
  stage,    \* how far each scanner is in scan_collect() and record()
  mine,     \* the generation its thread was given
  todo,     \* devices it has still to merge
  outcome,  \* what its stats say, then what its record() is to store
  list,     \* the shared device list
  empty,    \* empty_scans, up to Failures
  health    \* scan_health

editorVars == <<panel, opening, gen>>
scanVars   == <<stage, mine, todo, outcome>>
shared     == <<list, empty, health>>
vars == <<net, editorVars, scans, discovering, scanVars, shared>>

Init ==
  /\ net \in Nets
  /\ panel = FALSE /\ opening = FALSE /\ gen = 0
  /\ scans = 0 /\ discovering = FALSE
  /\ stage = [p \in Scanner |-> "off"] /\ mine = [p \in Scanner |-> Unguarded]
  /\ todo = [p \in Scanner |-> {}] /\ outcome = [p \in Scanner |-> "none"]
  /\ list = <<>> /\ empty = 0 /\ health = "unknown"

-----------------------------------------------------------------------------
(* What a scan makes of the replies: scan_collect() *)

\* Each address keeps the reply with the best path, ...
ByIp(replies) == {e \in replies : \A o \in replies : o.ip = e.ip => e.rank <= o.rank}

\* ... and each identity the best of its addresses; without one, the address is it.
Primary(best) ==
  {e \in best : e.id # NoId => \A o \in best : o.id = e.id => e.rank <= o.rank}

\* Without an interface only the loopback socket hears anything.
Audible(m) == {e \in m.air : m.up \/ e.loop}

Found(m) == Primary(ByIp(Audible(m)))

-----------------------------------------------------------------------------
(* The device list: merge_devices() *)

\* Mutant: devices are told apart by address alone.
SameAddress(d, e) == e.ip = d.ip

Same(d, e) == IF d.id # NoId THEN e.id = d.id ELSE e.ip = d.ip

\* The first entry that describes the same device is replaced.
Merged(l, d) ==
  LET match == {i \in DOMAIN l : Same(d, l[i])} IN
  IF match = {} THEN Append(l, d)
  ELSE [l EXCEPT ![CHOOSE i \in match : \A j \in match : i <= j] = d]

At(p, s) == stage[p] = s
To(p, s) == stage' = [stage EXCEPT ![p] = s]

\* The mutex of the list: a scanner holds it while it merges.
Unlocked == \A p \in Scanner : ~At(p, "merge")

-----------------------------------------------------------------------------
(* The editor *)

\* try_send(): a channel full of other commands drops it as well.
OfferScan == scans' = IF scans < CmdCap THEN scans + 1 ELSE scans

\* Message::ScanTargets opens the panel: the generation is raised first, ...
OpenPanel ==
  /\ ~panel /\ gen < MaxGen
  /\ panel' = TRUE /\ opening' = TRUE /\ gen' = gen + 1
  /\ UNCHANGED <<net, scans, discovering, scanVars, shared>>

\* ... then the list cleared and a scan asked for.
ClearList ==
  /\ opening /\ Unlocked
  /\ list' = <<>> /\ opening' = FALSE
  /\ OfferScan
  /\ UNCHANGED <<net, panel, gen, discovering, scanVars, empty, health>>

\* Message::OnFrame: every five seconds the open panel asks again, and clears nothing.
Rescan ==
  /\ panel /\ ~opening
  /\ OfferScan
  /\ UNCHANGED <<net, editorVars, discovering, scanVars, shared>>

\* A second click, a device picked, or the window closed.
ClosePanel ==
  /\ panel /\ ~opening
  /\ panel' = FALSE
  /\ UNCHANGED <<net, opening, gen, scans, discovering, scanVars, shared>>

-----------------------------------------------------------------------------
(* The worker *)

\* handle(ScanTargets): a thread is given the generation of this moment.
StartScan(t) ==
  /\ ~discovering /\ scans > 0 /\ stage[t] = "off"
  /\ scans' = scans - 1
  /\ stage' = [stage EXCEPT ![t] = "scan"]
  /\ mine' = [mine EXCEPT ![t] = gen]
  /\ UNCHANGED <<net, editorVars, discovering, todo, outcome, shared>>

\* audit_slots() throws away the scans it meets in the channel.
DropScan ==
  /\ ~discovering /\ scans > 0
  /\ scans' = scans - 1
  /\ UNCHANGED <<net, editorVars, discovering, scanVars, shared>>

\* discover_and_retarget() scans on the worker's own thread.
Discover ==
  /\ ~discovering
  /\ discovering' = TRUE
  /\ stage' = [stage EXCEPT ![Worker] = "scan"]
  /\ UNCHANGED <<net, editorVars, scans, mine, todo, outcome, shared>>

-----------------------------------------------------------------------------
(* A scan and its record() *)

\* The window is over: what was heard, and from how many interfaces.
Collect(p) ==
  /\ At(p, "scan") /\ To(p, "lock")
  /\ todo' = [todo EXCEPT ![p] = Found(net)]
  /\ outcome' = [outcome EXCEPT ![p] =
       IF Audible(net) = {} THEN IF net.up THEN "quiet" ELSE "quiet, no interface"
       ELSE IF net.up THEN "replies" ELSE "replies, no interface"]
  /\ UNCHANGED <<net, editorVars, scans, discovering, mine, shared>>

\* The thread ends, or the worker leaves its discovery pass.
Rest(p) ==
  /\ To(p, "off")
  /\ mine' = [mine EXCEPT ![p] = Unguarded]
  /\ todo' = [todo EXCEPT ![p] = {}] /\ outcome' = [outcome EXCEPT ![p] = "none"]
  /\ discovering' = (discovering /\ p # Worker)

\* Mutant: the generation is not compared.
AnyGeneration(p) == TRUE

\* The worker's results belong to no generation.
Current(p) == p = Worker \/ mine[p] = gen

\* The list stays locked until nothing is left to merge.
MergeNext(p, left) == To(p, IF left = {} THEN "count" ELSE "merge")

\* With the list locked, the generation is compared; a scan of an older one is dropped.
Lock(p) ==
  /\ At(p, "lock") /\ Unlocked
  /\ \/ Current(p) /\ MergeNext(p, todo[p]) /\ UNCHANGED <<mine, todo, outcome, discovering>>
     \/ ~Current(p) /\ Rest(p)
  /\ UNCHANGED <<net, editorVars, scans, shared>>

\* The devices are merged in the order of their paths.
Merge(p) ==
  /\ At(p, "merge")
  /\ \E e \in todo[p] :
       /\ \A o \in todo[p] : e.rank <= o.rank
       /\ list' = Merged(list, [id |-> e.id, ip |-> e.ip, gen |-> mine[p]])
       /\ todo' = [todo EXCEPT ![p] = @ \ {e}]
  /\ MergeNext(p, todo'[p])
  /\ UNCHANGED <<net, editorVars, scans, discovering, mine, outcome, empty, health>>

Heard(p) == outcome[p] \in {"replies", "replies, no interface"}
Wired(p) == outcome[p] \in {"replies", "quiet"}

\* Mutant: a run of quiet scans is not forgotten when a console answers, and counts
\* for more than the answer.
VerdictBySilence(p, run) ==
  IF ~Wired(p) THEN "noInterfaces"
  ELSE IF run = Failures \/ health = "noReplies" THEN "noReplies"
  ELSE IF Heard(p) THEN "ok"
  ELSE "hold"

Verdict(p, run) ==
  IF ~Wired(p) THEN "noInterfaces"
  ELSE IF Heard(p) THEN "ok"
  ELSE IF run = Failures THEN "noReplies"
  ELSE "hold"

\* empty_scans is reset by a reply, and counts any other scan, one that had no
\* interface too; one quiet scan holds the verdict of the one before.
Count(p) ==
  /\ At(p, "count")
  /\ empty' = IF Heard(p) THEN 0 ELSE IF empty < Failures THEN empty + 1 ELSE Failures
  /\ LET verdict == Verdict(p, empty') IN
       /\ outcome' = [outcome EXCEPT ![p] = verdict]
       /\ To(p, IF verdict = "hold" THEN "load" ELSE "store")
  /\ UNCHANGED <<net, editorVars, scans, discovering, mine, todo, list, health>>

Load(p) ==
  /\ At(p, "load") /\ To(p, "store")
  /\ outcome' = [outcome EXCEPT ![p] = health]
  /\ UNCHANGED <<net, editorVars, scans, discovering, mine, todo, shared>>

Store(p) ==
  /\ At(p, "store")
  /\ health' = outcome[p]
  /\ Rest(p)
  /\ UNCHANGED <<net, editorVars, scans, list, empty>>

Record(p) ==
  Collect(p) \/ Lock(p) \/ Merge(p) \/ Count(p) \/ Load(p) \/ Store(p)

-----------------------------------------------------------------------------
(* The network, and the specification *)

\* Consoles come, go and move, probes are lost, an interface comes up or goes.
Change ==
  /\ net' \in Nets
  /\ UNCHANGED <<editorVars, scans, discovering, scanVars, shared>>

Next ==
  \/ OpenPanel \/ ClearList \/ Rescan \/ ClosePanel
  \/ (\E t \in Thread : StartScan(t)) \/ DropScan \/ Discover
  \/ \E p \in Scanner : Record(p)
  \/ Change

\* Threads run on; frames keep coming; and not every scan that is asked for meets
\* the worker in an audit or in a discovery pass.
Fairness ==
  /\ WF_vars(ClearList) /\ WF_vars(Rescan)
  /\ SF_vars(\E t \in Thread : StartScan(t))
  /\ \A p \in Scanner : WF_vars(Record(p))

Safety == Init /\ [][Next]_vars
Spec == Safety /\ Fairness

-----------------------------------------------------------------------------
(* Properties *)

\* Every variable holds what the code's field of that name can hold.
TypeOK ==
  /\ net \in Nets
  /\ panel \in BOOLEAN /\ opening \in BOOLEAN /\ gen \in 0..MaxGen
  /\ scans \in 0..CmdCap /\ discovering \in BOOLEAN
  /\ stage \in [Scanner -> Stages] /\ mine \in [Scanner -> 0..Unguarded]
  /\ todo \in [Scanner -> SUBSET Reply] /\ outcome \in [Scanner -> Outcomes]
  /\ list \in Seq(Entry)
  /\ empty \in 0..Failures /\ health \in Healths

\* A scan that was under way when the panel was opened never brings its devices back
\* into the list the panel has cleared; the worker's discovery is not held to that.
StaleStaysGone ==
  ~opening => \A i \in DOMAIN list : list[i].gen \in {gen, Unguarded}

\* A console that says who it is has one entry, however its scans are interleaved,
\* wherever it moves and whatever else answers from its address.  An address that does
\* not say who it is may come to have two: see the README.
OneEntryPerConsole ==
  \A i, j \in DOMAIN list : i # j /\ list[i].id = list[j].id => list[i].id = NoId

Shown(m) ==
  /\ \A e \in Found(m) : \E i \in DOMAIN list : list[i].id = e.id /\ list[i].ip = e.ip
  /\ health = IF ~m.up THEN "noInterfaces" ELSE IF m.air = {} THEN "noReplies" ELSE "ok"

\* While the panel stays open over a network that stays as it is, it comes to show
\* every console where it is, and the verdict that fits.
PanelSettles == \A m \in Nets : <>[](panel /\ net = m) => <>[]Shown(m)
=============================================================================
