---------------------------- MODULE DeviceScan_proofs ----------------------------
(***************************************************************************)
(* Theorems about DeviceScan, for every number of scan threads, every set   *)
(* of networks and every number of openings.                                *)
(***************************************************************************)
EXTENDS DeviceScan, TLAPS, WellFoundedInduction

-----------------------------------------------------------------------------
(* Merging a device *)

\* A set of indices that is not empty has a first one.
LEMMA FirstIndex ==
  ASSUME NEW S, S \subseteq Nat, S # {}
  PROVE  \E i \in S : \A j \in S : i <= j
<1>1. \E i \in S : \A j \in S : ~(<<j, i>> \in OpToRel(<, Nat))
  BY NatLessThanWellFounded, WFMin
<1>2. PICK i \in S : \A j \in S : ~(<<j, i>> \in OpToRel(<, Nat))
  BY <1>1
<1>3. ASSUME NEW j \in S PROVE i <= j
  <2>1. <<j, i>> \in Nat \X Nat /\ ~(<<j, i>> \in OpToRel(<, Nat))
    BY <1>2
  <2>2. ~(j < i)
    BY <2>1 DEF OpToRel
  <2>3. i \in Nat /\ j \in Nat
    OBVIOUS
  <2> QED
    BY <2>2, <2>3
<1> QED
  BY <1>3

\* A merge replaces one entry, of the same device, or appends one where there is none.
LEMMA MergeFacts ==
  ASSUME NEW l \in Seq(Entry), NEW d \in Entry
  PROVE  \/ /\ Merged(l, d) = Append(l, d)
            /\ \A i \in DOMAIN l : ~Same(d, l[i])
         \/ \E k \in DOMAIN l : Merged(l, d) = [l EXCEPT ![k] = d] /\ Same(d, l[k])
<1> DEFINE match == {i \in DOMAIN l : Same(d, l[i])}
           first == CHOOSE i \in match : \A j \in match : i <= j
<1>1. CASE match = {}
  <2>1. Merged(l, d) = Append(l, d)
    BY <1>1 DEF Merged
  <2> QED
    BY <1>1, <2>1
<1>2. CASE match # {}
  <2>1. match \subseteq Nat
    OBVIOUS
  <2>2. first \in match
    BY <1>2, <2>1, FirstIndex
  <2>3. Merged(l, d) = [l EXCEPT ![first] = d]
    BY <1>2 DEF Merged
  <2> QED
    BY <2>2, <2>3
<1> QED
  BY <1>1, <1>2

LEMMA MergeType ==
  ASSUME NEW l \in Seq(Entry), NEW d \in Entry
  PROVE  Merged(l, d) \in Seq(Entry)
<1>1. CASE Merged(l, d) = Append(l, d)
  BY <1>1
<1>2. ASSUME NEW k \in DOMAIN l, Merged(l, d) = [l EXCEPT ![k] = d]
      PROVE  Merged(l, d) \in Seq(Entry)
  BY <1>2
<1> QED
  BY <1>1, <1>2, MergeFacts

\* What a merge leaves in the list was there before, or is the device.
LEMMA MergeEntries ==
  ASSUME NEW l \in Seq(Entry), NEW d \in Entry, NEW i \in DOMAIN Merged(l, d)
  PROVE  Merged(l, d)[i] = d \/ \E j \in DOMAIN l : Merged(l, d)[i] = l[j]
<1>1. CASE Merged(l, d) = Append(l, d)
  BY <1>1
<1>2. ASSUME NEW k \in DOMAIN l, Merged(l, d) = [l EXCEPT ![k] = d]
      PROVE  Merged(l, d)[i] = d \/ \E j \in DOMAIN l : Merged(l, d)[i] = l[j]
  BY <1>2
<1> QED
  BY <1>1, <1>2, MergeFacts

OneEntryIn(l) == \A i, j \in DOMAIN l : i # j /\ l[i].id = l[j].id => l[i].id = NoId

\* A merge adds no second entry of an identity.
LEMMA MergeOne ==
  ASSUME NEW l \in Seq(Entry), NEW d \in Entry, OneEntryIn(l)
  PROVE  OneEntryIn(Merged(l, d))
<1> DEFINE m == Merged(l, d)
<1> SUFFICES ASSUME NEW i \in DOMAIN m, NEW j \in DOMAIN m, i # j, m[i].id = m[j].id
             PROVE  m[i].id = NoId
  BY DEF OneEntryIn
<1>1. CASE m = Append(l, d) /\ \A k \in DOMAIN l : ~Same(d, l[k])
  <2>1. \A k \in DOMAIN m : (k \in DOMAIN l /\ m[k] = l[k]) \/ (k = Len(l) + 1 /\ m[k] = d)
    <3>1. /\ DOMAIN Append(l, d) = 1..(Len(l) + 1) /\ DOMAIN l = 1..Len(l) /\ Len(l) \in Nat
          /\ \A k \in 1..Len(l) : Append(l, d)[k] = l[k]
          /\ Append(l, d)[Len(l) + 1] = d
      OBVIOUS
    <3>2. \A k \in 1..(Len(l) + 1) : k \in 1..Len(l) \/ k = Len(l) + 1
      BY <3>1
    <3>3. DOMAIN m = 1..(Len(l) + 1)
      BY <1>1, <3>1
    <3>4. \A k \in 1..Len(l) : m[k] = l[k]
      BY <1>1, <3>1
    <3>5. m[Len(l) + 1] = d
      BY <1>1, <3>1
    <3> HIDE DEF m
    <3> SUFFICES ASSUME NEW k \in 1..(Len(l) + 1)
                 PROVE  (k \in DOMAIN l /\ m[k] = l[k]) \/ (k = Len(l) + 1 /\ m[k] = d)
      BY <3>3
    <3> QED
      BY <3>1, <3>2, <3>3, <3>4, <3>5
  <2>2. \A k \in DOMAIN l : d.id # NoId => l[k].id # d.id
    BY <1>1 DEF Same
  <2> QED
    BY <2>1, <2>2 DEF OneEntryIn
<1>2. ASSUME NEW k \in DOMAIN l, m = [l EXCEPT ![k] = d] /\ Same(d, l[k])
      PROVE  m[i].id = NoId
  <2>1. DOMAIN m = DOMAIN l /\ m[k] = d /\ \A n \in DOMAIN l : n # k => m[n] = l[n]
    BY <1>2
  <2>2. d.id # NoId => l[k].id = d.id
    BY <1>2 DEF Same
  <2>3. CASE i = k
    BY <2>1, <2>2, <2>3 DEF OneEntryIn
  <2>4. CASE j = k
    BY <2>1, <2>2, <2>4 DEF OneEntryIn
  <2>5. CASE i # k /\ j # k
    BY <2>1, <2>5 DEF OneEntryIn
  <2> QED
    BY <2>3, <2>4, <2>5
<1> QED
  BY <1>1, <1>2, MergeFacts

-----------------------------------------------------------------------------
(* Types *)

\* What is stored as the verdict is one.
VerdictReady == \A p \in Scanner : At(p, "store") => outcome[p] \in Healths

Typed == TypeOK /\ VerdictReady

LEMMA GenFacts ==
  /\ MaxGen \in Nat /\ Unguarded \in 0..Unguarded /\ Unguarded \notin 0..MaxGen
  /\ \A g \in 0..MaxGen : g \in 0..Unguarded /\ (g < MaxGen => g + 1 \in 0..MaxGen)
  BY ScanAssumption DEF Unguarded

LEMMA InitType == Init => Typed
<1> SUFFICES ASSUME Init PROVE Typed
  OBVIOUS
<1>1. 0 \in 0..MaxGen /\ 0 \in 0..CmdCap /\ 0 \in 0..Failures
  BY ScanAssumption
<1>2. "off" \in Stages /\ "none" \in Outcomes /\ "unknown" \in Healths
  BY DEF Stages, Outcomes, Healths
<1>3. list \in Seq(Entry)
  BY DEF Init
<1>4. VerdictReady
  BY DEF Init, VerdictReady, At
<1> QED
  BY <1>1, <1>2, <1>3, <1>4, GenFacts DEF Init, Typed, TypeOK

LEMMA OfferFact == TypeOK /\ OfferScan => scans' \in 0..CmdCap
  BY ScanAssumption DEF TypeOK, OfferScan

LEMMA EditorType ==
  ASSUME Typed, OpenPanel \/ ClearList \/ Rescan \/ ClosePanel
  PROVE  Typed'
<1> USE DEF Typed, TypeOK, VerdictReady, At, scanVars, shared
<1>1. CASE OpenPanel
  <2>1. gen' \in 0..MaxGen
    BY <1>1, GenFacts DEF OpenPanel
  <2> QED
    BY <1>1, <2>1 DEF OpenPanel
<1>2. CASE ClearList
  <2>1. scans' \in 0..CmdCap
    BY <1>2, OfferFact DEF ClearList
  <2>2. list' \in Seq(Entry)
    BY <1>2 DEF ClearList
  <2> QED
    BY <1>2, <2>1, <2>2 DEF ClearList
<1>3. CASE Rescan
  <2>1. scans' \in 0..CmdCap
    BY <1>3, OfferFact DEF Rescan
  <2> QED
    BY <1>3, <2>1 DEF Rescan, editorVars
<1>4. CASE ClosePanel
  BY <1>4 DEF ClosePanel
<1> QED
  BY <1>1, <1>2, <1>3, <1>4

LEMMA WorkerType ==
  ASSUME Typed, (\E t \in Thread : StartScan(t)) \/ DropScan \/ Discover \/ Change
  PROVE  Typed'
<1> USE DEF Typed, TypeOK, VerdictReady, At, Scanner
<1>1. ASSUME scans > 0, scans' = scans - 1 PROVE scans' \in 0..CmdCap
  BY <1>1, ScanAssumption
<1>2. ASSUME NEW p \in Scanner, stage' = [stage EXCEPT ![p] = "scan"]
      PROVE  /\ stage' \in [Scanner -> Stages]
             /\ \A q \in Scanner : stage'[q] = "store" => stage[q] = "store"
  BY <1>2 DEF Stages
<1>3. ASSUME NEW t \in Thread, StartScan(t) PROVE Typed'
  <2>1. mine' \in [Scanner -> 0..Unguarded]
    BY <1>3, GenFacts DEF StartScan
  <2>2. scans' \in 0..CmdCap
    BY <1>1, <1>3 DEF StartScan
  <2> QED
    BY <1>2, <1>3, <2>1, <2>2 DEF StartScan, editorVars, shared
<1>4. CASE DropScan
  <2>1. scans' \in 0..CmdCap
    BY <1>1, <1>4 DEF DropScan
  <2> QED
    BY <1>4, <2>1 DEF DropScan, editorVars, scanVars, shared
<1>5. CASE Discover
  BY <1>2, <1>5 DEF Discover, editorVars, shared
<1>6. CASE Change
  BY <1>6 DEF Change, editorVars, scanVars, shared
<1> QED
  BY <1>3, <1>4, <1>5, <1>6

\* A scanner that is done has nothing to store.
LEMMA RestType ==
  ASSUME Typed, NEW p \in Scanner, Rest(p)
  PROVE  /\ stage' \in [Scanner -> Stages] /\ mine' \in [Scanner -> 0..Unguarded]
         /\ todo' \in [Scanner -> SUBSET Reply] /\ outcome' \in [Scanner -> Outcomes]
         /\ discovering' \in BOOLEAN
         /\ VerdictReady'
<1> USE DEF Typed, TypeOK, Rest, To
<1>1. stage' \in [Scanner -> Stages] /\ outcome' \in [Scanner -> Outcomes]
  BY DEF Stages, Outcomes
<1>2. mine' \in [Scanner -> 0..Unguarded]
  BY GenFacts
<1>3. VerdictReady'
  BY DEF VerdictReady, At
<1> QED
  BY <1>1, <1>2, <1>3

\* A scanner's device is an entry, with the generation of its scan.
LEMMA EntryFact ==
  ASSUME TypeOK, NEW p \in Scanner, NEW e \in todo[p]
  PROVE  [id |-> e.id, ip |-> e.ip, gen |-> mine[p]] \in Entry
<1>1. e \in Reply /\ mine[p] \in 0..Unguarded
  BY DEF TypeOK
<1>2. [id |-> e.id, ip |-> e.ip] \in Device
  BY <1>1 DEF Device
<1>3. e.id \in {d.id : d \in Device} /\ e.ip \in {d.ip : d \in Device}
  BY <1>2
<1> QED
  BY <1>1, <1>3 DEF Entry

LEMMA RecordType == Typed /\ (\E p \in Scanner : Record(p)) => Typed'
<1> SUFFICES ASSUME Typed, NEW p \in Scanner, Record(p) PROVE Typed'
  OBVIOUS
<1> USE DEF Typed, TypeOK
<1>1. ASSUME NEW s \in Stages, To(p, s), s # "store"
      PROVE  /\ stage' \in [Scanner -> Stages]
             /\ \A q \in Scanner : At(q, "store")' => At(q, "store") /\ q # p
  BY <1>1 DEF To, At
<1>2. CASE Collect(p)
  <2>1. Found(net) \in SUBSET Reply
    BY DEF Found, Primary, ByIp, Audible, Reply
  <2>2. todo' \in [Scanner -> SUBSET Reply]
    BY <1>2, <2>1 DEF Collect
  <2>3. /\ outcome' \in [Scanner -> Outcomes]
        /\ \A q \in Scanner : q # p => outcome'[q] = outcome[q]
    BY <1>2 DEF Collect, Outcomes
  <2>4. To(p, "lock") /\ "lock" \in Stages
    BY <1>2 DEF Collect, Stages
  <2> QED
    BY <1>1, <1>2, <2>2, <2>3, <2>4 DEF Collect, editorVars, shared, VerdictReady
<1>3. CASE Lock(p)
  <2>1. CASE Rest(p)
    BY <1>3, <2>1, RestType DEF Lock, editorVars, shared
  <2>2. CASE MergeNext(p, todo[p]) /\ UNCHANGED <<mine, todo, outcome, discovering>>
    <3>1. To(p, "count") \/ To(p, "merge")
      BY <2>2 DEF MergeNext
    <3>2. "count" \in Stages /\ "merge" \in Stages
      BY DEF Stages
    <3> QED
      BY <1>1, <1>3, <2>2, <3>1, <3>2 DEF Lock, editorVars, shared, VerdictReady
  <2> QED
    BY <1>3, <2>1, <2>2 DEF Lock
<1>4. CASE Merge(p)
  <2>1. list' \in Seq(Entry) /\ todo' \in [Scanner -> SUBSET Reply]
    BY <1>4, EntryFact, MergeType DEF Merge
  <2>2. To(p, "count") \/ To(p, "merge")
    BY <1>4 DEF Merge, MergeNext
  <2>3. "count" \in Stages /\ "merge" \in Stages
    BY DEF Stages
  <2> QED
    BY <1>1, <1>4, <2>1, <2>2, <2>3 DEF Merge, editorVars, VerdictReady
<1>5. CASE Count(p)
  <2>1. empty' \in 0..Failures
    BY <1>5, ScanAssumption DEF Count
  <2>2. Verdict(p, empty') \in Healths \cup {"hold"}
    BY DEF Verdict, Healths
  <2>3. outcome' = [outcome EXCEPT ![p] = Verdict(p, empty')]
    BY <1>5 DEF Count
  <2>4. outcome' \in [Scanner -> Outcomes]
    BY <2>2, <2>3 DEF Outcomes
  <2>5. stage' \in [Scanner -> Stages]
    BY <1>5 DEF Count, To, Stages
  <2>6. \A q \in Scanner : At(q, "store")' => (q # p /\ At(q, "store")) \/ Verdict(p, empty') # "hold"
    BY <1>5 DEF Count, To, At
  <2>7. VerdictReady'
    <3> SUFFICES ASSUME NEW q \in Scanner, At(q, "store")' PROVE outcome'[q] \in Healths
      BY DEF VerdictReady
    <3>1. CASE q = p
      BY <2>2, <2>3, <2>6, <3>1
    <3>2. CASE q # p
      <4>1. At(q, "store")
        BY <1>5, <3>2 DEF Count, To, At
      <4> QED
        BY <2>3, <3>2, <4>1 DEF VerdictReady
    <3> QED
      BY <3>1, <3>2
  <2> QED
    BY <1>5, <2>1, <2>4, <2>5, <2>7 DEF Count, editorVars
<1>6. CASE Load(p)
  <2>1. outcome' = [outcome EXCEPT ![p] = health] /\ stage' = [stage EXCEPT ![p] = "store"]
    BY <1>6 DEF Load, To
  <2>2. outcome' \in [Scanner -> Outcomes] /\ stage' \in [Scanner -> Stages]
    BY <2>1 DEF Outcomes, Stages
  <2>3. VerdictReady'
    BY <2>1 DEF VerdictReady, At
  <2> QED
    BY <1>6, <2>2, <2>3 DEF Load, editorVars, shared
<1>7. CASE Store(p)
  <2>1. health' \in Healths /\ Rest(p)
    BY <1>7 DEF Store, VerdictReady
  <2> QED
    BY <1>7, <2>1, RestType DEF Store, editorVars
<1> QED
  BY <1>2, <1>3, <1>4, <1>5, <1>6, <1>7 DEF Record

LEMMA StepType == Typed /\ [Next]_vars => Typed'
<1> SUFFICES ASSUME Typed, [Next]_vars PROVE Typed'
  OBVIOUS
<1>1. CASE UNCHANGED vars
  BY <1>1 DEF Typed, TypeOK, VerdictReady, At, vars, editorVars, scanVars, shared
<1> QED
  BY <1>1, EditorType, WorkerType, RecordType DEF Next

\* Every variable holds what the code's field of that name can hold.
THEOREM TypeCorrect == Spec => []TypeOK
<1>1. Typed => TypeOK
  BY DEF Typed
<1> QED
  BY InitType, StepType, <1>1, PTL DEF Spec, Safety

-----------------------------------------------------------------------------
(* The list *)

\* The worker scans for no generation; whoever has passed the check of the generation
\* is at that generation still, or the list is about to be cleared.
MergesCurrent ==
  /\ mine[Worker] = Unguarded
  /\ ~opening => \A p \in Scanner : At(p, "merge") => mine[p] \in {gen, Unguarded}

IInv == Typed /\ MergesCurrent /\ StaleStaysGone /\ OneEntryPerConsole

LEMMA InitInv == Init => IInv
<1> SUFFICES ASSUME Init PROVE IInv
  OBVIOUS
<1>1. MergesCurrent
  BY DEF Init, MergesCurrent, At, Scanner
<1>2. StaleStaysGone /\ OneEntryPerConsole
  BY DEF Init, StaleStaysGone, OneEntryPerConsole
<1> QED
  BY <1>1, <1>2, InitType DEF IInv

\* Entries come and go only in a merge and with the opening of the panel.
LEMMA ListKept ==
  ASSUME IInv, UNCHANGED <<list, gen>>, opening' = opening
  PROVE  StaleStaysGone' /\ OneEntryPerConsole'
  BY DEF IInv, StaleStaysGone, OneEntryPerConsole

LEMMA EditorInv ==
  ASSUME IInv, OpenPanel \/ ClearList \/ Rescan \/ ClosePanel
  PROVE  MergesCurrent' /\ StaleStaysGone' /\ OneEntryPerConsole'
<1>1. CASE OpenPanel
  BY <1>1 DEF OpenPanel, IInv, MergesCurrent, StaleStaysGone, OneEntryPerConsole, scanVars, shared
<1>2. CASE ClearList
  <2>1. list' = <<>>
    BY <1>2 DEF ClearList
  <2>2. StaleStaysGone' /\ OneEntryPerConsole'
    BY <2>1 DEF StaleStaysGone, OneEntryPerConsole
  <2>3. MergesCurrent'
    BY <1>2 DEF ClearList, Unlocked, IInv, MergesCurrent, At, scanVars
  <2> QED
    BY <2>2, <2>3
<1>3. CASE Rescan \/ ClosePanel
  <2>1. UNCHANGED <<list, gen, opening, stage, mine>>
    BY <1>3 DEF Rescan, ClosePanel, editorVars, scanVars, shared
  <2> QED
    BY <2>1, ListKept DEF IInv, MergesCurrent, At
<1> QED
  BY <1>1, <1>2, <1>3

LEMMA WorkerInv ==
  ASSUME IInv, (\E t \in Thread : StartScan(t)) \/ DropScan \/ Discover \/ Change
  PROVE  MergesCurrent' /\ StaleStaysGone' /\ OneEntryPerConsole'
<1>1. UNCHANGED <<list, gen, opening>>
  BY DEF StartScan, DropScan, Discover, Change, editorVars, shared
<1>2. ASSUME NEW t \in Thread, StartScan(t) PROVE MergesCurrent'
  BY <1>2, ScanAssumption
  DEF StartScan, editorVars, IInv, Typed, TypeOK, MergesCurrent, At, Scanner
<1>3. CASE DropScan \/ Change
  <2>1. UNCHANGED <<stage, mine>>
    BY <1>3 DEF DropScan, Change, scanVars
  <2> QED
    BY <1>1, <2>1, ListKept DEF IInv, MergesCurrent, At
<1>4. CASE Discover
  <2>1. stage' = [stage EXCEPT ![Worker] = "scan"] /\ mine' = mine
    BY <1>4 DEF Discover
  <2>2. \A p \in Scanner : stage'[p] = "merge" => stage[p] = "merge"
    BY <2>1 DEF IInv, Typed, TypeOK
  <2> QED
    BY <1>1, <2>1, <2>2, ListKept DEF IInv, MergesCurrent, At
<1> QED
  BY <1>1, <1>2, <1>3, <1>4, ListKept

\* A scanner other than one that passes the check, or merges, changes no entry.
LEMMA RecordInv ==
  IInv /\ (\E p \in Scanner : Record(p)) => MergesCurrent' /\ StaleStaysGone' /\ OneEntryPerConsole'
<1> SUFFICES ASSUME IInv, NEW p \in Scanner, Record(p)
             PROVE  MergesCurrent' /\ StaleStaysGone' /\ OneEntryPerConsole'
  OBVIOUS
<1>1. UNCHANGED <<gen, opening>>
  BY DEF Record, Collect, Lock, Merge, Count, Load, Store, editorVars
<1>2. Worker \in Scanner
  BY DEF Scanner
<1>3. ASSUME Rest(p) PROVE MergesCurrent'
  BY <1>1, <1>2, <1>3 DEF Rest, To, At, IInv, Typed, TypeOK, MergesCurrent
<1>4. ASSUME NEW s, s # "merge", To(p, s), mine' = mine PROVE MergesCurrent'
  BY <1>1, <1>4 DEF To, At, IInv, Typed, TypeOK, MergesCurrent
<1>5. CASE Collect(p)
  BY <1>1, <1>4, <1>5, ListKept DEF Collect, shared
<1>6. CASE Lock(p)
  <2>1. list' = list
    BY <1>6 DEF Lock, shared
  <2>2. CASE Current(p) /\ MergeNext(p, todo[p]) /\ mine' = mine
    <3>1. mine[p] \in {gen, Unguarded}
      BY <2>2 DEF Current, IInv, MergesCurrent
    <3>2. \E s : To(p, s)
      BY <2>2 DEF MergeNext
    <3>3. MergesCurrent'
      BY <1>1, <2>2, <3>1, <3>2 DEF To, At, IInv, Typed, TypeOK, MergesCurrent
    <3> QED
      BY <1>1, <2>1, <3>3, ListKept
  <2>3. CASE Rest(p)
    BY <1>1, <1>3, <2>1, <2>3, ListKept
  <2> QED
    BY <1>6, <2>2, <2>3 DEF Lock
<1>7. CASE Merge(p)
  <2>1. mine' = mine /\ At(p, "merge") /\ \E s : To(p, s)
    BY <1>7 DEF Merge, MergeNext
  <2>2. MergesCurrent'
    BY <1>1, <2>1 DEF To, At, IInv, Typed, TypeOK, MergesCurrent
  <2>3. PICK e \in todo[p] : list' = Merged(list, [id |-> e.id, ip |-> e.ip, gen |-> mine[p]])
    BY <1>7 DEF Merge
  <2> DEFINE d == [id |-> e.id, ip |-> e.ip, gen |-> mine[p]]
  <2>4. d \in Entry /\ d.gen = mine[p]
    BY EntryFact DEF IInv, Typed
  <2>5. list \in Seq(Entry)
    BY DEF IInv, Typed, TypeOK
  <2> HIDE DEF d
  <2>6. list' = Merged(list, d)
    BY <2>3 DEF d
  <2>7. StaleStaysGone'
    <3> SUFFICES ASSUME ~opening, NEW i \in DOMAIN list' PROVE list'[i].gen \in {gen, Unguarded}
      BY <1>1 DEF StaleStaysGone
    <3>1. list'[i] = d \/ \E j \in DOMAIN list : list'[i] = list[j]
      BY <2>4, <2>5, <2>6, MergeEntries
    <3>2. mine[p] \in {gen, Unguarded}
      BY <2>1 DEF IInv, MergesCurrent
    <3> QED
      BY <2>4, <3>1, <3>2 DEF IInv, StaleStaysGone
  <2>8. OneEntryPerConsole'
    <3>1. OneEntryIn(list)
      BY DEF IInv, OneEntryPerConsole, OneEntryIn
    <3>2. OneEntryIn(Merged(list, d))
      BY <2>4, <2>5, <3>1, MergeOne
    <3> QED
      BY <2>6, <3>2 DEF OneEntryPerConsole, OneEntryIn
  <2> QED
    BY <2>2, <2>7, <2>8
<1>8. CASE Count(p)
  <2>1. list' = list /\ mine' = mine
    BY <1>8 DEF Count
  <2>2. To(p, "load") \/ To(p, "store")
    BY <1>8 DEF Count
  <2> QED
    BY <1>1, <1>4, <2>1, <2>2, ListKept
<1>9. CASE Load(p)
  BY <1>1, <1>4, <1>9, ListKept DEF Load, shared
<1>10. CASE Store(p)
  BY <1>1, <1>3, <1>10, ListKept DEF Store
<1> QED
  BY <1>5, <1>6, <1>7, <1>8, <1>9, <1>10 DEF Record

LEMMA StepInv == IInv /\ [Next]_vars => IInv'
<1> SUFFICES ASSUME IInv, [Next]_vars PROVE IInv'
  OBVIOUS
<1>1. Typed'
  BY StepType DEF IInv
<1>2. CASE UNCHANGED vars
  <2>1. UNCHANGED <<list, gen, opening, stage, mine>>
    BY <1>2 DEF vars, editorVars, scanVars, shared
  <2> QED
    BY <1>1, <2>1, ListKept DEF IInv, MergesCurrent, At
<1> QED
  BY <1>1, <1>2, EditorInv, WorkerInv, RecordInv DEF IInv, Next

\* IInv holds in every reachable state.
THEOREM Invariant == Spec => []IInv
  BY InitInv, StepInv, PTL DEF Spec, Safety

\* A scan of an older opening of the panel never brings its devices back into the list.
THEOREM StaleIsDropped == Spec => []StaleStaysGone
<1>1. IInv => StaleStaysGone
  BY DEF IInv
<1> QED
  BY Invariant, <1>1, PTL

\* A console that says who it is has one entry, wherever and however often it is found.
THEOREM ConsolesAreListedOnce == Spec => []OneEntryPerConsole
<1>1. IInv => OneEntryPerConsole
  BY DEF IInv
<1> QED
  BY Invariant, <1>1, PTL
=============================================================================
