----------------------------- MODULE SlotSync_proofs -----------------------------
(***************************************************************************)
(* Theorems about SlotSync, for every number of slots, every set of racks   *)
(* and settings, and every capacity of the command channel.                 *)
(***************************************************************************)
EXTENDS SlotSync, FiniteSetTheorems, SequenceTheorems, TLAPS

-----------------------------------------------------------------------------
(* The channel *)

LEMMA ChosenFacts ==
  ASSUME TypeOK
  PROVE  /\ Chosen \subseteq Slot
         /\ IsFiniteSet(Chosen) /\ Cardinality(Chosen) \in Nat
<1>1. set.slot \in Slot
  BY SyncAssumption DEF TypeOK
<1>2. Chosen \subseteq Slot
  BY <1>1 DEF Chosen, Admitted, Selection, TypeOK
<1>3. IsFiniteSet(Slot)
  BY SyncAssumption, FS_Interval DEF Slot
<1> QED
  BY <1>2, <1>3, FS_Subset, FS_CardinalityType

\* Every slot that is chosen is offered, and no other.
LEMMA OfferedFacts ==
  ASSUME TypeOK, NEW hard \in BOOLEAN
  PROVE  /\ Len(Offered(hard)) \in Nat
         /\ \A n \in 1..Len(Offered(hard)) : Offered(hard)[n] \subseteq Chosen
         /\ \A s \in Chosen : \E n \in 1..Len(Offered(hard)) : s \in Offered(hard)[n]
<1>1. CASE hard
  BY <1>1 DEF Offered
<1>2. CASE ~hard
  <2> DEFINE size == Cardinality(Chosen)
  <2>1. size \in Nat
    BY ChosenFacts
  <2>2. Offered(hard) = [n \in 1..size |-> Turn(n)]
    BY <1>2 DEF Offered
  <2> HIDE DEF size
  <2>3. Len(Offered(hard)) = size /\ \A n \in 1..size : Offered(hard)[n] = Turn(n)
    BY <2>1, <2>2
  <2>4. ASSUME NEW s \in Chosen PROVE \E n \in 1..size : s \in Turn(n)
    <3> DEFINE before == {r \in Chosen : r <= s}
    <3>1. IsFiniteSet(before) /\ Cardinality(before) <= size
      BY ChosenFacts, FS_Subset DEF size
    <3>2. s \in before
      BY ChosenFacts DEF Slot
    <3>3. Cardinality(before) \in Nat /\ Cardinality(before) # 0
      BY <3>1, <3>2, FS_CardinalityType, FS_EmptySet
    <3>4. Cardinality(before) \in 1..size
      BY <2>1, <3>1, <3>3
    <3>5. s \in Turn(Cardinality(before))
      BY DEF Turn
    <3> QED
      BY <3>4, <3>5
  <2>5. \A n \in 1..size : Turn(n) \subseteq Chosen
    BY DEF Turn
  <2> QED
    BY <2>1, <2>3, <2>4, <2>5
<1> QED
  BY <1>1, <1>2

\* A command that went out for some of the slots that are chosen.
IsFresh(c, hard) ==
  c \in Command /\ c.now /\ c.hard = hard /\ c.slots \subseteq Chosen

\* Dispatching puts fresh commands behind those in the channel, for every slot that is
\* chosen unless some are lost.
LEMMA DispatchFacts ==
  ASSUME TypeOK, NEW queue \in Seq(Command), Len(queue) <= CmdCap, NEW hard \in BOOLEAN,
         Dispatch(queue, hard)
  PROVE  /\ cmdq' \in Seq(Command) /\ Len(cmdq') <= CmdCap /\ Len(queue) <= Len(cmdq')
         /\ \A i \in 1..Len(queue) : cmdq'[i] = queue[i]
         /\ \A i \in 1..Len(cmdq') : i > Len(queue) => IsFresh(cmdq'[i], hard)
         /\ ~lost' => \A s \in Chosen :
              \E i \in 1..Len(cmdq') : cmdq'[i].now /\ s \in cmdq'[i].slots
         /\ lost' \in BOOLEAN
<1> DEFINE offered == Offered(hard)
           taken == Taken(CmdCap - Len(queue), hard)
           sent == [n \in 1..taken |-> Fresh(hard, offered[n])]
<1>1. /\ Len(offered) \in Nat
      /\ \A n \in 1..Len(offered) : offered[n] \subseteq Chosen
      /\ \A s \in Chosen : \E n \in 1..Len(offered) : s \in offered[n]
  BY OfferedFacts
<1>2. /\ taken \in Nat /\ taken <= Len(offered) /\ taken + Len(queue) <= CmdCap
      /\ taken < Len(offered) \/ taken = Len(offered)
  BY <1>1, SyncAssumption DEF Taken
<1>3. cmdq' = queue \o sent /\ lost' = (taken < Len(offered))
  BY DEF Dispatch
<1>4. ASSUME NEW slots, slots \subseteq Chosen
      PROVE  IsFresh(Fresh(hard, slots), hard) /\ Fresh(hard, slots).slots = slots
  BY <1>4, ChosenFacts DEF IsFresh, Fresh, Command
<1>5. \A n \in 1..taken : IsFresh(Fresh(hard, offered[n]), hard)
                          /\ Fresh(hard, offered[n]).slots = offered[n]
  BY <1>1, <1>2, <1>4
<1> HIDE DEF offered, taken
<1>6. \A n \in 1..taken : Fresh(hard, offered[n]) \in Command
  BY <1>5 DEF IsFresh
<1>7. /\ sent \in Seq(Command) /\ Len(sent) = taken
      /\ \A n \in 1..taken : sent[n] = Fresh(hard, offered[n])
  BY <1>2, <1>6
<1> HIDE DEF sent
<1>8. /\ cmdq' \in Seq(Command) /\ Len(cmdq') = Len(queue) + taken
      /\ \A i \in 1..(Len(queue) + taken) :
           cmdq'[i] = IF i <= Len(queue) THEN queue[i] ELSE sent[i - Len(queue)]
  BY <1>3, <1>7, ConcatProperties
<1>9. Len(queue) \in Nat
  OBVIOUS
<1>10. ASSUME NEW n \in 1..taken
       PROVE  /\ n + Len(queue) \in 1..Len(cmdq')
              /\ cmdq'[n + Len(queue)] = Fresh(hard, offered[n])
  <2>1. /\ n + Len(queue) \in 1..(Len(queue) + taken)
        /\ ~(n + Len(queue) <= Len(queue)) /\ (n + Len(queue)) - Len(queue) = n
    BY <1>2, <1>9
  <2> QED
    BY <1>7, <1>8, <2>1
<1>11. ASSUME NEW i \in 1..Len(cmdq'), i > Len(queue) PROVE IsFresh(cmdq'[i], hard)
  <2>1. i - Len(queue) \in 1..taken /\ cmdq'[i] = sent[i - Len(queue)]
    BY <1>2, <1>8, <1>9, <1>11
  <2> QED
    BY <1>5, <1>7, <2>1
<1>12. ASSUME ~lost', NEW s \in Chosen
       PROVE  \E i \in 1..Len(cmdq') : cmdq'[i].now /\ s \in cmdq'[i].slots
  <2>1. taken = Len(offered)
    BY <1>2, <1>3, <1>12
  <2>2. PICK n \in 1..taken : s \in offered[n]
    BY <1>1, <2>1
  <2>3. cmdq'[n + Len(queue)].now /\ s \in cmdq'[n + Len(queue)].slots
    BY <1>5, <1>10, <2>2 DEF IsFresh
  <2> QED
    BY <1>10, <2>2, <2>3
<1>13. \A i \in 1..Len(queue) : cmdq'[i] = queue[i]
  BY <1>2, <1>8, <1>9
<1>14. Len(cmdq') <= CmdCap /\ Len(queue) <= Len(cmdq') /\ lost' \in BOOLEAN
  BY <1>2, <1>3, <1>8, <1>9
<1> QED
  BY <1>8, <1>11, <1>12, <1>13, <1>14

LEMMA TakeFacts ==
  ASSUME TypeOK, NEW hard, Take(hard)
  PROVE  /\ wpc = "idle" /\ Len(cmdq) > 0
         /\ Head(cmdq) = cmdq[1] /\ cmdq[1] \in Command /\ cmdq[1].hard = hard
         /\ cmdq' \in Seq(Command) /\ Len(cmdq') <= CmdCap
         /\ \A i \in 1..Len(cmdq') : i + 1 \in 1..Len(cmdq) /\ cmdq'[i] = cmdq[i + 1]
         /\ \A i \in 1..Len(cmdq) : i = 1 \/ (i - 1 \in 1..Len(cmdq') /\ cmdq'[i - 1] = cmdq[i])
<1>1. cmdq \in Seq(Command) /\ cmdq # <<>> /\ cmdq' = Tail(cmdq) /\ Len(cmdq) <= CmdCap
  BY DEF Take, TypeOK
<1>2. /\ Len(cmdq) \in Nat /\ Len(cmdq) > 0 /\ Len(Tail(cmdq)) = Len(cmdq) - 1
      /\ Head(cmdq) = cmdq[1] /\ Head(cmdq) \in Command /\ Tail(cmdq) \in Seq(Command)
      /\ \A i \in 1..Len(Tail(cmdq)) : Tail(cmdq)[i] = cmdq[i + 1]
  BY <1>1, HeadTailProperties, EmptySeq
<1>3. wpc = "idle" /\ Head(cmdq).hard = hard
  BY DEF Take
<1>4. CmdCap \in Nat
  BY SyncAssumption
<1>5. \A i \in 1..Len(cmdq') : i + 1 \in 1..Len(cmdq) /\ cmdq'[i] = cmdq[i + 1]
  BY <1>1, <1>2
<1>6. \A i \in 1..Len(cmdq) : i = 1 \/ (i - 1 \in 1..Len(cmdq') /\ cmdq'[i - 1] = cmdq[i])
  BY <1>1, <1>2
<1> QED
  BY <1>1, <1>2, <1>3, <1>4, <1>5, <1>6

\* The commands for a tempo that is no longer the last one.
LEMMA OutdatedFacts ==
  ASSUME TypeOK
  PROVE  /\ Outdated \in Seq(Command) /\ Len(Outdated) = Len(cmdq)
         /\ \A i \in 1..Len(cmdq) : ~Outdated[i].now /\ Outdated[i].slots = cmdq[i].slots
<1>1. cmdq \in Seq(Command) /\ DOMAIN cmdq = 1..Len(cmdq) /\ Len(cmdq) \in Nat
  BY DEF TypeOK
<1>2. \A i \in 1..Len(cmdq) : cmdq[i] \in Command
  BY <1>1
<1>3. \A c \in Command : /\ [c EXCEPT !.now = FALSE] \in Command
                        /\ ~[c EXCEPT !.now = FALSE].now
                        /\ [c EXCEPT !.now = FALSE].slots = c.slots
  BY DEF Command
<1>4. Outdated = [i \in 1..Len(cmdq) |-> [cmdq[i] EXCEPT !.now = FALSE]]
  BY <1>1 DEF Outdated
<1>5. \A i \in 1..Len(cmdq) : [cmdq[i] EXCEPT !.now = FALSE] \in Command
  BY <1>2, <1>3
<1>6. Outdated \in Seq(Command) /\ Len(Outdated) = Len(cmdq)
  BY <1>1, <1>4, <1>5
<1>7. \A i \in 1..Len(cmdq) : Outdated[i] = [cmdq[i] EXCEPT !.now = FALSE]
  BY <1>4
<1> QED
  BY <1>2, <1>3, <1>6, <1>7

-----------------------------------------------------------------------------
(* Packets *)

LEMMA ArriveFacts ==
  ASSUME TypeOK, NEW slots, slots \subseteq Slot, NEW got, Arrive(slots, got)
  PROVE  got \subseteq slots /\ link' \in BOOLEAN
  BY DEF Arrive, TypeOK

\* A delay time that arrives, at a slot whose type is known, is that of the command.
LEMMA SetTimesFacts ==
  ASSUME TypeOK, NEW c \in Command, NEW got, SetTimes(c, got)
  PROVE  /\ link' \in BOOLEAN /\ lost' \in BOOLEAN /\ timed' \subseteq Slot
         /\ timed' \ timed \subseteq c.slots
         /\ c.now => timed \subseteq timed'
         /\ ~c.now => timed' \subseteq timed
         /\ ~lost' => ~lost
         /\ ~lost' /\ c.now => \A s \in c.slots : fx[s] \in Delays => s \in timed'
<1>1. c.slots \subseteq Slot /\ c.now \in BOOLEAN
  BY DEF Command
<1>2. got \subseteq c.slots /\ link' \in BOOLEAN
  BY <1>1, ArriveFacts DEF SetTimes
<1>3. Reached(got) \subseteq got
  BY DEF Reached
<1>4. /\ c.now => timed' = timed \cup Reached(got)
      /\ ~c.now => timed' = timed \ Reached(got)
  BY DEF SetTimes
<1>5. lost' = (lost \/ \E s \in c.slots : s \notin got \/ types[s] # fx[s])
  BY DEF SetTimes
<1>6. ASSUME ~lost', c.now, NEW s \in c.slots, fx[s] \in Delays PROVE s \in timed'
  <2>1. s \in got /\ types[s] = fx[s]
    BY <1>5, <1>6
  <2>2. types[s] # Unknown
    BY <1>6, <2>1, SyncAssumption DEF Delays
  <2>3. TypeFor(s) = fx[s]
    BY <2>1, <2>2 DEF TypeFor
  <2> QED
    BY <1>4, <1>6, <2>1, <2>3 DEF Reached, HoldsTime
<1>7. lost' \in BOOLEAN /\ (~lost' => ~lost)
  BY <1>5 DEF TypeOK
<1>8. timed' \subseteq Slot /\ timed' \ timed \subseteq c.slots
  BY <1>1, <1>2, <1>3, <1>4 DEF TypeOK
<1> QED
  BY <1>2, <1>4, <1>6, <1>7, <1>8

LEMMA PhaseFacts ==
  /\ PhaseAfter("mute") = "set" /\ PhaseAfter("set") = "unmute" /\ PhaseAfter("unmute") = "idle"
  BY DEF PhaseAfter

-----------------------------------------------------------------------------
(* Types *)

LEMMA BatchFacts ==
  /\ NoBatch \in Command /\ ~NoBatch.now /\ NoBatch.slots = {}
  /\ \A c \in Command : /\ [c EXCEPT !.now = FALSE] \in Command
                        /\ ~[c EXCEPT !.now = FALSE].now
                        /\ [c EXCEPT !.now = FALSE].slots = c.slots
<1>1. NoBatch \in Command /\ ~NoBatch.now /\ NoBatch.slots = {}
  BY DEF NoBatch, Command
<1>2. ASSUME NEW c \in Command
      PROVE  /\ [c EXCEPT !.now = FALSE] \in Command
             /\ ~[c EXCEPT !.now = FALSE].now
             /\ [c EXCEPT !.now = FALSE].slots = c.slots
  BY DEF Command
<1> QED
  BY <1>1, <1>2

LEMMA SelectionFacts ==
  /\ NoSelection \in Selection /\ NoSelection.left = {} /\ NoSelection.slots = {}
  /\ NoSelection.mapped = {}
  BY DEF NoSelection, Selection

LEMMA InitType == Init => TypeOK
<1> SUFFICES ASSUME Init PROVE TypeOK
  OBVIOUS
<1>1. [hard |-> FALSE, slots |-> {}] \in [hard : BOOLEAN, slots : SUBSET Slot]
  OBVIOUS
<1>2. <<>> \in Seq(Command) /\ Len(<<>>) <= CmdCap
  BY SyncAssumption
<1>3. 0 \in 0..SlotCount
  BY SyncAssumption
<1> QED
  BY <1>1, <1>2, <1>3, BatchFacts, SelectionFacts DEF Init, TypeOK

\* The reads that come before the last one.
LEMMA SelectFacts ==
  ASSUME TypeOK, Select
  PROVE  /\ sel' \in Selection
         /\ sel'.left = mask /\ sel'.slots = {} /\ sel'.mapped = {s \in mask : s > stored}
  BY DEF Select, Selection, TypeOK

LEMMA LookFacts ==
  ASSUME TypeOK, NEW s \in Slot, Look(s)
  PROVE  /\ sel' \in Selection
         /\ s \in sel.left /\ sel'.left = sel.left \ {s} /\ sel'.left # {}
         /\ sel'.slots = sel.slots \cup Admitted({s}) /\ sel'.mapped = sel.mapped
<1>1. \A l, a \in SUBSET Slot : LET d == [sel EXCEPT !.left = l, !.slots = a] IN
        d \in Selection /\ d.left = l /\ d.slots = a /\ d.mapped = sel.mapped
  BY DEF TypeOK, Selection
<1>2. sel.left \ {s} \in SUBSET Slot /\ sel.slots \cup Admitted({s}) \in SUBSET Slot
  BY DEF TypeOK, Selection, Admitted
<1>3. sel' = [sel EXCEPT !.left = sel.left \ {s}, !.slots = sel.slots \cup Admitted({s})]
  BY DEF Look, TypeOK, Selection
<1>4. s \in sel.left /\ sel.left \ {s} # {}
  BY DEF Look
<1> DEFINE l == sel.left \ {s}
           a == sel.slots \cup Admitted({s})
<1>5. l \in SUBSET Slot /\ a \in SUBSET Slot /\ sel' = [sel EXCEPT !.left = l, !.slots = a] /\ l # {}
  BY <1>2, <1>3, <1>4
<1> HIDE DEF l, a
<1>6. sel' \in Selection /\ sel'.left = l /\ sel'.slots = a /\ sel'.mapped = sel.mapped
  BY <1>1, <1>5
<1> QED
  BY <1>4, <1>5, <1>6 DEF l, a

LEMMA AudioType ==
  ASSUME TypeOK, Select \/ (\E s \in Slot : Look(s)) \/ Unsettle \/ NewTempo \/ Resend \/ Change
  PROVE  TypeOK'
<1> USE DEF mapVars, audioVars, workerVars, consoleVars
<1>1. CASE Unsettle
  BY <1>1 DEF Unsettle, TypeOK
<1>2. ASSUME NEW queue \in Seq(Command), Len(queue) <= CmdCap, NEW hard \in BOOLEAN,
             Dispatch(queue, hard)
      PROVE  /\ cmdq' \in Seq(Command) /\ Len(cmdq') <= CmdCap /\ lost' \in BOOLEAN
             /\ last' \in [hard : BOOLEAN, slots : SUBSET Slot]
             /\ sel' \in Selection
             /\ UNCHANGED <<set, types, mask, stored, wpc, link, fx, muted, missed>>
  BY <1>2, DispatchFacts, ChosenFacts, SelectionFacts DEF Dispatch
<1>3. CASE NewTempo
  <2>1. set.hard \in BOOLEAN
    BY SyncAssumption DEF TypeOK
  <2>2. Outdated \in Seq(Command) /\ Len(Outdated) <= CmdCap
    BY OutdatedFacts DEF TypeOK
  <2>3. retry' \in BOOLEAN /\ timed' \subseteq Slot /\ batch' \in Command
    BY <1>3, BatchFacts DEF NewTempo, TypeOK
  <2> QED
    BY <1>2, <1>3, <2>1, <2>2, <2>3 DEF NewTempo, TypeOK
<1>4. CASE Resend
  <2>1. last.hard \in BOOLEAN /\ <<>> \in Seq(Command) /\ Len(<<>>) <= CmdCap
    BY SyncAssumption DEF TypeOK
  <2> QED
    BY <1>2, <1>4, <2>1 DEF Resend, TypeOK
<1>5. CASE Change
  BY <1>5 DEF Change, TypeOK
<1>6. CASE Select
  BY <1>6, SelectFacts DEF Select, TypeOK
<1>7. ASSUME NEW s \in Slot, Look(s) PROVE TypeOK'
  BY <1>7, LookFacts DEF Look, TypeOK
<1> QED
  BY <1>1, <1>3, <1>4, <1>5, <1>6, <1>7

LEMMA HandleType == TypeOK /\ Handle => TypeOK'
<1> SUFFICES ASSUME TypeOK, NEW got \in SUBSET Slot,
                    SyncNow(got) \/ MuteAll(got) \/ SetAll(got) \/ UnmuteAll(got)
             PROVE  TypeOK'
  BY DEF Handle
<1> USE DEF mapVars, audioVars
<1>1. batch \in Command /\ batch.slots \subseteq Slot
  BY DEF TypeOK, Command
<1>2. CASE SyncNow(got)
  <2>1. Head(cmdq) \in Command /\ cmdq' \in Seq(Command) /\ Len(cmdq') <= CmdCap
    BY <1>2, TakeFacts DEF SyncNow
  <2>2. link' \in BOOLEAN /\ lost' \in BOOLEAN /\ timed' \subseteq Slot
    BY <1>2, <2>1, SetTimesFacts DEF SyncNow
  <2> QED
    BY <1>2, <2>1, <2>2 DEF SyncNow, TypeOK
<1>3. CASE MuteAll(got)
  <2>1. Head(cmdq) \in Command /\ cmdq' \in Seq(Command) /\ Len(cmdq') <= CmdCap
    BY <1>3, TakeFacts DEF MuteAll
  <2>2. Head(cmdq).slots \subseteq Slot
    BY <2>1 DEF Command
  <2>3. link' \in BOOLEAN
    BY <1>3, <2>2, ArriveFacts DEF MuteAll
  <2>4. muted' \subseteq Slot /\ missed' \subseteq Slot /\ wpc' = "set" /\ batch' \in Command
    BY <1>3, <2>1, <2>2, PhaseFacts DEF MuteAll, Switch, TypeOK
  <2> QED
    BY <1>3, <2>1, <2>3, <2>4 DEF MuteAll, TypeOK
<1>4. CASE SetAll(got)
  <2>1. wpc' = "unmute" /\ batch' \in Command
    BY <1>1, <1>4, PhaseFacts DEF SetAll, Phase
  <2>2. link' \in BOOLEAN /\ lost' \in BOOLEAN /\ timed' \subseteq Slot
    BY <1>1, <1>4, SetTimesFacts DEF SetAll
  <2> QED
    BY <1>4, <2>1, <2>2 DEF SetAll, TypeOK
<1>5. CASE UnmuteAll(got)
  <2>1. wpc' = "idle" /\ batch' \in Command
    BY <1>5, PhaseFacts, BatchFacts DEF UnmuteAll, Phase
  <2>2. link' \in BOOLEAN
    BY <1>1, <1>5, ArriveFacts DEF UnmuteAll, ToUnmute
  <2>3. muted' \subseteq Slot /\ missed' \subseteq Slot
    BY <1>1, <1>5 DEF UnmuteAll, Switch, ToUnmute, TypeOK
  <2> QED
    BY <1>5, <2>1, <2>2, <2>3 DEF UnmuteAll, TypeOK
<1> QED
  BY <1>2, <1>3, <1>4, <1>5

\* What a new map leaves of a selection: the slots whose type it has not changed.
LEMMA RemapFacts ==
  ASSUME TypeOK, NEW map, Remap(map)
  PROVE  /\ types' = map /\ sel' \in Selection
         /\ UNCHANGED <<sel.left, sel.slots>>
         /\ sel'.mapped = {s \in sel.mapped : types'[s] = types[s]}
<1>1. \A m \in SUBSET Slot : LET d == [sel EXCEPT !.mapped = m] IN
        d \in Selection /\ d.left = sel.left /\ d.slots = sel.slots /\ d.mapped = m
  BY DEF TypeOK, Selection
<1>2. {s \in sel.mapped : map[s] = types[s]} \in SUBSET Slot
  BY DEF TypeOK, Selection
<1>3. sel' = [sel EXCEPT !.mapped = {s \in sel.mapped : map[s] = types[s]}] /\ types' = map
  BY DEF Remap, TypeOK, Selection
<1> QED
  BY <1>1, <1>2, <1>3

LEMMA MapFacts ==
  ASSUME TypeOK, NEW map \in {fx} \cup Maps
  PROVE  map \in [Slot -> Nat \cup {Unknown}]
<1>1. fx \in [Slot -> Nat]
  BY SyncAssumption DEF TypeOK
<1> QED
  BY <1>1, SyncAssumption

\* An audit stores the next type and leaves the others.
LEMMA PublishFacts ==
  ASSUME TypeOK, PublishTypes
  PROVE  /\ \E map : Remap(map)
         /\ types' \in [Slot -> Nat \cup {Unknown}]
         /\ stored' = stored + 1 /\ stored' \in 1..SlotCount /\ wpc' = "publish"
         /\ \A s \in Slot : s # stored' => types'[s] = types[s]
         /\ wpc \in {"idle", "publish"}
<1>1. PICK map \in {fx} \cup Maps : Remap([types EXCEPT ![stored + 1] = map[stored + 1]])
  BY DEF PublishTypes
<1>2. types' = [types EXCEPT ![stored + 1] = map[stored + 1]]
  BY <1>1 DEF Remap
<1>3. stored' = stored + 1 /\ stored' \in 1..SlotCount /\ stored' \in Slot
  BY SyncAssumption DEF PublishTypes, TypeOK, Slot
<1>4. map \in [Slot -> Nat \cup {Unknown}] /\ types \in [Slot -> Nat \cup {Unknown}]
  BY MapFacts DEF TypeOK
<1>5. map[stored + 1] \in Nat \cup {Unknown}
  BY <1>3, <1>4
<1>6. types' \in [Slot -> Nat \cup {Unknown}] /\ \A s \in Slot : s # stored' => types'[s] = types[s]
  BY <1>2, <1>3, <1>4, <1>5
<1>7. wpc' = "publish" /\ wpc \in {"idle", "publish"}
  BY DEF PublishTypes
<1> QED
  BY <1>1, <1>3, <1>6, <1>7

LEMMA AdoptFacts ==
  ASSUME TypeOK, Adopt
  PROVE  /\ \E map : Remap(map)
         /\ types' \in [Slot -> Nat \cup {Unknown}]
         /\ sel.left = {} /\ wpc # "publish" /\ mask' = Compatible(types')
<1>1. PICK map \in {fx} \cup Maps : Remap(map) /\ mask' = MaskFor(map)
  BY DEF Adopt
<1>2. types' = map
  BY <1>1 DEF Remap
<1> QED
  BY <1>1, <1>2, MapFacts DEF Adopt, MaskFor, Compatible

LEMMA RestType ==
  ASSUME TypeOK, Connect \/ Disconnect \/ PublishTypes \/ PublishMask \/ Adopt \/ Poll \/ PollAstray \/ Load
  PROVE  TypeOK'
<1> USE DEF mapVars, audioVars, workerVars, consoleVars
<1>1. CASE Connect \/ Disconnect
  BY <1>1 DEF Connect, Disconnect, TypeOK
<1>2. CASE PublishTypes
  <2>1. types' \in [Slot -> Nat \cup {Unknown}] /\ sel' \in Selection
    BY <1>2, PublishFacts, RemapFacts
  <2>2. stored' \in 0..SlotCount /\ wpc' = "publish"
    BY <1>2, PublishFacts
  <2> QED
    BY <1>2, <2>1, <2>2 DEF PublishTypes, TypeOK
<1>6. CASE Adopt
  <2>1. types' \in [Slot -> Nat \cup {Unknown}] /\ sel' \in Selection
    BY <1>6, AdoptFacts, RemapFacts
  <2>2. mask' \subseteq Slot
    BY <1>6, AdoptFacts DEF Compatible
  <2> QED
    BY <1>6, <2>1, <2>2 DEF Adopt, TypeOK
<1>3. CASE PublishMask
  BY <1>3, SyncAssumption DEF PublishMask, Compatible, TypeOK
<1>4. CASE Poll \/ PollAstray
  BY <1>4 DEF Poll, PollAstray, TypeOK
<1>5. CASE Load
  BY <1>5 DEF Load, TypeOK
<1> QED
  BY <1>1, <1>2, <1>3, <1>4, <1>5, <1>6

LEMMA StepType == TypeOK /\ [Next]_vars => TypeOK'
<1> SUFFICES ASSUME TypeOK, [Next]_vars PROVE TypeOK'
  OBVIOUS
<1>1. CASE UNCHANGED vars
  BY <1>1 DEF TypeOK, vars, mapVars, audioVars, workerVars, consoleVars
<1> QED
  BY <1>1, AudioType, HandleType, RestType DEF Next

\* Every variable holds what the code's field of that name can hold.
THEOREM TypeCorrect == Spec => []TypeOK
  BY InitType, StepType, PTL DEF Spec, Safety

-----------------------------------------------------------------------------
(* Safety *)

Rests == wpc \in {"idle", "publish"}

\* Between two commands the worker has no batch.
RestsEmpty == Rests => batch.slots = {} /\ ~batch.now

\* The mask is that of the types, but for those an audit has stored before its mask.
MaskFits ==
  /\ wpc # "publish" => stored = 0
  /\ \A s \in Slot : s > stored => (s \in mask <=> types[s] \in Delays)

\* A slot that the mask of a dispatch still tells the truth about is a delay, and once it has
\* been looked at it is let through if the filter names its type.
Judged(s) ==
  /\ types[s] \in Delays
  /\ s \notin sel.left => (s \in sel.slots <=> types[s] \in set.filter)
SelectionTrue ==
  /\ sel.left = {} => sel.mapped = {}
  /\ sel.left \cap sel.slots = {}
  /\ \A s \in sel.mapped : Judged(s)

\* What is muted beside the slots of the batch was missed by an unmute, and before the
\* batch sets its times it has muted all it could.
MutesUndone ==
  /\ muted \ batch.slots \subseteq missed
  /\ wpc = "set" => batch.slots \subseteq muted \cup missed

\* The commands of the last tempo are the last ones.
NewestLast ==
  /\ \A i, j \in 1..Len(cmdq) : i < j /\ cmdq[i].now => cmdq[j].now
  /\ batch.now => \A i \in 1..Len(cmdq) : cmdq[i].now

\* Once a slot has the last tempo no command of an older one is left.
TimedByNewest ==
  timed # {} => /\ \A i \in 1..Len(cmdq) : cmdq[i].now
                /\ wpc = "set" => batch.now

\* A slot that is not at the last tempo has it on its way.
Carries(c, s) == c.now /\ s \in c.slots
Coming(s) ==
  \/ wpc = "set" /\ Carries(batch, s)
  \/ \E i \in 1..Len(cmdq) : Carries(cmdq[i], s)
OnItsWay == ~lost => \A s \in last.slots : fx[s] \in Delays => s \in timed \/ Coming(s)

IInv ==
  /\ TypeOK
  /\ RestsEmpty /\ MaskFits /\ SelectionTrue
  /\ MutesUndone
  /\ NewestLast /\ TimedByNewest /\ OnItsWay

LEMMA InitInv == Init => IInv
<1> SUFFICES ASSUME Init PROVE IInv
  OBVIOUS
<1>1. TypeOK
  BY InitType
<1>2. cmdq = <<>> /\ batch = NoBatch /\ Len(cmdq) = 0
  BY DEF Init
<1>3. RestsEmpty /\ SelectionTrue /\ MutesUndone
  BY <1>2, BatchFacts, SelectionFacts DEF Init, RestsEmpty, SelectionTrue, MutesUndone
<1>4. MaskFits
  <2>1. \A s \in Slot : types[s] = Unknown
    BY DEF Init
  <2>2. Unknown \notin Delays
    BY SyncAssumption DEF Delays
  <2> QED
    BY <2>1, <2>2 DEF Init, MaskFits
<1>5. NewestLast /\ TimedByNewest /\ OnItsWay
  BY <1>2, BatchFacts DEF Init, NewestLast, TimedByNewest, OnItsWay
<1> QED
  BY <1>1, <1>3, <1>4, <1>5 DEF IInv

\* However the reads of a dispatch fall among the stores of an audit, the selection is true
\* to the mask where the audit has not gone by it.
LEMMA SelectionInv == IInv /\ [Next]_vars => MaskFits' /\ SelectionTrue'
<1> SUFFICES ASSUME IInv, [Next]_vars PROVE MaskFits' /\ SelectionTrue'
  OBVIOUS
<1>1. TypeOK /\ MaskFits /\ SelectionTrue
  BY DEF IInv
<1>2. /\ mask \subseteq Slot /\ stored \in 0..SlotCount /\ sel.left \subseteq Slot
      /\ sel.slots \subseteq Slot /\ sel.mapped \subseteq Slot
      /\ \A f \in set.filter : f \in Delays
  BY <1>1, SyncAssumption DEF TypeOK, Selection
<1>3. CASE Select
  <2>1. UNCHANGED <<set, types, mask, stored, wpc>>
    BY <1>3 DEF Select, mapVars, workerVars
  <2>2. sel'.left = mask /\ sel'.slots = {} /\ sel'.mapped = {s \in mask : s > stored} /\ mask # {}
    BY <1>1, <1>3, SelectFacts DEF Select
  <2>3. \A s \in sel'.mapped : types'[s] \in Delays /\ s \in sel'.left
    BY <1>1, <1>2, <2>1, <2>2 DEF MaskFits
  <2> QED
    BY <1>1, <2>1, <2>2, <2>3 DEF MaskFits, SelectionTrue, Judged
<1>4. ASSUME NEW s \in Slot, Look(s) PROVE MaskFits' /\ SelectionTrue'
  <2>1. UNCHANGED <<set, types, mask, stored, wpc>>
    BY <1>4 DEF Look, mapVars, workerVars
  <2>2. /\ s \in sel.left /\ sel'.left = sel.left \ {s} /\ sel'.left # {}
        /\ sel'.slots = sel.slots \cup Admitted({s}) /\ sel'.mapped = sel.mapped
    BY <1>1, <1>4, LookFacts
  <2>3. Admitted({s}) = IF Included(types[s]) THEN {s} ELSE {}
    BY DEF Admitted
  <2>4. sel'.left \cap sel'.slots = {}
    BY <1>1, <2>2, <2>3 DEF SelectionTrue
  <2>5. ASSUME NEW r \in sel.mapped PROVE Judged(r)'
    <3>1. Judged(r)
      BY <1>1 DEF SelectionTrue
    <3>2. CASE r = s
      <4>1. s \notin sel.slots /\ types[s] \in Delays
        BY <1>1, <2>2, <3>1, <3>2 DEF SelectionTrue, Judged
      <4>2. Included(types[s]) <=> types[s] \in set.filter
        BY <4>1 DEF Included
      <4> QED
        BY <2>1, <2>2, <2>3, <3>2, <4>1, <4>2 DEF Judged
    <3>3. CASE r # s
      BY <2>1, <2>2, <2>3, <3>1, <3>3 DEF Judged
    <3> QED
      BY <3>2, <3>3
  <2>6. MaskFits'
    BY <1>1, <2>1 DEF MaskFits
  <2> QED
    BY <2>2, <2>4, <2>5, <2>6 DEF SelectionTrue
<1>5. CASE NewTempo \/ Resend
  <2>1. UNCHANGED <<types, mask, stored, wpc>> /\ sel' = NoSelection
    BY <1>5 DEF NewTempo, Resend, Dispatch, mapVars
  <2> QED
    BY <1>1, <2>1, SelectionFacts DEF MaskFits, SelectionTrue
<1>6. CASE Change
  <2>1. UNCHANGED <<types, mask, stored, sel, wpc>> /\ sel.left = {} /\ sel.mapped = {}
    BY <1>1, <1>6 DEF Change, mapVars, audioVars, workerVars, SelectionTrue
  <2> QED
    BY <1>1, <2>1 DEF MaskFits, SelectionTrue
<1>7. ASSUME NEW map, Remap(map), UNCHANGED set PROVE SelectionTrue'
  <2>1. /\ UNCHANGED <<sel.left, sel.slots>>
        /\ sel'.mapped = {s \in sel.mapped : types'[s] = types[s]}
    BY <1>1, <1>7, RemapFacts
  <2>2. \A s \in sel'.mapped : Judged(s)'
    BY <1>1, <1>7, <2>1 DEF SelectionTrue, Judged
  <2> QED
    BY <1>1, <2>1, <2>2 DEF SelectionTrue
<1>8. CASE PublishTypes
  <2>1. /\ UNCHANGED <<set, mask>>
        /\ stored' = stored + 1 /\ wpc' = "publish"
        /\ \A s \in Slot : s # stored' => types'[s] = types[s]
    BY <1>1, <1>8, PublishFacts DEF PublishTypes
  <2>2. \A s \in Slot : s > stored' => s > stored /\ types'[s] = types[s]
    BY <1>2, <2>1 DEF Slot
  <2>3. MaskFits'
    BY <1>1, <2>1, <2>2 DEF MaskFits
  <2> QED
    BY <1>1, <1>7, <1>8, <2>1, <2>3, PublishFacts
<1>9. CASE Adopt
  <2>1. /\ UNCHANGED <<set, stored, wpc>>
        /\ \A s \in Slot : s \in mask' <=> types'[s] \in Delays
    BY <1>1, <1>9, AdoptFacts DEF Adopt, workerVars, Compatible
  <2>2. MaskFits'
    BY <1>1, <2>1 DEF MaskFits
  <2> QED
    BY <1>1, <1>7, <1>9, <2>1, <2>2, AdoptFacts
<1>10. CASE PublishMask
  <2>1. UNCHANGED <<set, types, sel>> /\ stored' = 0 /\ mask' = Compatible(types)
    BY <1>10 DEF PublishMask, audioVars
  <2>2. SelectionTrue'
    BY <1>1, <2>1 DEF SelectionTrue, Judged
  <2> QED
    BY <2>1, <2>2 DEF MaskFits, Compatible
<1>11. CASE Handle
  <2>1. UNCHANGED <<set, types, mask, stored, sel>> /\ wpc # "publish" /\ wpc' # "publish"
    <3>1. PICK got \in SUBSET Slot : SyncNow(got) \/ MuteAll(got) \/ SetAll(got) \/ UnmuteAll(got)
      BY <1>11 DEF Handle
    <3> QED
      BY <3>1, PhaseFacts DEF SyncNow, MuteAll, SetAll, UnmuteAll, Take, Phase, mapVars, audioVars
  <2> QED
    BY <1>1, <2>1 DEF MaskFits, SelectionTrue, Judged
<1>12. CASE Unsettle \/ Connect \/ Disconnect \/ Poll \/ PollAstray \/ Load \/ UNCHANGED vars
  <2>1. UNCHANGED <<set, types, mask, stored, sel, wpc>>
    BY <1>12 DEF Unsettle, Connect, Disconnect, Poll, PollAstray, Load, vars, mapVars, audioVars,
                 workerVars
  <2> QED
    BY <1>1, <2>1 DEF MaskFits, SelectionTrue, Judged
<1> QED
  BY <1>3, <1>4, <1>5, <1>6, <1>8, <1>9, <1>10, <1>11, <1>12 DEF Next

\* Dispatching behind a queue that is in order, and not behind older commands once a slot
\* has the tempo, keeps the order.
LEMMA DispatchInv ==
  ASSUME IInv, NEW queue \in Seq(Command), Len(queue) <= CmdCap, NEW hard \in BOOLEAN,
         Dispatch(queue, hard),
         \A i \in 1..Len(queue) : ~queue[i].now
  PROVE  /\ \A i, j \in 1..Len(cmdq') : i < j /\ cmdq'[i].now => cmdq'[j].now
         /\ Len(queue) = 0 => \A i \in 1..Len(cmdq') : cmdq'[i].now
         /\ OnItsWay'
<1>1. TypeOK
  BY DEF IInv
<1>2. /\ cmdq' \in Seq(Command) /\ Len(queue) <= Len(cmdq')
      /\ \A i \in 1..Len(queue) : cmdq'[i] = queue[i]
      /\ \A i \in 1..Len(cmdq') : i > Len(queue) => IsFresh(cmdq'[i], hard)
      /\ ~lost' => \A s \in Chosen : \E i \in 1..Len(cmdq') : cmdq'[i].now /\ s \in cmdq'[i].slots
  BY <1>1, DispatchFacts
<1>3. Len(queue) \in Nat /\ Len(cmdq') \in Nat
  BY <1>2
<1>4. UNCHANGED <<types, mask, wpc, fx>> /\ last'.slots = Chosen
  BY DEF Dispatch, mapVars
<1>6. ASSUME NEW i \in 1..Len(cmdq')
      PROVE  (i <= Len(queue) /\ ~cmdq'[i].now) \/ (i > Len(queue) /\ cmdq'[i].now)
  <2>1. CASE i <= Len(queue)
    BY <1>2, <1>3, <2>1
  <2>2. CASE i > Len(queue)
    BY <1>2, <2>2 DEF IsFresh
  <2> QED
    BY <1>3, <2>1, <2>2
<1>8. \A i, j \in 1..Len(cmdq') : i < j /\ cmdq'[i].now => cmdq'[j].now
  BY <1>3, <1>6
<1>9. Len(queue) = 0 => \A i \in 1..Len(cmdq') : cmdq'[i].now
  BY <1>3, <1>6
<1>10. OnItsWay'
  BY <1>2, <1>4 DEF OnItsWay, Coming, Carries
<1> QED
  BY <1>8, <1>9, <1>10

LEMMA AudioInv ==
  ASSUME IInv,
         Select \/ (\E s \in Slot : Look(s)) \/ Unsettle \/ NewTempo \/ Resend \/ Change
  PROVE  RestsEmpty' /\ MutesUndone' /\ NewestLast' /\ TimedByNewest' /\ OnItsWay'
<1>2. CASE Select \/ (\E s \in Slot : Look(s)) \/ Unsettle \/ Change
  <2>1. UNCHANGED <<last.slots, cmdq, wpc, batch, fx, timed, muted, lost, missed>>
    BY <1>2 DEF Select, Look, Unsettle, Change, audioVars, workerVars, consoleVars
  <2> QED
    BY <2>1 DEF IInv, RestsEmpty, Rests, MutesUndone, NewestLast, TimedByNewest, OnItsWay, Coming,
                Carries
<1>3. CASE NewTempo
  <2>1. Dispatch(Outdated, set.hard) /\ timed' = {} /\ batch' = [batch EXCEPT !.now = FALSE]
    BY <1>3 DEF NewTempo
  <2>2. UNCHANGED <<wpc, muted, missed>>
    BY <2>1 DEF Dispatch
  <2>3. set.hard \in BOOLEAN
    BY SyncAssumption DEF IInv, TypeOK
  <2>4. /\ Outdated \in Seq(Command) /\ Len(Outdated) <= CmdCap
        /\ \A i \in 1..Len(Outdated) : ~Outdated[i].now
    BY OutdatedFacts DEF IInv, TypeOK
  <2>5. /\ \A i, j \in 1..Len(cmdq') : i < j /\ cmdq'[i].now => cmdq'[j].now
        /\ OnItsWay'
    BY <2>1, <2>3, <2>4, DispatchInv
  <2>6. ~batch'.now /\ batch'.slots = batch.slots
    BY <2>1, BatchFacts DEF IInv, TypeOK
  <2>7. RestsEmpty' /\ MutesUndone'
    BY <2>2, <2>6 DEF IInv, RestsEmpty, Rests, MutesUndone
  <2>9. NewestLast' /\ TimedByNewest'
    BY <2>1, <2>5, <2>6 DEF NewestLast, TimedByNewest
  <2> QED
    BY <2>5, <2>7, <2>9
<1>4. CASE Resend
  <2>1. Dispatch(<<>>, last.hard) /\ UNCHANGED <<timed, batch>>
    BY <1>4 DEF Resend
  <2>2. UNCHANGED <<wpc, muted, missed>>
    BY <2>1 DEF Dispatch
  <2>3. last.hard \in BOOLEAN /\ <<>> \in Seq(Command) /\ Len(<<>>) <= CmdCap /\ Len(<<>>) = 0
    BY SyncAssumption DEF IInv, TypeOK
  <2>4. /\ \A i \in 1..Len(cmdq') : cmdq'[i].now
        /\ OnItsWay'
    <3> DEFINE none == <<>>
    <3>1. none \in Seq(Command) /\ Len(none) = 0 /\ Len(none) <= CmdCap /\ 1..Len(none) = {}
      BY <2>3
    <3>2. Dispatch(none, last.hard)
      BY <2>1
    <3> HIDE DEF none
    <3> QED
      BY <2>3, <3>1, <3>2, DispatchInv
  <2>5. RestsEmpty' /\ MutesUndone'
    BY <2>1, <2>2 DEF IInv, RestsEmpty, Rests, MutesUndone
  <2>6. NewestLast' /\ TimedByNewest'
    BY <2>1, <2>2, <2>4 DEF IInv, NewestLast, TimedByNewest
  <2> QED
    BY <2>4, <2>5, <2>6
<1> QED
  BY <1>2, <1>3, <1>4

\* Taking a command leaves the others in their order.
LEMMA TakeInv ==
  ASSUME IInv, NEW hard, Take(hard)
  PROVE  /\ \A i, j \in 1..Len(cmdq') : i < j /\ cmdq'[i].now => cmdq'[j].now
         /\ cmdq[1].now => \A i \in 1..Len(cmdq') : cmdq'[i].now
         /\ timed # {} => cmdq[1].now
         /\ \A s : Coming(s) => Carries(cmdq[1], s) \/ \E i \in 1..Len(cmdq') : Carries(cmdq'[i], s)
<1>1. /\ wpc = "idle" /\ Len(cmdq) > 0 /\ Len(cmdq) \in Nat /\ Len(cmdq') \in Nat
      /\ \A i \in 1..Len(cmdq') : i + 1 \in 1..Len(cmdq) /\ cmdq'[i] = cmdq[i + 1]
      /\ \A i \in 1..Len(cmdq) : i = 1 \/ (i - 1 \in 1..Len(cmdq') /\ cmdq'[i - 1] = cmdq[i])
  BY TakeFacts DEF IInv, TypeOK
<1>2. 1 \in 1..Len(cmdq) /\ \A i \in 1..Len(cmdq') : 1 < i + 1
  BY <1>1
<1>4. \A i, j \in 1..Len(cmdq') : i < j /\ cmdq'[i].now => cmdq'[j].now
  <2> SUFFICES ASSUME NEW i \in 1..Len(cmdq'), NEW j \in 1..Len(cmdq'), i < j, cmdq'[i].now
               PROVE  cmdq'[j].now
    OBVIOUS
  <2>1. i + 1 < j + 1 /\ i + 1 \in 1..Len(cmdq) /\ j + 1 \in 1..Len(cmdq)
    BY <1>1
  <2>2. cmdq[i + 1].now
    BY <1>1
  <2>3. \A m, n \in 1..Len(cmdq) : m < n /\ cmdq[m].now => cmdq[n].now
    BY DEF IInv, NewestLast
  <2>4. cmdq[j + 1].now
    BY <2>1, <2>2, <2>3
  <2> QED
    BY <1>1, <2>4
<1>5. cmdq[1].now => \A i \in 1..Len(cmdq') : cmdq'[i].now
  BY <1>1, <1>2 DEF IInv, NewestLast
<1>6. timed # {} => cmdq[1].now
  BY <1>2 DEF IInv, TimedByNewest
<1>7. ASSUME NEW s, Coming(s)
      PROVE  Carries(cmdq[1], s) \/ \E i \in 1..Len(cmdq') : Carries(cmdq'[i], s)
  <2>1. PICK i \in 1..Len(cmdq) : Carries(cmdq[i], s)
    BY <1>1, <1>7 DEF Coming
  <2>2. CASE i = 1
    BY <2>1, <2>2
  <2>3. CASE i # 1
    <3>1. i - 1 \in 1..Len(cmdq') /\ Carries(cmdq'[i - 1], s)
      BY <1>1, <2>1, <2>3
    <3> QED
      BY <3>1
  <2> QED
    BY <2>2, <2>3
<1> QED
  BY <1>4, <1>5, <1>6, <1>7

LEMMA SyncNowInv ==
  ASSUME IInv, NEW got, SyncNow(got)
  PROVE  /\ RestsEmpty' /\ MutesUndone'
         /\ NewestLast' /\ TimedByNewest' /\ OnItsWay'
<1> DEFINE c == cmdq[1]
<1>1. /\ Take(FALSE) /\ wpc = "idle" /\ SetTimes(c, got) /\ c \in Command
      /\ UNCHANGED <<last, wpc, batch, fx, muted, missed>>
  BY TakeFacts DEF SyncNow, IInv, mapVars, audioVars
<1>2. ~batch.now
  BY <1>1 DEF IInv, RestsEmpty, Rests
<1>3. /\ c.now => timed \subseteq timed'
      /\ ~c.now => timed' \subseteq timed
      /\ ~lost' => ~lost
      /\ ~lost' /\ c.now => \A s \in c.slots : fx[s] \in Delays => s \in timed'
  BY <1>1, SetTimesFacts DEF IInv
<1>4. RestsEmpty' /\ MutesUndone'
  BY <1>1 DEF IInv, RestsEmpty, Rests, MutesUndone
<1>6. NewestLast'
  BY <1>1, <1>2, TakeInv DEF NewestLast
<1>7. TimedByNewest'
  BY <1>1, <1>3, TakeInv DEF TimedByNewest
<1>8. OnItsWay'
  <2> SUFFICES ASSUME ~lost', NEW s \in last.slots, fx[s] \in Delays
               PROVE  s \in timed' \/ \E i \in 1..Len(cmdq') : Carries(cmdq'[i], s)
    BY <1>1 DEF OnItsWay, Coming, Carries
  <2>1. s \in timed \/ Coming(s)
    BY <1>3 DEF IInv, OnItsWay
  <2>2. CASE s \in timed
    BY <1>1, <1>3, <2>2, TakeInv
  <2>3. CASE Carries(c, s)
    BY <1>3, <2>3 DEF Carries
  <2> QED
    BY <1>1, <2>1, <2>2, <2>3, TakeInv
<1> QED
  BY <1>4, <1>6, <1>7, <1>8

LEMMA MuteAllInv ==
  ASSUME IInv, NEW got, MuteAll(got)
  PROVE  /\ RestsEmpty' /\ MutesUndone'
         /\ NewestLast' /\ TimedByNewest' /\ OnItsWay'
<1> DEFINE c == cmdq[1]
<1>1. /\ Take(TRUE) /\ wpc = "idle" /\ wpc' = "set" /\ c \in Command /\ batch' = c
      /\ Arrive(c.slots, got) /\ Switch(got, FALSE)
      /\ missed' = (missed \ got) \cup (c.slots \ got)
      /\ UNCHANGED <<last, fx, timed, lost>>
  BY TakeFacts, PhaseFacts DEF MuteAll, IInv, mapVars, audioVars
<1>2. got \subseteq c.slots
  BY <1>1 DEF Arrive
<1>3. batch.slots = {}
  BY <1>1 DEF IInv, RestsEmpty, Rests
<1>4. RestsEmpty'
  BY <1>1 DEF IInv, RestsEmpty, Rests
<1>5. MutesUndone'
  BY <1>1, <1>2, <1>3 DEF IInv, MutesUndone, Switch
<1>7. NewestLast' /\ TimedByNewest'
  BY <1>1, TakeInv DEF NewestLast, TimedByNewest
<1>8. OnItsWay'
  <2> SUFFICES ASSUME ~lost, NEW s \in last.slots, fx[s] \in Delays
               PROVE  s \in timed \/ Carries(c, s) \/ \E i \in 1..Len(cmdq') : Carries(cmdq'[i], s)
    BY <1>1 DEF OnItsWay, Coming, Carries
  <2>1. s \in timed \/ Coming(s)
    BY DEF IInv, OnItsWay
  <2> QED
    BY <1>1, <2>1, TakeInv
<1> QED
  BY <1>4, <1>5, <1>7, <1>8

LEMMA SetAllInv ==
  ASSUME IInv, NEW got, SetAll(got)
  PROVE  /\ RestsEmpty' /\ MutesUndone'
         /\ NewestLast' /\ TimedByNewest' /\ OnItsWay'
<1>1. /\ wpc = "set" /\ wpc' = "unmute" /\ batch' = batch /\ SetTimes(batch, got)
      /\ batch \in Command
      /\ UNCHANGED <<last, cmdq, fx, muted, missed>>
  BY PhaseFacts DEF SetAll, Phase, IInv, TypeOK, mapVars, audioVars
<1>2. /\ batch.now => timed \subseteq timed'
      /\ ~batch.now => timed' \subseteq timed
      /\ ~lost' => ~lost
      /\ ~lost' /\ batch.now => \A s \in batch.slots : fx[s] \in Delays => s \in timed'
  BY <1>1, SetTimesFacts DEF IInv
<1>3. RestsEmpty' /\ MutesUndone' /\ NewestLast'
  BY <1>1 DEF IInv, RestsEmpty, Rests, MutesUndone, NewestLast
<1>4. TimedByNewest'
  BY <1>1, <1>2 DEF IInv, TimedByNewest, NewestLast
<1>5. OnItsWay'
  <2> SUFFICES ASSUME ~lost', NEW s \in last.slots, fx[s] \in Delays
               PROVE  s \in timed' \/ \E i \in 1..Len(cmdq) : Carries(cmdq[i], s)
    BY <1>1 DEF OnItsWay, Coming, Carries
  <2>1. s \in timed \/ Coming(s)
    BY <1>2 DEF IInv, OnItsWay
  <2>2. CASE s \in timed
    BY <1>1, <1>2, <2>2 DEF IInv, TimedByNewest
  <2>3. CASE Carries(batch, s)
    BY <1>2, <2>3 DEF Carries
  <2> QED
    BY <2>1, <2>2, <2>3 DEF Coming
<1> QED
  BY <1>3, <1>4, <1>5

LEMMA UnmuteAllInv ==
  ASSUME IInv, NEW got, UnmuteAll(got)
  PROVE  /\ RestsEmpty' /\ MutesUndone'
         /\ NewestLast' /\ TimedByNewest' /\ OnItsWay'
<1>1. /\ wpc = "unmute" /\ wpc' = "idle" /\ batch' = NoBatch
      /\ Switch(got, TRUE)
      /\ missed' = ((missed \ got) \cup (batch.slots \ got)) \cap muted'
      /\ UNCHANGED <<last, cmdq, fx, timed, lost>>
  BY PhaseFacts DEF UnmuteAll, ToUnmute, Phase, mapVars, audioVars
<1>2. MutesUndone'
  BY <1>1 DEF IInv, MutesUndone, Switch
<1>3. RestsEmpty'
  BY <1>1, BatchFacts DEF IInv, RestsEmpty
<1>4. NewestLast' /\ TimedByNewest' /\ OnItsWay'
  BY <1>1, BatchFacts DEF IInv, NewestLast, TimedByNewest, OnItsWay, Coming, Carries
<1> QED
  BY <1>2, <1>3, <1>4

LEMMA RestInv ==
  ASSUME IInv, Connect \/ Disconnect \/ PublishTypes \/ PublishMask \/ Adopt \/ Poll \/ PollAstray \/ Load
  PROVE  RestsEmpty' /\ MutesUndone' /\ NewestLast' /\ TimedByNewest' /\ OnItsWay'
<1>1. CASE Connect \/ Disconnect \/ PublishTypes \/ PublishMask \/ Adopt \/ Poll \/ PollAstray
  <2>1. UNCHANGED <<last, cmdq, batch, fx, timed, muted, lost, missed>>
    BY <1>1 DEF Connect, Disconnect, PublishTypes, PublishMask, Adopt, Poll, PollAstray, audioVars,
                workerVars, consoleVars
  <2>2. wpc' = wpc \/ (wpc \in {"idle", "publish"} /\ wpc' \in {"idle", "publish"})
    BY <1>1, PublishFacts DEF Connect, Disconnect, PublishMask, Adopt, Poll, PollAstray, workerVars, IInv
  <2> QED
    BY <2>1, <2>2 DEF IInv, RestsEmpty, Rests, MutesUndone, NewestLast, TimedByNewest, OnItsWay,
                      Coming, Carries
<1>2. CASE Load
  <2>1. /\ lost' /\ timed' \subseteq timed
        /\ UNCHANGED <<last, cmdq, wpc, batch, muted, missed>>
    BY <1>2 DEF Load, audioVars, workerVars
  <2> QED
    BY <2>1 DEF IInv, RestsEmpty, Rests, MutesUndone, NewestLast, TimedByNewest, OnItsWay
<1> QED
  BY <1>1, <1>2

LEMMA StepInv == IInv /\ [Next]_vars => IInv'
<1> SUFFICES ASSUME IInv, [Next]_vars PROVE IInv'
  OBVIOUS
<1>1. TypeOK' /\ MaskFits' /\ SelectionTrue'
  BY StepType, SelectionInv DEF IInv
<1>2. CASE UNCHANGED vars
  <2>1. UNCHANGED <<last, cmdq, wpc, batch, fx, timed, muted, lost, missed>>
    BY <1>2 DEF vars, mapVars, audioVars, workerVars, consoleVars
  <2> QED
    BY <1>1, <2>1 DEF IInv, RestsEmpty, Rests, MutesUndone, NewestLast, TimedByNewest, OnItsWay,
                      Coming, Carries
<1>3. CASE Handle
  BY <1>1, <1>3, SyncNowInv, MuteAllInv, SetAllInv, UnmuteAllInv DEF Handle, IInv
<1>4. CASE Select \/ (\E s \in Slot : Look(s)) \/ Unsettle \/ NewTempo \/ Resend \/ Change
  BY <1>1, <1>4, AudioInv DEF IInv
<1>5. CASE Connect \/ Disconnect \/ PublishTypes \/ PublishMask \/ Adopt \/ Poll \/ PollAstray \/ Load
  BY <1>1, <1>5, RestInv DEF IInv
<1> QED
  BY <1>2, <1>3, <1>4, <1>5 DEF Next

\* IInv holds in every reachable state.
THEOREM Invariant == Spec => []IInv
  BY InitInv, StepInv, PTL DEF Spec, Safety

\* A return is left muted only by a packet that was lost or could not be sent.
THEOREM MutesAreUndone == Spec => []MutedOnlyByLoss
<1>1. IInv => MutedOnlyByLoss
  BY DEF IInv, RestsEmpty, Rests, MutesUndone, MutedOnlyByLoss
<1> QED
  BY Invariant, <1>1, PTL

\* However the reads of a dispatch fall among the stores of audits, of the slots whose type is
\* still the one that its mask was made from it is for those that the filter names, and no other.
THEOREM TheEnabledReceive == Spec => EnabledReceive
<1> DEFINE Receive ==
      sel.left # {} /\ sel'.left = {} =>
        last'.slots \cap sel.mapped = {s \in sel.mapped : types[s] \in set.filter}
<1>1. IInv /\ [Next]_vars => [Receive]_vars
  <2> SUFFICES ASSUME IInv, Next, sel.left # {}, sel'.left = {} PROVE Receive
    OBVIOUS
  <2>1. TypeOK /\ SelectionTrue
    BY DEF IInv
  <2>2. CASE NewTempo \/ Resend
    <3>1. last'.slots = sel.slots \cup Admitted(sel.left)
      BY <2>2 DEF NewTempo, Resend, Dispatch, Chosen, Picked
    <3> SUFFICES ASSUME NEW s \in sel.mapped
                 PROVE  s \in last'.slots <=> types[s] \in set.filter
      OBVIOUS
    <3>2. types[s] \in Delays /\ (s \notin sel.left => (s \in sel.slots <=> types[s] \in set.filter))
      BY <2>1 DEF SelectionTrue, Judged
    <3>3. CASE s \in sel.left
      <4>1. s \notin sel.slots
        BY <2>1, <3>3 DEF SelectionTrue
      <4>2. s \in Admitted(sel.left) <=> types[s] \in set.filter
        BY <3>2, <3>3 DEF Admitted, Included
      <4> QED
        BY <3>1, <4>1, <4>2
    <3>4. CASE s \notin sel.left
      BY <3>1, <3>2, <3>4 DEF Admitted
    <3> QED
      BY <3>3, <3>4
  <2>3. ASSUME NEW s \in Slot, Look(s) PROVE FALSE
    BY <2>1, <2>3, LookFacts
  <2>4. ~(Select \/ Unsettle \/ Change \/ Adopt)
    BY DEF Select, Unsettle, Change, Adopt
  <2>5. ASSUME PublishTypes PROVE FALSE
    BY <2>1, <2>5, PublishFacts, RemapFacts
  <2>6. ASSUME Handle \/ Connect \/ Disconnect \/ PublishMask \/ Poll \/ PollAstray \/ Load
        PROVE  FALSE
    BY <2>6 DEF Handle, SyncNow, MuteAll, SetAll, UnmuteAll, Connect, Disconnect, PublishMask, Poll,
                PollAstray, Load, audioVars
  <2> QED
    BY <2>2, <2>3, <2>4, <2>5, <2>6 DEF Next
<1> QED
  BY Invariant, <1>1, PTL DEF Spec, Safety, EnabledReceive

\* A Hard Reset sets new times only under a mute.
THEOREM TimesAreSetMuted == Spec => SetUnderMute
<1> DEFINE Muted == wpc = "set" => \A s \in timed' \ timed : s \in muted \cup missed
<1>1. IInv /\ [Next]_vars => [Muted]_vars
  <2> SUFFICES ASSUME IInv, Next, wpc = "set", NEW s \in timed' \ timed
               PROVE  s \in muted \cup missed
    OBVIOUS
  <2>1. ASSUME NEW got, SetAll(got) PROVE s \in muted \cup missed
    <3>1. batch \in Command /\ SetTimes(batch, got)
      BY <2>1 DEF SetAll, IInv, TypeOK
    <3>2. s \in batch.slots
      BY <3>1, SetTimesFacts DEF IInv
    <3> QED
      BY <3>2 DEF IInv, MutesUndone
  <2>2. ASSUME NEW got, SyncNow(got) \/ MuteAll(got) \/ UnmuteAll(got) PROVE FALSE
    BY <2>2 DEF SyncNow, MuteAll, UnmuteAll, Take, Phase
  <2>3. ~(Connect \/ Disconnect \/ PublishTypes \/ PublishMask \/ Adopt \/ Poll \/ PollAstray)
    BY DEF Connect, Disconnect, PublishTypes, PublishMask, Adopt, Poll, PollAstray, consoleVars
  <2>4. ASSUME Select \/ (\E r \in Slot : Look(r)) \/ Unsettle \/ NewTempo \/ Resend \/ Change \/ Load
        PROVE  FALSE
    BY <2>4 DEF Select, Look, Unsettle, NewTempo, Resend, Change, Load, consoleVars
  <2> QED
    BY <2>1, <2>2, <2>3, <2>4 DEF Next, Handle
<1> QED
  BY Invariant, <1>1, PTL DEF Spec, Safety, SetUnderMute

-----------------------------------------------------------------------------
(* The refinement of TempoFollower *)

\* The commands of the last tempo are for slots of its last dispatch.
ForWanted(c, slots) == c.now => c.slots \subseteq slots
NowIsWanted == ForWanted(batch, last.slots) /\ \A i \in 1..Len(cmdq) : ForWanted(cmdq[i], last.slots)

LEMMA AudioWanted ==
  ASSUME IInv, NowIsWanted,
         Select \/ (\E s \in Slot : Look(s)) \/ Unsettle \/ NewTempo \/ Resend \/ Change
  PROVE  NowIsWanted'
<1>1. CASE Select \/ (\E s \in Slot : Look(s)) \/ Unsettle \/ Change
  <2>1. UNCHANGED <<last, cmdq, batch>>
    BY <1>1 DEF Select, Look, Unsettle, Change, audioVars, workerVars
  <2> QED
    BY <2>1 DEF NowIsWanted, ForWanted
<1>2. ASSUME NEW queue \in Seq(Command), Len(queue) <= CmdCap, NEW hard \in BOOLEAN,
             Dispatch(queue, hard), \A i \in 1..Len(queue) : ~queue[i].now
      PROVE  \A i \in 1..Len(cmdq') : ForWanted(cmdq'[i], last'.slots)
  <2>1. last'.slots = Chosen
    BY <1>2 DEF Dispatch
  <2>2. /\ cmdq' \in Seq(Command) /\ Len(queue) <= Len(cmdq')
        /\ \A i \in 1..Len(queue) : cmdq'[i] = queue[i]
        /\ \A i \in 1..Len(cmdq') : i > Len(queue) => IsFresh(cmdq'[i], hard)
    BY <1>2, DispatchFacts DEF IInv
  <2> SUFFICES ASSUME NEW i \in 1..Len(cmdq'), cmdq'[i].now
               PROVE  cmdq'[i].slots \subseteq last'.slots
    BY DEF ForWanted
  <2>3. i > Len(queue)
    BY <1>2, <2>2
  <2> QED
    BY <2>1, <2>2, <2>3 DEF IsFresh
<1>3. CASE NewTempo
  <2>1. Dispatch(Outdated, set.hard) /\ batch' = [batch EXCEPT !.now = FALSE]
    BY <1>3 DEF NewTempo
  <2>2. /\ Outdated \in Seq(Command) /\ Len(Outdated) <= CmdCap
        /\ \A i \in 1..Len(Outdated) : ~Outdated[i].now
    BY OutdatedFacts DEF IInv, TypeOK
  <2>3. set.hard \in BOOLEAN
    BY SyncAssumption DEF IInv, TypeOK
  <2>4. ~batch'.now
    BY <2>1, BatchFacts DEF IInv, TypeOK
  <2> QED
    BY <1>2, <2>1, <2>2, <2>3, <2>4 DEF NowIsWanted, ForWanted
<1>4. CASE Resend
  <2> DEFINE none == <<>>
  <2>1. Dispatch(none, last.hard) /\ UNCHANGED batch /\ Rests
    BY <1>4 DEF Resend, Rests
  <2>2. none \in Seq(Command) /\ Len(none) = 0 /\ Len(none) <= CmdCap /\ 1..Len(none) = {}
    BY SyncAssumption
  <2> HIDE DEF none
  <2>3. last.hard \in BOOLEAN
    BY DEF IInv, TypeOK
  <2>4. ~batch'.now
    BY <2>1 DEF IInv, RestsEmpty
  <2> QED
    BY <1>2, <2>1, <2>2, <2>3, <2>4 DEF NowIsWanted, ForWanted
<1> QED
  BY <1>1, <1>3, <1>4

LEMMA TakeWanted ==
  ASSUME IInv, NowIsWanted, NEW hard, Take(hard), last' = last
  PROVE  ForWanted(cmdq[1], last.slots) /\ \A i \in 1..Len(cmdq') : ForWanted(cmdq'[i], last'.slots)
<1>1. /\ Len(cmdq) > 0 /\ Len(cmdq) \in Nat
      /\ \A i \in 1..Len(cmdq') : i + 1 \in 1..Len(cmdq) /\ cmdq'[i] = cmdq[i + 1]
  BY TakeFacts DEF IInv, TypeOK
<1>2. 1 \in 1..Len(cmdq)
  BY <1>1
<1> QED
  BY <1>1, <1>2 DEF NowIsWanted, ForWanted

LEMMA HandleWanted ==
  ASSUME IInv, NowIsWanted, NEW got, SyncNow(got) \/ MuteAll(got) \/ SetAll(got) \/ UnmuteAll(got)
  PROVE  NowIsWanted'
<1>1. CASE SyncNow(got)
  BY <1>1, TakeWanted DEF SyncNow, audioVars, NowIsWanted, ForWanted
<1>2. CASE MuteAll(got)
  <2>1. Take(TRUE) /\ batch' = cmdq[1] /\ UNCHANGED last
    BY <1>2, TakeFacts DEF MuteAll, IInv, audioVars
  <2> QED
    BY <2>1, TakeWanted DEF NowIsWanted, ForWanted
<1>3. CASE SetAll(got)
  <2>1. UNCHANGED <<last, cmdq, batch>>
    BY <1>3, PhaseFacts DEF SetAll, Phase, audioVars
  <2> QED
    BY <2>1 DEF NowIsWanted, ForWanted
<1>4. CASE UnmuteAll(got)
  <2>1. UNCHANGED <<last, cmdq>> /\ ~batch'.now
    BY <1>4, PhaseFacts, BatchFacts DEF UnmuteAll, Phase, audioVars
  <2> QED
    BY <2>1 DEF NowIsWanted, ForWanted
<1> QED
  BY <1>1, <1>2, <1>3, <1>4

LEMMA RestWanted ==
  ASSUME IInv, NowIsWanted,
         \/ Connect \/ Disconnect \/ PublishTypes \/ PublishMask \/ Adopt \/ Poll \/ PollAstray \/ Load
         \/ UNCHANGED vars
  PROVE  NowIsWanted'
<1>1. UNCHANGED <<last, cmdq, batch>>
  BY DEF Connect, Disconnect, PublishTypes, PublishMask, Adopt, Poll, PollAstray, Load, vars,
         audioVars, workerVars
<1> QED
  BY <1>1 DEF NowIsWanted, ForWanted

\* What TempoFollower promises of each state is Delivered.
LEMMA KeptHolds == IInv => Follower!Kept
<1> SUFFICES ASSUME IInv, ~Owing, ~lost, NEW s \in last.slots, s \in Able PROVE s \in timed
  BY DEF Follower!Kept
<1>1. Rests /\ cmdq = <<>> /\ Len(cmdq) = 0
  BY DEF Owing, Rests
<1> QED
  BY <1>1 DEF IInv, OnItsWay, Coming, Rests, Able

\* A packet brings slots to the tempo that are meant for it and can hold it, and takes none away.
LEMMA TimesFollow ==
  ASSUME IInv, NEW c \in Command, NEW got, SetTimes(c, got), ForWanted(c, last.slots),
         timed # {} => c.now
  PROVE  /\ timed \subseteq timed' /\ timed' \subseteq timed \cup (last.slots \cap Able)
         /\ lost' \in {lost, TRUE}
<1>1. c.now \in BOOLEAN /\ c.slots \subseteq Slot /\ got \subseteq c.slots /\ lost \in BOOLEAN
  BY ArriveFacts DEF Command, SetTimes, IInv, TypeOK
<1>2. lost' \in {lost, TRUE}
  BY <1>1 DEF SetTimes
<1>3. Reached(got) \subseteq Able /\ Reached(got) \subseteq c.slots
  BY <1>1 DEF Reached, HoldsTime, Able
<1>4. CASE c.now
  BY <1>1, <1>2, <1>3, <1>4 DEF SetTimes, ForWanted
<1>5. CASE ~c.now
  BY <1>2, <1>5 DEF SetTimes
<1> QED
  BY <1>1, <1>4, <1>5

LEMMA HandleFollows ==
  ASSUME IInv, NowIsWanted, Follower!Kept',
         NEW got, SyncNow(got) \/ MuteAll(got) \/ SetAll(got) \/ UnmuteAll(got)
  PROVE  Follower!Follow
<1>1. UNCHANGED <<last, fx>> /\ Owing /\ Owing' \in BOOLEAN
  BY DEF SyncNow, MuteAll, SetAll, UnmuteAll, Take, Phase, Owing, audioVars
<1>2. UNCHANGED <<last.slots, Able>>
  BY <1>1 DEF Able
<1>3. /\ timed \subseteq timed' /\ timed' \subseteq timed \cup (last.slots \cap Able)
      /\ lost' \in {lost, TRUE}
  <2>1. CASE SyncNow(got)
    <3>1. Take(FALSE) /\ SetTimes(cmdq[1], got) /\ cmdq[1] \in Command
      BY <2>1, TakeFacts DEF SyncNow, IInv
    <3>2. timed # {} => cmdq[1].now
      BY <3>1, TakeInv
    <3>3. ForWanted(cmdq[1], last.slots)
      BY <1>1, <3>1, TakeWanted
    <3> QED
      BY <3>1, <3>2, <3>3, TimesFollow
  <2>2. CASE SetAll(got)
    <3>1. SetTimes(batch, got) /\ batch \in Command /\ wpc = "set"
      BY <2>2 DEF SetAll, Phase, IInv, TypeOK
    <3>2. timed # {} => batch.now
      BY <3>1 DEF IInv, TimedByNewest
    <3> QED
      BY <3>1, <3>2, TimesFollow DEF NowIsWanted
  <2>3. CASE MuteAll(got) \/ UnmuteAll(got)
    BY <2>3 DEF MuteAll, UnmuteAll
  <2> QED
    BY <2>1, <2>2, <2>3
<1> QED
  BY <1>1, <1>2, <1>3 DEF Follower!Follow

LEMMA AudioFollows ==
  ASSUME IInv, IInv', Follower!Kept', NewTempo \/ Resend
  PROVE  Follower!NewTempo \/ Follower!Again
<1>1. UNCHANGED fx /\ lost' \in BOOLEAN /\ last'.slots \in SUBSET Slot /\ Owing' \in BOOLEAN
  BY DEF NewTempo, Resend, Dispatch, IInv, TypeOK, Owing
<1>2. UNCHANGED Able
  BY <1>1 DEF Able
<1>3. CASE NewTempo
  BY <1>1, <1>2, <1>3 DEF NewTempo, Follower!NewTempo
<1>4. CASE Resend
  <2>1. ~Owing /\ UNCHANGED timed
    BY <1>4 DEF Resend, Owing
  <2> QED
    BY <1>1, <1>2, <2>1 DEF Follower!Again
<1> QED
  BY <1>3, <1>4

LEMMA LoadFollows ==
  ASSUME IInv, Load
  PROVE  \E slots \in SUBSET Slot : Follower!Replace(slots)
<1> DEFINE loaded == {s \in Slot : fx'[s] # fx[s]}
<1>1. timed' = timed \ loaded
  BY DEF Load, IInv, TypeOK
<1>2. Able' \subseteq Slot /\ Able' \ loaded = Able \ loaded
  BY DEF Able
<1>3. lost' = TRUE /\ UNCHANGED <<last.slots, Owing>>
  BY DEF Load, audioVars, workerVars, Owing
<1>4. Follower!Replace(loaded)
  BY <1>1, <1>2, <1>3 DEF Follower!Replace
<1> QED
  BY <1>4

LEMMA FollowerStep ==
  IInv /\ IInv' /\ Follower!Kept' /\ NowIsWanted /\ [Next]_vars
    => [Follower!Next]_(Follower!followerVars)
<1> SUFFICES ASSUME IInv, IInv', Follower!Kept', NowIsWanted, [Next]_vars
             PROVE  Follower!Next \/ UNCHANGED Follower!followerVars
  OBVIOUS
<1>1. CASE Handle
  BY <1>1, HandleFollows DEF Handle, Follower!Next
<1>2. CASE NewTempo \/ Resend
  BY <1>2, AudioFollows DEF Follower!Next
<1>3. CASE Load
  BY <1>3, LoadFollows DEF Follower!Next
<1>4. CASE \/ Select \/ (\E s \in Slot : Look(s)) \/ Unsettle \/ Change \/ Connect \/ Disconnect
           \/ PublishTypes \/ PublishMask \/ Adopt \/ Poll \/ PollAstray \/ UNCHANGED vars
  <2>1. UNCHANGED <<last, fx, timed, lost, cmdq>>
    BY <1>4 DEF Select, Look, Unsettle, Change, Connect, Disconnect, PublishTypes, PublishMask, Adopt,
                Poll, PollAstray, vars, audioVars, consoleVars
  <2>2. wpc' = wpc \/ (wpc \in {"idle", "publish"} /\ wpc' \in {"idle", "publish"})
    BY <1>4, PublishFacts DEF Select, Look, Unsettle, Change, Connect, Disconnect, PublishMask, Adopt,
                              Poll, PollAstray, vars, workerVars, IInv
  <2>3. Owing' = Owing
    BY <2>1, <2>2 DEF Owing
  <2> QED
    BY <2>1, <2>3 DEF Follower!followerVars, Able
<1> QED
  BY <1>1, <1>2, <1>3, <1>4 DEF Next

\* A slot that has the last tempo keeps it until the next one, no slot gets it that was not
\* meant to, and the worker is not through before all have it or there is an excuse.
THEOREM SlotsFollow == Spec => ImplementsFollower
<1>1. Init => NowIsWanted
  BY BatchFacts DEF Init, NowIsWanted, ForWanted
<1>2. IInv /\ NowIsWanted /\ [Next]_vars => NowIsWanted'
  BY AudioWanted, HandleWanted, RestWanted DEF Next, Handle
<1>3. Init => Follower!Init
  BY DEF Init, Follower!Init, Able, Owing
<1> QED
  BY Invariant, <1>1, <1>2, <1>3, KeptHolds, FollowerStep, PTL
  DEF Spec, Safety, ImplementsFollower, Follower!Spec
\* The promise as such: when nothing is owed any more, the slots that are to follow and can
\* are at the tempo, or there is an excuse.
THEOREM FollowerDelivers == Follower!Spec => []Follower!Kept
<1>1. Follower!Init => Follower!Kept
  BY DEF Follower!Init, Follower!Kept
<1>2. Follower!Kept /\ [Follower!Next]_(Follower!followerVars) => Follower!Kept'
  <2> SUFFICES ASSUME Follower!Kept, [Follower!Next]_(Follower!followerVars) PROVE Follower!Kept'
    OBVIOUS
  <2>1. CASE UNCHANGED Follower!followerVars
    BY <2>1 DEF Follower!followerVars, Follower!Kept
  <2>2. CASE Follower!NewTempo \/ Follower!Again \/ Follower!Follow
    BY <2>2 DEF Follower!NewTempo, Follower!Again, Follower!Follow
  <2>3. ASSUME NEW slots \in SUBSET Slot, Follower!Replace(slots) PROVE Follower!Kept'
    BY <2>3 DEF Follower!Replace, Follower!Kept
  <2> QED
    BY <2>1, <2>2, <2>3 DEF Follower!Next
<1> QED
  BY <1>1, <1>2, PTL DEF Follower!Spec
\* So, once the worker is through, every slot of the last dispatch is at its tempo, unless
\* a part of it was lost or the map was wrong.
THEOREM TempoIsDelivered == Spec => []Delivered
<1>1. TypeOK /\ Follower!Kept => Delivered
  BY DEF TypeOK, Follower!Kept, Owing, Able, Delivered
<1> QED
  BY <1>1, TypeCorrect, SlotsFollow, FollowerDelivers, PTL DEF ImplementsFollower
=============================================================================
