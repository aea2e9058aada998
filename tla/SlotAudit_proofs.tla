---------------------------- MODULE SlotAudit_proofs ----------------------------
(***************************************************************************)
(* Theorems about SlotAudit, for every number of slots, every set of        *)
(* consoles and effects, and every capacity.                                *)
(***************************************************************************)
EXTENDS SlotAudit, TLAPS

-----------------------------------------------------------------------------
(* Types *)

LEMMA SlotFacts ==
  /\ 1 \in Slot /\ SlotCount \in Nat
  /\ \A s \in Slot : s + 1 \in 0..(SlotCount + 1) /\ s \in 0..(SlotCount + 1)
  /\ 0 \notin Slot /\ 0 \in 0..(SlotCount + 1) /\ 1 \in 0..(SlotCount + 1)
  /\ SlotCount + 1 \notin Slot
  BY AuditAssumption DEF Slot

LEMMA MapFacts ==
  /\ Blank \in SlotMap
  /\ \A m \in SlotMap, s \in Slot, t \in Kind : [m EXCEPT ![s] = t] \in SlotMap
  /\ \A m : Compatible(m) \subseteq Slot /\ Occupied(m) \subseteq Slot
  BY DEF Blank, SlotMap, Kind, Compatible, Occupied

\* An answer is awaited for a slot, and a map is stored when all of them were asked.
AtASlot ==
  /\ pc = "await" => cur \in Slot
  /\ pc \in {"persist", "masks"} => cur = SlotCount + 1

LEMMA InitType == Init => TypeOK
<1> SUFFICES ASSUME Init PROVE TypeOK
  OBVIOUS
<1>1. saved \in SlotMap
  <2>1. CASE saved = Blank
    BY <2>1, MapFacts
  <2>2. ASSUME NEW c \in Console,
               saved = [s \in Slot |-> IF Fx[c][s] = Empty THEN Unknown ELSE Fx[c][s]]
        PROVE  saved \in SlotMap
    <3>1. \A s \in Slot : Fx[c][s] \in TypeIds \cup {Empty}
      BY AuditAssumption
    <3> QED
      BY <2>2, <3>1 DEF SlotMap, Kind
  <2> QED
    BY <2>1, <2>2 DEF Init
<1>2. cmdq \in Seq(Command)
  BY DEF Init
<1> QED
  BY <1>1, <1>2, MapFacts, SlotFacts DEF Init, TypeOK

\* Taking a command, or offering one, leaves a channel of commands.
LEMMA QueueFacts ==
  /\ \A q \in Seq(Command) : q # <<>> => Head(q) \in Command /\ Tail(q) \in Seq(Command)
  /\ \A q \in Seq(Command), cmd \in Command : Append(q, cmd) \in Seq(Command)
  /\ \A cmd \in Command : cmd.op = "UpdateTarget" => cmd.to \in Console
<1>1. \A q \in Seq(Command) : q # <<>> => Head(q) \in Command /\ Tail(q) \in Seq(Command)
  OBVIOUS
<1>2. \A q \in Seq(Command), cmd \in Command : Append(q, cmd) \in Seq(Command)
  OBVIOUS
<1>3. \A cmd \in Command : cmd.op = "UpdateTarget" => cmd.to \in Console
  BY DEF Command, Plain, Retarget
<1> QED
  BY <1>1, <1>2, <1>3

LEMMA LinkType ==
  ASSUME TypeOK, Connect \/ Disconnect \/ Send \/ Chat \/ Rebind
  PROVE  TypeOK'
<1>1. ASSUME InfoExchange PROVE sock' \in BOOLEAN /\ rxbuf' \subseteq Packet
  BY <1>1 DEF InfoExchange, Replies, TypeOK, Packet
<1>2. ASSUME NoSocket PROVE sock' \in BOOLEAN /\ rxbuf' \subseteq Packet
  BY <1>2 DEF NoSocket
<1>3. {} \subseteq Packet /\ {NoType} \subseteq Packet
  BY DEF Packet
<1>4. ASSUME NEW op, Take(op) PROVE cmdq' \in Seq(Command)
  BY <1>4, QueueFacts DEF Take, TypeOK
<1>5. CASE Connect
  <2>1. target' \in Console
    BY <1>5, QueueFacts DEF Connect, Take, TypeOK
  <2>2. sock' \in BOOLEAN /\ rxbuf' \subseteq Packet
    BY <1>5, <1>1, <1>2, <1>3 DEF Connect
  <2> QED
    BY <1>5, <2>1, <2>2, <1>4 DEF Connect, TypeOK, mapVars, hostVars
<1>6. CASE Disconnect
  BY <1>6, <1>2, <1>4 DEF Disconnect, TypeOK, auditVars, mapVars, hostVars
<1>7. CASE Send
  <2>1. sock' \in BOOLEAN /\ rxbuf' \subseteq Packet
    BY <1>7, <1>2 DEF Send, TypeOK
  <2> QED
    BY <1>7, <2>1, <1>4 DEF Send, TypeOK, auditVars, mapVars, hostVars
<1>8. CASE Chat
  <2>1. sock' \in BOOLEAN /\ rxbuf' \subseteq Packet
    BY <1>8, <1>1, <1>2 DEF Chat
  <2> QED
    BY <1>8, <2>1 DEF Chat, TypeOK, auditVars, mapVars, hostVars
<1>9. CASE Rebind
  BY <1>9, <1>3 DEF Rebind, TypeOK, auditVars, mapVars, hostVars
<1> QED
  BY <1>5, <1>6, <1>7, <1>8, <1>9

LEMMA AuditType ==
  ASSUME TypeOK, AtASlot,
         AuditSlots \/ Skipped \/ Interrupted \/ Query \/ Timeout
           \/ PublishTypes \/ Persist \/ PublishMasks
  PROVE  TypeOK'
<1>1. CASE AuditSlots
  <2>1. cmdq' \in Seq(Command)
    BY <1>1, QueueFacts DEF AuditSlots, Take, TypeOK
  <2> QED
    BY <1>1, <2>1, MapFacts, SlotFacts DEF AuditSlots, TypeOK, auditVars, linkVars, mapVars, hostVars
<1>2. CASE Skipped
  <2>1. cmdq' \in Seq(Command)
    BY <1>2, QueueFacts DEF Skipped, Take, TypeOK
  <2> QED
    BY <1>2, <2>1 DEF Skipped, TypeOK, auditVars, linkVars, mapVars, hostVars
<1>3. CASE Interrupted
  BY <1>3, MapFacts, SlotFacts DEF Interrupted, AuditOver, TypeOK, linkVars, mapVars, hostVars
<1>4. CASE Query
  <2>1. cur' \in 0..(SlotCount + 1)
    BY <1>4, SlotFacts DEF Query, Auditing, TypeOK
  <2>2. rxbuf' \subseteq Packet
    <3>1. target \in Console /\ cur \in Slot
      BY <1>4 DEF Query, Auditing, TypeOK
    <3>2. Fx[target][cur] \in TypeIds \cup {Empty}
      BY <3>1, AuditAssumption
    <3> QED
      BY <1>4, <3>2 DEF Query, Replies, TypeOK, Packet
  <2>3. clean' \in BOOLEAN
    BY <1>4 DEF Query, TypeOK
  <2>4. pc' \in {"drain", "await", "persist", "masks"}
    BY <1>4 DEF Query, TypeOK
  <2> QED
    BY <1>4, <2>1, <2>2, <2>3, <2>4 DEF Query, TypeOK, mapVars, hostVars
<1>5. CASE Timeout
  <2>1. cur' \in 0..(SlotCount + 1)
    BY <1>5, SlotFacts DEF Timeout, AtASlot
  <2> QED
    BY <1>5, <2>1 DEF Timeout, TypeOK, linkVars, mapVars, hostVars
<1>6. CASE PublishTypes
  BY <1>6 DEF PublishTypes, TypeOK, auditVars, linkVars, hostVars
<1>7. CASE Persist
  BY <1>7 DEF Persist, TypeOK, auditVars, linkVars, hostVars
<1>8. CASE PublishMasks
  BY <1>8, MapFacts, SlotFacts DEF PublishMasks, AuditOver, TypeOK, linkVars, hostVars
<1> QED
  BY <1>1, <1>2, <1>3, <1>4, <1>5, <1>6, <1>7, <1>8

LEMMA AnswerType ==
  ASSUME TypeOK, AtASlot, NEW p \in Packet, Answer(p)
  PROVE  TypeOK'
<1>1. cur \in Slot
  BY DEF AtASlot, Answer
<1>2. found \in SlotMap
  BY DEF TypeOK
<1>3. Decoded(p) \in Kind
  BY <1>1, <1>2 DEF Decoded, Packet, Kind, SlotMap
<1>4. found' \in SlotMap
  BY <1>1, <1>2, <1>3, MapFacts DEF Answer, Index
<1>5. cur' \in 0..(SlotCount + 1)
  BY <1>1, SlotFacts DEF Answer
<1>6. rxbuf' \subseteq Packet
  BY DEF Answer, TypeOK
<1> QED
  BY <1>4, <1>5, <1>6 DEF Answer, TypeOK, mapVars, hostVars

LEMMA PluginType ==
  ASSUME TypeOK, Plugin
  PROVE  TypeOK'
<1>1. ASSUME NEW cmd \in Command, Request(cmd) PROVE TypeOK'
  <2>1. cmdq' \in Seq(Command)
    BY <1>1, QueueFacts DEF Request, Offer, TypeOK
  <2> QED
    BY <1>1, <2>1 DEF Request, TypeOK, auditVars, linkVars, mapVars, hostVars
<1>2. CASE AdoptRead
  BY <1>2 DEF AdoptRead, TypeOK, auditVars, linkVars
<1>3. CASE AdoptTypes
  BY <1>3 DEF AdoptTypes, TypeOK, auditVars, linkVars
<1>4. CASE AdoptMasks
  BY <1>4, MapFacts DEF AdoptMasks, AdoptedMask, TypeOK, auditVars, linkVars
<1> QED
  BY <1>1, <1>2, <1>3, <1>4 DEF Plugin

LEMMA AtASlotStep ==
  ASSUME TypeOK, AtASlot, Next
  PROVE  AtASlot'
<1>1. CASE Connect
  BY <1>1 DEF Connect, Take, AtASlot
<1>2. CASE Disconnect \/ Send
  BY <1>2 DEF Disconnect, Send, Take, auditVars, AtASlot
<1>3. CASE AuditSlots \/ Skipped
  BY <1>3, SlotFacts DEF AuditSlots, Skipped, Take, auditVars, AtASlot
<1>4. CASE Interrupted \/ Query
  BY <1>4 DEF Interrupted, Query, Auditing, AtASlot
<1>5. ASSUME NEW p \in Packet, Answer(p) PROVE AtASlot'
  BY <1>5 DEF Answer, AtASlot
<1>6. CASE Timeout
  BY <1>6 DEF Timeout, AtASlot
<1>7. CASE PublishTypes \/ Persist \/ PublishMasks
  BY <1>7 DEF PublishTypes, Persist, PublishMasks, auditVars, AtASlot
<1>8. CASE Chat \/ Rebind
  BY <1>8 DEF Chat, Rebind, auditVars, AtASlot
<1>9. CASE Plugin
  BY <1>9 DEF Plugin, Request, AdoptRead, AdoptTypes, AdoptMasks, auditVars, AtASlot
<1> QED
  BY <1>1, <1>2, <1>3, <1>4, <1>5, <1>6, <1>7, <1>8, <1>9 DEF Next, Worker

LEMMA TypeStep == TypeOK /\ AtASlot /\ [Next]_vars => (TypeOK /\ AtASlot)'
<1> SUFFICES ASSUME TypeOK, AtASlot, [Next]_vars PROVE (TypeOK /\ AtASlot)'
  OBVIOUS
<1>1. CASE UNCHANGED vars
  BY <1>1 DEF vars, auditVars, linkVars, mapVars, hostVars, TypeOK, AtASlot
<1>2. CASE Next
  <2>1. TypeOK'
    BY <1>2, LinkType, AuditType, AnswerType, PluginType DEF Next, Worker
  <2> QED
    BY <1>2, <2>1, AtASlotStep
<1> QED
  BY <1>1, <1>2

\* Every variable of the audit keeps its type, and the audit is always at a slot of
\* the console or past the last one (audit_slots()).
THEOREM TypeCorrect == Spec => []TypeOK
<1>1. Init => TypeOK /\ AtASlot
  BY InitType DEF Init, AtASlot
<1>2. TypeOK /\ AtASlot /\ [Next]_vars => (TypeOK /\ AtASlot)'
  BY TypeStep
<1> QED
  BY <1>1, <1>2, PTL DEF Spec, Safety

-----------------------------------------------------------------------------
(* The map an audit takes *)

\* While every query found the socket quiet, what waits in it answers the slot the
\* audit is at.
Quiet ==
  clean /\ cur # 0 /\ target # Nobody =>
    /\ TrueOf(found, target)
    /\ pc = "await" => \A p \in rxbuf : p = Fx[target][cur] /\ p # Empty

LEMMA QuietAnswer ==
  ASSUME TypeOK, AtASlot, Quiet, NEW p \in Packet, Answer(p)
  PROVE  Quiet'
<1> SUFFICES ASSUME clean, target # Nobody PROVE TrueOf(found', target)
  BY DEF Answer, Quiet
<1>1. cur \in Slot /\ cur # 0 /\ target \in Console /\ found \in SlotMap
  BY SlotFacts DEF Answer, AtASlot, TypeOK
<1>2. TrueOf(found, target) /\ p = Fx[target][cur] /\ p # Empty
  BY <1>1 DEF Quiet, Answer
<1>3. p # NoType
  <2>1. Fx[target][cur] \in TypeIds \cup {Empty}
    BY <1>1, AuditAssumption
  <2> QED
    BY <1>2, <2>1, AuditAssumption
<1>4. found' = [found EXCEPT ![cur] = Fx[target][cur]]
  BY <1>2, <1>3 DEF Answer, Decoded, Index
<1> QED
  BY <1>1, <1>2, <1>4 DEF TrueOf, SlotMap

LEMMA QuietStep == TypeOK /\ AtASlot /\ Quiet /\ [Next]_vars => Quiet'
<1> SUFFICES ASSUME TypeOK, AtASlot, Quiet, [Next]_vars PROVE Quiet'
  OBVIOUS
<1>1. CASE UNCHANGED vars
  BY <1>1 DEF vars, auditVars, linkVars, Quiet
<1>2. CASE Connect
  BY <1>2 DEF Connect, Quiet
<1>3. CASE Disconnect
  BY <1>3 DEF Disconnect, Quiet
<1>4. CASE Send
  BY <1>4 DEF Send, Take, auditVars, Quiet
<1>5. CASE AuditSlots
  <2>1. CASE HasLink
    BY <1>5, <2>1 DEF AuditSlots, Take, Blank, TrueOf, linkVars, Quiet
  <2>2. CASE ~HasLink
    BY <1>5, <2>2 DEF AuditSlots, auditVars, linkVars, Take, Quiet
  <2> QED
    BY <2>1, <2>2
<1>6. CASE Skipped
  BY <1>6 DEF Skipped, auditVars, linkVars, Quiet
<1>7. CASE Interrupted \/ PublishMasks
  BY <1>7 DEF Interrupted, PublishMasks, AuditOver, Quiet
<1>8. CASE Query
  <2> SUFFICES ASSUME clean', cur' # 0, target # Nobody
               PROVE  /\ TrueOf(found, target)
                      /\ pc' = "await" => \A p \in rxbuf' : p = Fx[target][cur'] /\ p # Empty
    BY <1>8 DEF Query, Quiet
  <2>1. clean /\ rxbuf = {} /\ cur # 0
    BY <1>8, SlotFacts DEF Query, Auditing
  <2>2. TrueOf(found, target)
    BY <2>1 DEF Quiet
  <2>3. ASSUME pc' = "await", NEW p \in rxbuf' PROVE p = Fx[target][cur'] /\ p # Empty
    <3>1. rxbuf' \in Replies(Fx[target][cur]) /\ cur' = cur
      BY <1>8, <2>3 DEF Query, Auditing
    <3> QED
      BY <2>1, <2>3, <3>1 DEF Replies
  <2> QED
    BY <2>2, <2>3
<1>9. ASSUME NEW p \in Packet, Answer(p) PROVE Quiet'
  BY <1>9, QuietAnswer
<1>10. CASE Timeout
  <2>1. cur # 0
    BY <1>10, SlotFacts DEF Timeout, AtASlot
  <2> QED
    BY <1>10, <2>1 DEF Timeout, linkVars, Quiet
<1>11. CASE PublishTypes \/ Persist
  BY <1>11 DEF PublishTypes, Persist, auditVars, linkVars, Quiet
<1>12. CASE Chat
  BY <1>12 DEF Chat, Idle, auditVars, Quiet
<1>13. CASE Rebind
  BY <1>13 DEF Rebind, Idle, auditVars, Quiet
<1>14. CASE Plugin
  BY <1>14 DEF Plugin, Request, AdoptRead, AdoptTypes, AdoptMasks, auditVars, linkVars, Quiet
<1> QED
  BY <1>1, <1>2, <1>3, <1>4, <1>5, <1>6, <1>7, <1>8, <1>9, <1>10, <1>11, <1>12, <1>13, <1>14
     DEF Next, Worker

\* An audit none of whose queries met an older packet has the effects of its console
\* in their slots, whatever commands were handled in between (audit_slots()).
THEOREM AuditIsTrue == Spec => []MapIsTheConsoles
<1>1. Init => TypeOK /\ AtASlot /\ Quiet
  BY InitType DEF Init, AtASlot, Quiet
<1>2. TypeOK /\ AtASlot /\ Quiet /\ [Next]_vars => (TypeOK /\ AtASlot /\ Quiet)'
  BY TypeStep, QuietStep
<1>3. TypeOK /\ AtASlot /\ Quiet => MapIsTheConsoles
  BY DEF Quiet, MapIsTheConsoles
<1> QED
  BY <1>1, <1>2, <1>3, PTL DEF Spec, Safety

-----------------------------------------------------------------------------
(* The copies of the map *)

\* A publication, or an activation, that has the map to itself has stored its own
\* map so far.
HalfStored ==
  ~raced =>
    /\ pc \in {"persist", "masks"} => adopting = "no" /\ types = found
    /\ pc = "masks" => saved = found
    /\ adopting # "no" => copy = saved
    /\ adopting = "masks" => types = copy

LEMMA CopiesStep ==
  TypeOK /\ HalfStored /\ MapsAgree /\ [Next]_vars => (HalfStored /\ MapsAgree)'
<1> SUFFICES ASSUME TypeOK, HalfStored, MapsAgree, [Next]_vars
             PROVE  (HalfStored /\ MapsAgree)'
  OBVIOUS
<1>1. CASE UNCHANGED vars
  BY <1>1 DEF vars, auditVars, mapVars, hostVars, HalfStored, MapsAgree, Compatible, Occupied
<1>2. CASE Connect \/ Disconnect \/ Send \/ AuditSlots \/ Skipped
  BY <1>2 DEF Connect, Disconnect, Send, AuditSlots, Skipped, Take, mapVars, hostVars,
              HalfStored, MapsAgree, Compatible, Occupied
<1>3. CASE Interrupted \/ Query \/ Chat \/ Rebind
  BY <1>3 DEF Interrupted, Query, Chat, Rebind, Auditing, Idle, mapVars, hostVars,
              HalfStored, MapsAgree, Compatible, Occupied
<1>4. ASSUME NEW p \in Packet, Answer(p) PROVE (HalfStored /\ MapsAgree)'
  BY <1>4 DEF Answer, mapVars, hostVars, HalfStored, MapsAgree, Compatible, Occupied
<1>5. CASE Timeout
  BY <1>5 DEF Timeout, mapVars, hostVars, HalfStored, MapsAgree, Compatible, Occupied
<1>6. CASE PublishTypes
  BY <1>6 DEF PublishTypes, auditVars, hostVars, HalfStored, MapsAgree
<1>7. CASE Persist
  BY <1>7 DEF Persist, auditVars, hostVars, HalfStored, MapsAgree
<1>8. CASE PublishMasks
  <2>1. HalfStored'
    BY <1>8 DEF PublishMasks, hostVars, HalfStored
  <2>2. MapsAgree'
    BY <1>8 DEF PublishMasks, hostVars, HalfStored, MapsAgree, Compatible, Occupied
  <2> QED
    BY <2>1, <2>2
<1>9. CASE Plugin
  <2>1. ASSUME NEW cmd \in Command, Request(cmd) PROVE (HalfStored /\ MapsAgree)'
    BY <2>1 DEF Request, auditVars, mapVars, hostVars, HalfStored, MapsAgree, Compatible, Occupied
  <2>2. CASE AdoptRead
    BY <2>2 DEF AdoptRead, HalfStored, MapsAgree
  <2>3. CASE AdoptTypes
    BY <2>3 DEF AdoptTypes, HalfStored, MapsAgree
  <2>4. CASE AdoptMasks
    BY <2>4 DEF AdoptMasks, AdoptedMask, HalfStored, MapsAgree, Compatible, Occupied
  <2> QED
    BY <1>9, <2>1, <2>2, <2>3, <2>4 DEF Plugin
<1> QED
  BY <1>1, <1>2, <1>3, <1>4, <1>5, <1>6, <1>7, <1>8, <1>9 DEF Next, Worker

\* At rest the masks the audio thread sends by, the types the editor draws and the
\* copy saved with the session are one map, unless an activation overlapped the last
\* publication (audit_slots(), adopt_restored_state()).
THEOREM CopiesAgree == Spec => []MapsAgree
<1>1. Init => TypeOK /\ AtASlot /\ HalfStored /\ MapsAgree
  <2>1. ASSUME Init PROVE MapsAgree
    BY <2>1, AuditAssumption DEF Init, MapsAgree, Compatible, Occupied, Blank, BpmCompatible
  <2> QED
    BY <2>1, InitType DEF Init, AtASlot, HalfStored
<1>2. TypeOK /\ AtASlot /\ HalfStored /\ MapsAgree /\ [Next]_vars
        => (TypeOK /\ AtASlot /\ HalfStored /\ MapsAgree)'
  BY TypeStep, CopiesStep
<1> QED
  BY <1>1, <1>2, PTL DEF Spec, Safety
=============================================================================
