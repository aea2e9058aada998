------------------------------- MODULE SlotAudit -------------------------------
(***************************************************************************)
(* The slot map of src/network.rs and src/lib.rs: the worker asks a console *)
(* for the effect in each of its slots, one query at a time, and handles    *)
(* the commands that came in between two queries.  An answer says a type    *)
(* and not a slot: the first packet to arrive is taken for the answer.      *)
(* The finished map is published in pieces, to the atomics the audio        *)
(* thread sends by and to the copy that is saved with the session; a host   *)
(* that activates the plugin loads that copy back at any time.              *)
(*                                                                          *)
(* The console is the one mock-suite/src/mixer.rs acts: an empty slot never *)
(* answers a query.                                                         *)
(***************************************************************************)
EXTENDS Naturals, Sequences, FiniteSets

CONSTANTS
  SlotCount,   \* slots of a console (8)
  BusCount,    \* the first of them are FX buses, the others inserts (4)
  Console,     \* consoles the user may connect to
  Fx,          \* Fx[c][s]: the effect type in slot s of console c, or Empty
  TypeIds,     \* effect types, other than Empty and Unknown
  Empty,       \* EMPTY of the mixer: no effect in the slot
  Unknown,     \* i32::MIN: not queried, or not answered
  NoType,      \* a packet that carries no type: an /info answer or a read-back
  Nobody,      \* no console: target is None
  CmdCap,      \* capacity of the command channel (64)
  LateCap      \* packets that may be on their way to the socket at once

Slot == 1..SlotCount
Delays == {10, 11, 12, 21, 24, 25, 26}
Kind == TypeIds \cup {Unknown}
Packet == TypeIds \cup {NoType}
SlotMap == [Slot -> Kind]

ASSUME AuditAssumption ==
  /\ SlotCount \in Nat \ {0} /\ BusCount \in 0..SlotCount
  /\ Nobody \notin Console
  /\ TypeIds \subseteq Nat
  /\ Empty \notin TypeIds \cup {Unknown} /\ Unknown \notin TypeIds /\ NoType \notin TypeIds
  /\ Unknown \notin Delays
  /\ Fx \in [Console -> [Slot -> TypeIds \cup {Empty}]]
  /\ CmdCap \in Nat \ {0} /\ LateCap \in Nat \ {0}

VARIABLES
  pc,        \* what the worker is doing
  cur,       \* the slot the audit has come to; 0: no audit
  found,     \* slot_types of audit_slots(): the answers so far
  target,    \* self.target
  sock,      \* self.socket is Some
  rxbuf,     \* packets on their way to the socket, or in its buffer
  types,     \* the shared slot_types
  mask,      \* the shared compatible_slots
  occ,       \* the shared occupied_slots
  saved,     \* the persisted last_slot_types
  cmdq,      \* the command channel
  adopting,  \* how far adopt_restored_state() is
  copy,      \* what it has read
  clean,     \* history: no packet was late, and the console stayed, in this audit
  raced      \* history: an activation and a publication overlapped since the last
             \*          one of them that had the map for itself

auditVars == <<cur, found, clean>>
linkVars  == <<target, sock, rxbuf>>
mapVars   == <<types, mask, occ, saved, raced>>
hostVars  == <<adopting, copy>>
vars == <<pc, auditVars, linkVars, mapVars, cmdq, hostVars>>

-----------------------------------------------------------------------------
(* Effects and slot maps *)

\* is_bpm_compatible(): the insert slots use another table of types.
BpmCompatible(t, s) == s <= BusCount /\ t \in Delays

Compatible(m) == {s \in Slot : BpmCompatible(m[s], s)}
Occupied(m) == {s \in Slot : m[s] # Unknown}
Blank == [s \in Slot |-> Unknown]

\* A map that a console could have given: what it holds, or nothing.
TrueOf(m, c) == \A s \in Slot : m[s] \in {Fx[c][s], Unknown}

Plain(op) == [op |-> op, to |-> Nobody]
Retarget(c) == [op |-> "UpdateTarget", to |-> c]
Command ==
  {Plain(op) : op \in {"AuditSlots", "Disconnect", "Send"}}
    \cup {Retarget(c) : c \in Console}

Init ==
  /\ pc = "drain" /\ cur = 0 /\ found = Blank
  /\ target = Nobody /\ sock = FALSE /\ rxbuf = {}
  /\ types = Blank /\ mask = {} /\ occ = {}
  /\ saved \in {Blank} \cup {[s \in Slot |-> IF Fx[c][s] = Empty THEN Unknown ELSE Fx[c][s]]
                             : c \in Console}
  /\ cmdq = <<>>
  /\ adopting = "no" /\ copy = Blank
  /\ clean = FALSE /\ raced = FALSE

-----------------------------------------------------------------------------
(* The socket *)

\* What may be on its way after a query to a console that answers with p: the
\* answer as well, unless the slot is empty or a packet is lost.
Replies(p) ==
  {rxbuf} \cup (IF p = Empty \/ Cardinality(rxbuf) = LateCap THEN {} ELSE {rxbuf \cup {p}})

\* An /info probe or a read-back: the answer carries no type, and the first packet
\* to arrive within the wait is taken for it.
InfoExchange ==
  /\ \E buf \in Replies(NoType) : rxbuf' \in {buf} \cup {buf \ {p} : p \in buf}
  /\ UNCHANGED sock

NoSocket == sock' = FALSE /\ rxbuf' = {}

-----------------------------------------------------------------------------
(* Commands: the inner loop of run() when cur = 0, of audit_slots() otherwise *)

Take(op) ==
  /\ pc = "drain" /\ cur <= SlotCount /\ cmdq # <<>> /\ Head(cmdq).op = op
  /\ cmdq' = Tail(cmdq)

\* connect(): the socket is rebound and an /info answer waited for, which comes,
\* comes late, or never comes; the send itself may fail.
Connect ==
  /\ Take("UpdateTarget")
  /\ target' = Head(cmdq).to
  /\ \/ sock' = TRUE /\ rxbuf' \in {{}, {NoType}}
     \/ NoSocket
     \/ (sock /\ InfoExchange)
  /\ clean' = FALSE
  /\ UNCHANGED <<pc, cur, found, mapVars, hostVars>>

Disconnect ==
  /\ Take("Disconnect")
  /\ target' = Nobody /\ NoSocket
  /\ UNCHANGED <<pc, auditVars, mapVars, hostVars>>

\* SyncNow and HardResetBatch: packets, any of which may drop the socket; to no
\* console they go nowhere.  None is answered.
Send ==
  /\ Take("Send")
  /\ \/ UNCHANGED <<sock, rxbuf>>
     \/ target # Nobody /\ NoSocket
  /\ UNCHANGED <<pc, auditVars, target, mapVars, hostVars>>

\* Mutant: an audit that only starts when nothing waits in the socket's buffer.
HasQuietLink == sock /\ target # Nobody /\ rxbuf = {}

HasLink == sock /\ target # Nobody

\* AuditSlots starts an audit, if there is a link.
AuditSlots ==
  /\ Take("AuditSlots") /\ cur = 0
  /\ IF HasLink
     THEN cur' = 1 /\ found' = Blank /\ clean' = TRUE
     ELSE UNCHANGED auditVars
  /\ UNCHANGED <<pc, linkVars, mapVars, hostVars>>

\* During an audit it is dropped (ScanTargets, too: see DeviceScan).
Skipped ==
  /\ cur # 0 /\ Take("AuditSlots")
  /\ UNCHANGED <<pc, auditVars, linkVars, mapVars, hostVars>>

-----------------------------------------------------------------------------
(* The audit *)

\* The audit's own variables are gone when it returns.
AuditOver == cur' = 0 /\ found' = Blank /\ clean' = FALSE

Auditing == pc = "drain" /\ cur \in Slot /\ cmdq = <<>>

\* A command took the link: the answers so far are dropped.
Interrupted ==
  /\ Auditing /\ (~sock \/ target = Nobody)
  /\ AuditOver
  /\ UNCHANGED <<pc, linkVars, mapVars, cmdq, hostVars>>

\* The query leaves, or cannot be sent and the slot is passed over.
Query ==
  /\ Auditing /\ sock /\ target # Nobody
  /\ \/ /\ rxbuf' \in Replies(Fx[target][cur])
        /\ pc' = "await" /\ UNCHANGED cur
     \/ UNCHANGED <<pc, rxbuf>> /\ cur' = cur + 1
  /\ clean' = (clean /\ rxbuf = {})
  /\ UNCHANGED <<found, target, sock, mapVars, cmdq, hostVars>>

\* Mutant: slots counted from 0 on one side only.
IndexShifted(s) == (s % SlotCount) + 1

\* parse_fx_type(): the address of the packet is not looked at.
Decoded(p) == IF p = NoType THEN found[cur] ELSE p

Index(s) == s

\* The first packet to arrive is the answer, ...
Answer(p) ==
  /\ pc = "await" /\ p \in rxbuf
  /\ rxbuf' = rxbuf \ {p}
  /\ found' = [found EXCEPT ![Index(cur)] = Decoded(p)]
  /\ cur' = cur + 1 /\ pc' = "drain"
  /\ UNCHANGED <<clean, target, sock, mapVars, cmdq, hostVars>>

\* ... or none arrives in time.
Timeout ==
  /\ pc = "await"
  /\ cur' = cur + 1 /\ pc' = "drain"
  /\ UNCHANGED <<found, clean, linkVars, mapVars, cmdq, hostVars>>

\* The eight answers go to the shared types, ...
PublishTypes ==
  /\ pc = "drain" /\ cur = SlotCount + 1
  /\ types' = found
  /\ raced' = (adopting # "no")
  /\ pc' = "persist"
  /\ UNCHANGED <<auditVars, linkVars, mask, occ, saved, cmdq, hostVars>>

\* ... to the persisted copy, ...
Persist ==
  /\ pc = "persist"
  /\ saved' = found
  /\ pc' = "masks"
  /\ UNCHANGED <<auditVars, linkVars, types, mask, occ, raced, cmdq, hostVars>>

\* ... and as two masks to the audio thread, which is told.
PublishMasks ==
  /\ pc = "masks"
  /\ mask' = Compatible(found) /\ occ' = Occupied(found)
  /\ AuditOver
  /\ pc' = "drain"
  /\ UNCHANGED <<linkVars, types, saved, raced, cmdq, hostVars>>

-----------------------------------------------------------------------------
(* The rest of the worker's loop, seen from the audit *)

Idle == pc = "drain" /\ cur = 0 /\ cmdq = <<>>

\* A heartbeat or a read-back: a query whose answer carries no type.
Chat ==
  /\ Idle /\ target # Nobody /\ sock
  /\ InfoExchange \/ NoSocket
  /\ UNCHANGED <<pc, auditVars, target, mapVars, cmdq, hostVars>>

\* The heartbeat rebinds a socket that was dropped.
Rebind ==
  /\ Idle /\ target # Nobody /\ ~sock
  /\ sock' = TRUE /\ rxbuf' \in {{}, {NoType}}
  /\ UNCHANGED <<pc, auditVars, target, mapVars, cmdq, hostVars>>

-----------------------------------------------------------------------------
(* The plugin *)

\* try_send(): a channel that is full drops the command.
Offer(cmd) == Len(cmdq) < CmdCap /\ cmdq' = Append(cmdq, cmd)

\* The user, the editor, the audio thread and the edges of the connection.
Request(cmd) ==
  /\ Offer(cmd)
  /\ UNCHANGED <<pc, auditVars, linkVars, mapVars, hostVars>>

\* adopt_restored_state(), at every activation: the persisted copy is read, ...
AdoptRead ==
  /\ adopting = "no"
  /\ copy' = saved
  /\ adopting' = "types"
  /\ raced' = (pc \in {"persist", "masks"})
  /\ UNCHANGED <<pc, auditVars, linkVars, types, mask, occ, saved, cmdq>>

\* ... stored to the shared types ...
AdoptTypes ==
  /\ adopting = "types"
  /\ types' = copy
  /\ adopting' = "masks"
  /\ UNCHANGED <<pc, auditVars, linkVars, mask, occ, saved, raced, cmdq, copy>>

\* Mutant: a restored effect counts as one with a delay time.
AdoptedOccupied == Occupied(copy)

AdoptedMask == Compatible(copy)

\* ... and to the masks, slot by slot; a slot without a type is in neither.
AdoptMasks ==
  /\ adopting = "masks"
  /\ mask' = AdoptedMask /\ occ' = Occupied(copy)
  /\ adopting' = "no" /\ copy' = Blank
  /\ UNCHANGED <<pc, auditVars, linkVars, types, saved, raced, cmdq>>

-----------------------------------------------------------------------------
(* The specification *)

Worker ==
  \/ Connect \/ Disconnect \/ Send \/ AuditSlots \/ Skipped
  \/ Interrupted \/ Query \/ (\E p \in Packet : Answer(p)) \/ Timeout
  \/ PublishTypes \/ Persist \/ PublishMasks
  \/ Chat \/ Rebind

Plugin ==
  \/ \E cmd \in Command : Request(cmd)
  \/ AdoptRead \/ AdoptTypes \/ AdoptMasks

Next == Worker \/ Plugin

\* The worker's thread keeps running; the drain between two queries ends as soon
\* as the channel is found empty, however often it is filled again.
Fairness == WF_vars(Worker) /\ SF_vars(Query) /\ SF_vars(Interrupted)

Safety == Init /\ [][Next]_vars
Spec == Safety /\ Fairness

-----------------------------------------------------------------------------
(* Properties *)

\* Every variable holds what the code's field of that name can hold: a slot map
\* has a type or nothing for each slot, the masks name slots, and the audit is at
\* a slot that exists or at its end.
TypeOK ==
  /\ pc \in {"drain", "await", "persist", "masks"}
  /\ cur \in 0..(SlotCount + 1) /\ found \in SlotMap
  /\ target \in Console \cup {Nobody} /\ sock \in BOOLEAN
  /\ rxbuf \subseteq Packet
  /\ types \in SlotMap /\ mask \subseteq Slot /\ occ \subseteq Slot /\ saved \in SlotMap
  /\ cmdq \in Seq(Command)
  /\ adopting \in {"no", "types", "masks"} /\ copy \in SlotMap
  /\ clean \in BOOLEAN /\ raced \in BOOLEAN

\* A map whose every query found the socket quiet is true of the console it was
\* taken from, whatever commands were handled between its queries: each slot holds
\* the console's effect there, or nothing when the answer was lost.
MapIsTheConsoles ==
  cur # 0 /\ clean /\ target # Nobody /\ pc # "await" => TrueOf(found, target)

\* Once neither a publication nor an activation is under way, the two masks, the
\* types and the saved copy say the same, unless the last of both overlapped.
MapsAgree ==
  pc \notin {"persist", "masks"} /\ adopting = "no" /\ ~raced =>
    /\ mask = Compatible(types) /\ occ = Occupied(types)
    /\ types \in {saved, Blank}

\* An audit that was asked for leads to a map, although it is dropped when another
\* one is under way; unless the link goes, or commands never stop coming in.
AuditAnswered ==
  []<>(cmdq = <<>>) =>
    ((\E i \in DOMAIN cmdq : cmdq[i].op = "AuditSlots")
       ~> (pc = "persist" \/ ~sock \/ target = Nobody))
=============================================================================
