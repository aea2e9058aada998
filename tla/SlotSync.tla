------------------------------- MODULE SlotSync -------------------------------
(***************************************************************************)
(* From dispatch() in src/lib.rs to the console: the audio thread picks the *)
(* slots that are to follow the tempo and queues commands for them; the     *)
(* worker of src/network.rs sends their packets, a Hard Reset as mute, set  *)
(* and unmute; a read-back of one slot confirms the tempo or has it sent    *)
(* again.  The map of effect types that all of them go by is written by     *)
(* audits, one type after the other and then the mask, and by activations   *)
(* of the plugin: between a dispatch and its packets, or while a dispatch   *)
(* reads the mask and then one type after the other.  The operator changes  *)
(* effects and settings meanwhile.                                          *)
(*                                                                          *)
(* Of a tempo only this is kept, in commands and in the console: whether it *)
(* is the last one the audio thread settled on.  When a tempo counts as     *)
(* changed is SyncEngine's subject, how an audit comes by its answers       *)
(* SlotAudit's; the slots here are FX buses.                                *)
(***************************************************************************)
EXTENDS Naturals, SequencesExt

CONSTANTS
  SlotCount,   \* FX buses (4)
  Racks,       \* the effects the operator may load: functions from slots to types
  Settings,    \* values of all_slots, fx_slot, the effect filter and the sync modes
  Maps,        \* the maps, beside the true one, that an audit may end with or a session restore
  Unknown,     \* i32::MIN: not queried, or not answered
  CmdCap,      \* capacity of the command channel (64)
  LateCmds     \* bound: how many commands come in while an audit waits for its last answer

Slot == 1..SlotCount
Delays == {10, 11, 12, 21, 24, 25, 26}

ASSUME SyncAssumption ==
  /\ SlotCount \in Nat \ {0} /\ CmdCap \in Nat \ {0} /\ LateCmds \in Nat
  /\ Racks \subseteq [Slot -> Nat] /\ Maps \subseteq [Slot -> Nat \cup {Unknown}]
  /\ Unknown \notin Nat
  /\ Settings \subseteq [all : BOOLEAN, slot : Slot, filter : SUBSET Delays, hard : BOOLEAN]

VARIABLES
  set,       \* all_slots_atom, fx_slot_atom, fx_type_filter; hard: the phase follows changes
  types,     \* the shared slot_types
  mask,      \* the shared compatible_slots
  stored,    \* how many types the audit that is publishing has stored
  sel,       \* what dispatch() has read so far
  last,      \* the last dispatch: whether a Hard Reset, and the slots it is for
  retry,     \* on_change_retry_pending, for its tempo and its mode
  cmdq,      \* the command channel
  wpc,       \* what the worker is in the middle of
  batch,     \* the HardResetBatch it handles
  link,      \* it has a socket and a target
  fx,        \* external: the effect in each slot of the console
  timed,     \* external: the slots whose delay time is that of the current tempo
  muted,     \* external: FX returns that are muted
  lost,      \* history: some of the last dispatch was lost, or went by a map that was wrong
  missed     \* history: slots that a packet of the current batch missed, or that one left muted

audioVars   == <<sel, last, retry>>
workerVars  == <<wpc, batch, link>>
consoleVars == <<fx, timed, muted>>
mapVars     == <<types, mask>>
vars == <<set, mapVars, stored, audioVars, cmdq, workerVars, consoleVars, lost, missed>>

-----------------------------------------------------------------------------
(* Effects *)

\* delay_par(): the first parameter, but for DLY and for types it does not know.
DelayPar(t) == IF t \in Delays \ {10} THEN 1 ELSE 2

\* The parameter that a type is thought to keep its delay time in is the slot's.
HoldsTime(s, t) == fx[s] \in Delays /\ DelayPar(t) = DelayPar(fx[s])

\* Mutant: every slot is taken for DLY.
TypeForAny(s) == 10

\* slot_type_for(): a type that is not known is taken for DLY.
TypeFor(s) == IF types[s] = Unknown THEN 10 ELSE types[s]

\* Mutant: every slot that answered counts.
CompatibleAll(m) == {s \in Slot : m[s] # Unknown}

Compatible(m) == {s \in Slot : m[s] \in Delays}

Command == [now : BOOLEAN, hard : BOOLEAN, slots : SUBSET Slot]

NoBatch == [now |-> FALSE, hard |-> TRUE, slots |-> {}]

\* The slots dispatch() has still to look at, those it has let through, and those of the mask
\* it has read whose type is still the one the mask was made from.
Selection == [left : SUBSET Slot, slots : SUBSET Slot, mapped : SUBSET Slot]

NoSelection == [left |-> {}, slots |-> {}, mapped |-> {}]

Init ==
  /\ set \in Settings
  /\ types = [s \in Slot |-> Unknown] /\ mask = {} /\ stored = 0
  /\ sel = NoSelection /\ last = [hard |-> FALSE, slots |-> {}] /\ retry = FALSE
  /\ cmdq = <<>>
  /\ wpc = "idle" /\ batch = NoBatch /\ link = FALSE
  /\ fx \in Racks /\ timed = {} /\ muted = {}
  /\ lost = TRUE /\ missed = {}

-----------------------------------------------------------------------------
(* The audio thread *)

\* A type the filter does not name is let through: one that is not known, or that is
\* not a delay.
Included(t) == t \in Delays => t \in set.filter

\* The mask is read once.  While an audit publishes, it is still that of the types before:
\* those that are not stored yet.
Select ==
  /\ sel.left = {} /\ set.all /\ mask # {}
  /\ retry => cmdq = <<>> /\ wpc \in {"idle", "publish"}
  /\ sel' = [left |-> mask, slots |-> {}, mapped |-> {s \in mask : s > stored}]
  /\ UNCHANGED <<set, mapVars, stored, last, retry, cmdq, workerVars, consoleVars, lost, missed>>

Admitted(slots) == {s \in slots : Included(types[s])}

\* The type of the next slot is read.
Look(s) ==
  /\ s \in sel.left /\ sel.left # {s} /\ \A r \in sel.left : s <= r
  /\ sel' = [sel EXCEPT !.left = @ \ {s}, !.slots = @ \cup Admitted({s})]
  /\ UNCHANGED <<set, mapVars, stored, last, retry, cmdq, workerVars, consoleVars, lost, missed>>

\* Without all_slots, or when no slot is compatible, the selected slot is the one; otherwise
\* the type of one slot is left to be read.
Picked == sel.left = {}
Ready == IF Picked THEN ~set.all \/ mask = {} ELSE \E s \in Slot : sel.left = {s}

Chosen == IF Picked THEN {set.slot} ELSE sel.slots \cup Admitted(sel.left)

\* The n-th slot in turn.
Turn(n) == {s \in Chosen : Cardinality({r \in Chosen : r <= s}) = n}
\* Mutant: a batch is for every slot.
OfferedAll(hard) == IF hard THEN <<Slot>> ELSE [n \in 1..Cardinality(Chosen) |-> Turn(n)]

\* One HardResetBatch for all the slots, were there none, or a SyncNow for each in turn.
Offered(hard) == IF hard THEN <<Chosen>> ELSE [n \in 1..Cardinality(Chosen) |-> Turn(n)]

\* try_send() of each: the channel loses those it has no room for.
Taken(room, hard) == IF Len(Offered(hard)) < room THEN Len(Offered(hard)) ELSE room

Fresh(hard, slots) == [now |-> TRUE, hard |-> hard, slots |-> slots]

\* The last read of dispatch(), and what it sends.
Dispatch(queue, hard) ==
  LET taken == Taken(CmdCap - Len(queue), hard) IN
  /\ Ready /\ sel' = NoSelection
  /\ cmdq' = queue \o [n \in 1..taken |-> Fresh(hard, Offered(hard)[n])]
  /\ lost' = (taken < Len(Offered(hard)))
  /\ last' = [hard |-> hard, slots |-> Chosen]
  /\ UNCHANGED <<set, mapVars, stored, wpc, link, fx, muted, missed>>

\* The tempo leaves the one that is being retried.
Unsettle ==
  /\ sel.left = {}
  /\ retry /\ retry' = FALSE
  /\ UNCHANGED <<set, mapVars, stored, sel, last, cmdq, workerVars, consoleVars, lost, missed>>

Outdated == [i \in DOMAIN cmdq |-> [cmdq[i] EXCEPT !.now = FALSE]]

\* A tempo has settled in an On Change mode: all that was sent and queued is of old ones.
NewTempo ==
  /\ ~retry
  /\ Dispatch(Outdated, set.hard)
  /\ retry' = TRUE /\ timed' = {} /\ batch' = [batch EXCEPT !.now = FALSE]

\* The retry has run its two seconds.  Bound: by then the worker is through with what was
\* dispatched before.
Resend ==
  /\ retry /\ cmdq = <<>> /\ wpc \in {"idle", "publish"}
  /\ Dispatch(<<>>, last.hard) /\ UNCHANGED <<retry, timed, batch>>

\* The parameters are mirrored at the start of a buffer.
Change ==
  /\ sel.left = {}
  /\ set' \in Settings \ {set}
  /\ UNCHANGED <<mapVars, stored, audioVars, cmdq, workerVars, consoleVars, lost, missed>>

-----------------------------------------------------------------------------
(* The worker's packets *)

\* send() for each slot in turn: any packet may be lost; one that cannot be sent takes
\* the socket with it, and none after it arrives.
Arrive(slots, got) ==
  /\ got \subseteq slots
  /\ \/ link /\ UNCHANGED link
     \/ link /\ link' = FALSE /\ \E s \in slots : \A g \in got : g < s
     \/ ~link /\ got = {} /\ UNCHANGED link

\* The console takes what it is sent for whatever parameter it is sent to, and has no
\* answer to it: its delay time is reached where the map names the right one.
Reached(got) == {s \in got : HoldsTime(s, TypeFor(s))}

\* Delay times, to the parameters that the map says hold them.
SetTimes(c, got) ==
  /\ Arrive(c.slots, got)
  /\ timed' = IF c.now THEN timed \cup Reached(got) ELSE timed \ Reached(got)
  /\ lost' = (lost \/ \E s \in c.slots : s \notin got \/ types[s] # fx[s])

Take(hard) == wpc = "idle" /\ cmdq # <<>> /\ Head(cmdq).hard = hard /\ cmdq' = Tail(cmdq)

\* handle(SyncNow).
SyncNow(got) ==
  /\ Take(FALSE)
  /\ SetTimes(Head(cmdq), got)
  /\ UNCHANGED <<set, mapVars, stored, audioVars, wpc, batch, fx, muted, missed>>

\* Mutant: the returns are unmuted before the new times are set.
PhaseUnmuteFirst(phase) ==
  CASE phase = "mute" -> "unmute" [] phase = "unmute" -> "set" [] phase = "set" -> "idle"

PhaseAfter(phase) ==
  CASE phase = "mute" -> "set" [] phase = "set" -> "unmute" [] phase = "unmute" -> "idle"

\* set_fxrtn_mute(): the switch of a return.
Switch(got, on) == muted' = IF on THEN muted \ got ELSE muted \cup got

\* handle(HardResetBatch): mute, wait, set, wait, unmute.
MuteAll(got) ==
  /\ Take(TRUE)
  /\ batch' = Head(cmdq)
  /\ Arrive(Head(cmdq).slots, got)
  /\ Switch(got, FALSE) /\ missed' = (missed \ got) \cup (Head(cmdq).slots \ got)
  /\ wpc' = PhaseAfter("mute")
  /\ UNCHANGED <<set, mapVars, stored, audioVars, fx, timed, lost>>

Phase(phase) ==
  /\ wpc = phase /\ wpc' = PhaseAfter(phase)
  /\ batch' = IF wpc' = "idle" THEN NoBatch ELSE batch

SetAll(got) ==
  /\ Phase("set")
  /\ SetTimes(batch, got)
  /\ UNCHANGED <<set, mapVars, stored, audioVars, cmdq, fx, muted, missed>>

\* Mutant: only slots that are compatible are unmuted.
ToUnmuteKnown == batch.slots \cap mask

ToUnmute == batch.slots

UnmuteAll(got) ==
  /\ Phase("unmute")
  /\ Arrive(ToUnmute, got)
  /\ Switch(got, TRUE) /\ missed' = ((missed \ got) \cup (ToUnmute \ got)) \cap muted'
  /\ UNCHANGED <<set, mapVars, stored, audioVars, cmdq, fx, timed, lost>>

\* Whichever packets arrive.
Handle == \E got \in SUBSET Slot : SyncNow(got) \/ MuteAll(got) \/ SetAll(got) \/ UnmuteAll(got)

-----------------------------------------------------------------------------
(* The rest of the worker *)

Connect ==
  /\ wpc = "idle" /\ ~link /\ link' = TRUE
  /\ UNCHANGED <<set, mapVars, stored, audioVars, cmdq, wpc, batch, consoleVars, lost, missed>>

\* A Disconnect, or the heartbeat's verdict.
Disconnect ==
  /\ wpc = "idle" /\ link /\ link' = FALSE
  /\ UNCHANGED <<set, mapVars, stored, audioVars, cmdq, wpc, batch, consoleVars, lost, missed>>

\* A dispatch that is reading has its mask from the types before these.
Remap(map) ==
  /\ types' = map
  /\ sel' = [sel EXCEPT !.mapped = {s \in @ : map[s] = types[s]}]

\* An audit stores the types one after the other: those of the console, unless answers were
\* lost or late.  It has emptied the channel before its last query.
PublishTypes ==
  /\ \/ wpc = "idle" /\ link /\ Len(cmdq) <= LateCmds
     \/ wpc = "publish"
  /\ stored < SlotCount
  /\ wpc' = "publish" /\ stored' = stored + 1
  /\ \E map \in {fx} \cup Maps : Remap([types EXCEPT ![stored + 1] = map[stored + 1]])
  /\ UNCHANGED <<set, mask, last, retry, cmdq, batch, link, consoleVars, lost, missed>>

\* The mask follows.
PublishMask ==
  /\ wpc = "publish" /\ stored = SlotCount
  /\ wpc' = "idle" /\ stored' = 0
  /\ mask' = Compatible(types)
  /\ UNCHANGED <<set, types, audioVars, cmdq, batch, link, consoleVars, lost, missed>>

\* Mutant: an activation restores the types and leaves the mask to the next audit.
KeepMask(map) == mask

MaskFor(map) == Compatible(map)

\* adopt_restored_state(), while no buffer runs: the map of a session, types and mask, even
\* in the middle of a batch.  One that meets an audit's stores is SlotAudit's subject.
Adopt ==
  /\ sel.left = {} /\ wpc # "publish"
  /\ \E map \in {fx} \cup Maps : Remap(map) /\ mask' = MaskFor(map)
  /\ UNCHANGED <<set, stored, last, retry, cmdq, workerVars, consoleVars, lost, missed>>

\* Mutant: the read-back asks for the parameter of a DLY.
PolledDLY(s) == 10

\* poll_delay(): the selected slot is asked for its delay time, whether it follows the
\* tempo or not.
Polled(s) == TypeFor(s)

\* query_fx_delay(): the read-back is of a delay time.
ReadsTime(s) == HoldsTime(s, Polled(s))

\* The buffer after it ends the retry if that is the tempo sent.
Poll ==
  /\ wpc = "idle" /\ cmdq = <<>> /\ link
  /\ ReadsTime(set.slot) /\ set.slot \in timed /\ sel.left = {}
  /\ retry' = FALSE
  /\ UNCHANGED <<set, mapVars, stored, sel, last, cmdq, workerVars, consoleVars, lost, missed>>

\* A parameter that is no delay time may look like it.
PollAstray ==
  /\ wpc = "idle" /\ cmdq = <<>> /\ link
  /\ ~ReadsTime(set.slot) /\ sel.left = {}
  /\ retry' = FALSE
  /\ UNCHANGED <<set, mapVars, stored, sel, last, cmdq, workerVars, consoleVars, lost, missed>>

-----------------------------------------------------------------------------
(* The console's operator, and the specification *)

Load ==
  /\ fx' \in Racks \ {fx}
  /\ timed' = {s \in timed : fx'[s] = fx[s]}
  /\ lost' = TRUE
  /\ UNCHANGED <<set, mapVars, stored, audioVars, cmdq, workerVars, muted, missed>>

Next ==
  \/ Select \/ (\E s \in Slot : Look(s)) \/ Unsettle \/ NewTempo \/ Resend \/ Change
  \/ Handle \/ Connect \/ Disconnect \/ PublishTypes \/ PublishMask \/ Adopt
  \/ Poll \/ PollAstray \/ Load

\* Both threads run, and what else the worker does starves no command.  What is sent to
\* the selected slot again and again gets there; the poll and the retry come round again and again.
Fairness ==
  /\ SF_vars(Handle) /\ WF_vars(wpc = "publish" /\ (PublishTypes \/ PublishMask))
  /\ SF_vars(\E got \in SUBSET Slot : set.slot \in got /\ (SyncNow(got) \/ SetAll(got)))
  /\ SF_vars(Poll) /\ SF_vars(retry /\ (Select \/ (\E s \in Slot : Look(s)) \/ Resend))

Safety == Init /\ [][Next]_vars
Spec == Safety /\ Fairness

-----------------------------------------------------------------------------
(* Properties *)

\* Every variable holds what the code's field of that name can hold.
TypeOK ==
  /\ set \in Settings /\ types \in [Slot -> Nat \cup {Unknown}] /\ mask \subseteq Slot
  /\ stored \in 0..SlotCount /\ sel \in Selection
  /\ last \in [hard : BOOLEAN, slots : SUBSET Slot] /\ retry \in BOOLEAN
  /\ cmdq \in Seq(Command) /\ Len(cmdq) <= CmdCap
  /\ wpc \in {"idle", "set", "unmute", "publish"} /\ batch \in Command /\ link \in BOOLEAN
  /\ fx \in Racks /\ timed \subseteq Slot /\ muted \subseteq Slot
  /\ lost \in BOOLEAN /\ missed \subseteq Slot

\* A return is left muted only by a packet that was lost or could not be sent: whatever
\* the map, the settings and the channel did meanwhile, a batch undoes its own mutes.
MutedOnlyByLoss == wpc \in {"idle", "publish"} => muted \subseteq missed

\* A Hard Reset sets new times only under a mute.
SetUnderMute ==
  [][wpc = "set" => \A s \in timed' \ timed : s \in muted \cup missed]_vars

\* In all slots mode every compatible slot whose effect type is enabled, and no other,
\* receives the command.  However the reads of dispatch() fall among the stores of audits, that
\* holds of every slot whose type is the one that the mask it read was made from; only a slot
\* whose type was stored meanwhile, and whose mask was not yet, may be passed over or let in.
EnabledReceive ==
  [][sel.left # {} /\ sel'.left = {} =>
       last'.slots \cap sel.mapped = {s \in sel.mapped : types[s] \in set.filter}]_vars

\* Once the worker is through, every slot of the last dispatch is at its tempo, unless a
\* part of it was lost or the map was wrong: no older command arrives after it.
Delivered ==
  wpc \in {"idle", "publish"} /\ cmdq = <<>> /\ ~lost =>
    \A s \in last.slots : fx[s] \in Delays => s \in timed

\* Where the map is the console's and the link and the settings stay, the retry ends, if the
\* selected slot, which is the one read back, is among those that follow the tempo.
Follows ==
  /\ types = fx /\ mask = Compatible(fx)
  /\ set.slot \in mask /\ types[set.slot] \in set.filter
RetryEnds == <>[](link /\ Follows) /\ <>[][~Change]_vars => []<>~retry

\* dispatch(), the channel and the worker's packets implement the promise of TempoFollower:
\* a slot of the last dispatch that is at its tempo stays there until the next one or until
\* the operator loads another effect, no slot gets there that was not meant, and the worker
\* is not through before all are there or there is an excuse.
Able == {s \in Slot : fx[s] \in Delays}
Owing == wpc \notin {"idle", "publish"} \/ cmdq # <<>>
Follower == INSTANCE TempoFollower WITH
  wanted <- last.slots, able <- Able, at <- timed, owing <- Owing, excused <- lost
ImplementsFollower == Follower!Spec
=============================================================================
