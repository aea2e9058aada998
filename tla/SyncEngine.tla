------------------------------ MODULE SyncEngine ------------------------------
(***************************************************************************)
(* The audio thread of src/lib.rs: process() decides, once per buffer, when *)
(* to send the host's tempo to the console.  Each section of process() is  *)
(* an operator on the thread's fields, and one buffer is their composition. *)
(*                                                                          *)
(* The thread talks to the network worker over two bounded channels and     *)
(* reads the delay the worker has read back from the console.  The worker   *)
(* is kept as coarse as the audio thread sees it; its own behaviour is      *)
(* NetworkWorker's subject.                                                 *)
(*                                                                          *)
(* Tempos are naturals compared with two tolerances; a time unit is 500 ms; *)
(* a position is half a beat.  The time signature does not change, the host  *)
(* reports bars and a loop range, and each buffer brings at most one button. *)
(***************************************************************************)
EXTENDS Integers, Sequences

CONSTANTS
  Tempo,          \* the host's tempos
  Tolerance,      \* BPM_SETTLE_THRESHOLD: a larger step counts as a change
  MatchTol,       \* a read-back closer than this counts as the tempo sent
  SettleTime,     \* SETTLE_MS, in units
  RetryTime,      \* the OnChange retry period, in units
  BarLen,         \* the length of a bar, in half beats as every position
  LoopStart,      \* the host's loop range
  LoopEnd,
  Jumps,          \* the positions the transport may be moved to
  EditMax,        \* bound: the last position at which the user still acts
  PosMax,         \* bound: the last position
  CmdCap,         \* capacity of the command channel (64)
  StatusCap,      \* capacity of the status channel (64)
  Forces,         \* the buttons the user may press
  RateModes,      \* the values of rate_sync_mode
  PhaseModes      \* the values of phase_sync_mode

Mode == {"Manual", "OnChange", "Continuous"}

ASSUME EngineAssumption ==
  /\ Tempo \subseteq Nat \ {0}
  /\ Tolerance \in Nat /\ MatchTol \in Nat \ {0}
  /\ SettleTime \in Nat \ {0} /\ RetryTime \in Nat \ {0} /\ BarLen \in Nat \ {0}
  /\ LoopStart \in Nat /\ LoopEnd \in Nat
  /\ EditMax \in Nat /\ PosMax \in Nat /\ EditMax + 1 + BarLen <= PosMax
  /\ Jumps \subseteq 0..EditMax
  /\ CmdCap \in Nat \ {0} /\ StatusCap \in Nat \ {0}
  /\ Forces \subseteq {"rate", "phase", "audit"}
  /\ RateModes \subseteq Mode /\ PhaseModes \subseteq Mode

VARIABLES
  rate,      \* rate_sync_mode
  phase,     \* phase_sync_mode
  host,      \* the transport: tempo, playing, position
  eng,       \* the fields of EtherTap that process() keeps
  cmdq,      \* the command channel to the worker
  statusq,   \* the status channel from the worker
  link,      \* the worker's `connected'
  delay,     \* external: the tempo the console's delay is set to, 0 for another value
  readback,  \* hardware_float_out as a tempo, 0 before the first read-back
  calm       \* environment: the host plays on, the link holds, the user lets go

vars == <<rate, phase, host, eng, cmdq, statusq, link, delay, readback, calm>>

NoButton == "none"
Off == [age |-> -1]      \* a timer that does not run
NoBeat == -1             \* no Hard Reset is armed
Diff(s, t) == IF s < t THEN t - s ELSE s - t
Bar(p) == p \div BarLen
NextBar(p) == (Bar(p) + 1) * BarLen
BeatIdx(p) == p \div 2
NextBeat(p) == 2 * BeatIdx(p + 1)     \* pos_beats.ceil()

\* The fields at Default, before the first buffer.  A timer, a retry or an
\* armed Hard Reset that is off holds no data.  (last_pos_beats starts at 0.0,
\* which no position of a song tells from the -1.0 of a stopped transport.)
Fresh ==
  [conn      |-> FALSE,    \* conn_status, and last_conn_status after a buffer
   reconnect |-> FALSE,    \* reconnect_sync_pending
   lastBpm   |-> 0,
   settle    |-> Off,     \* bpm_is_settling: since when, from which tempo
   retry     |-> Off,     \* on_change_retry_pending: the tempo, hard or not, since when
   hr        |-> NoBeat,     \* hr_pending: hr_target_beat
   lastPos   |-> -2,       \* last_pos_beats; last_beat_idx is its beat
   lastBar   |-> -1,       \* last_bar_number
   out       |-> <<>>]     \* the commands this buffer sends

Init ==
  /\ rate \in RateModes /\ phase \in PhaseModes
  /\ host \in [bpm : Tempo, playing : {FALSE}, pos : {0}]
  /\ eng = Fresh
  /\ cmdq = <<>> /\ statusq = <<>>
  /\ link = FALSE /\ delay \in Tempo /\ readback = 0
  /\ calm = FALSE

-----------------------------------------------------------------------------
(* process(), section by section *)

Audit == [op |-> "AuditSlots", bpm |-> 0]
Sync(bpm, hard) == [op |-> IF hard THEN "HardReset" ELSE "SyncNow", bpm |-> bpm]

Say(e, cmd) == [e EXCEPT !.out = Append(@, cmd)]
Dispatch(e, bpm, hard) == Say(e, Sync(bpm, hard))

\* Section 1: the status messages in turn.  Of the verdicts on the link the last one
\* stands; the first audit that is through lets the tempo a reconnect waits for go.
Heard(status) == \E i \in DOMAIN statusq : statusq[i] = status
CameUp == \E i \in DOMAIN statusq :
  statusq[i] = "Connected" /\ \A j \in (i + 1)..Len(statusq) : statusq[j] # "Disconnected"

Drain(e) ==
  LET d == [e EXCEPT !.conn = CameUp \/ (@ /\ ~Heard("Disconnected"))] IN
  IF Heard("SlotScanDone") /\ e.reconnect /\ e.lastBpm > 0 /\ e.settle = Off
  THEN Dispatch([d EXCEPT !.reconnect = FALSE], e.lastBpm, FALSE)
  ELSE d

\* The read-back confirms a tempo.
Matches(bpm) == readback > 0 /\ Diff(bpm, readback) < MatchTol

\* Section 3b: the connection came up or went down since the last buffer.
Edge(e) ==
  IF e.conn = eng.conn THEN e
  ELSE IF e.conn THEN Say([e EXCEPT !.reconnect = TRUE], Audit)
  ELSE [e EXCEPT !.retry = Off, !.hr = NoBeat, !.settle = Off]

\* Section 3c: the position jumped back.  A loop repeat waits for the next bar.
LoopRepeat(e, b) == b.pos \in (LoopStart - 1)..(LoopStart + 1) /\ e.lastPos >= LoopEnd - 1
Seek(e, b) ==
  IF ~(b.playing /\ b.pos < e.lastPos - 1) THEN e
  ELSE [e EXCEPT !.lastPos = b.pos - 2, !.lastBar = Bar(b.pos) - 1,
                 !.settle = Off, !.retry = Off,
                 !.hr = IF LoopRepeat(e, b) THEN NextBar(b.pos) ELSE NextBeat(b.pos)]

\* Mutant: a settled tempo the console seems to have already is not sent.
SettledUnlessMatched(e, b) ==
  LET s == [e EXCEPT !.settle = Off, !.reconnect = FALSE] IN
  IF ~b.playing \/ Matches(b.bpm) THEN s
  ELSE IF phase = "OnChange" THEN [s EXCEPT !.hr = NextBar(b.pos)]
  ELSE IF rate = "OnChange" THEN Dispatch(s, b.bpm, FALSE)
  ELSE s

\* Section 4: the tempo has held long enough.
Settled(e, b) ==
  LET s == [e EXCEPT !.settle = Off, !.reconnect = FALSE]
      again(hard) == [bpm |-> b.bpm, hard |-> hard, age |-> 0] IN
  IF b.playing /\ phase = "OnChange"
  THEN [s EXCEPT !.hr = NextBar(b.pos), !.retry = again(TRUE)]
  ELSE IF b.playing /\ rate = "OnChange"
  THEN [Dispatch(s, b.bpm, FALSE) EXCEPT !.retry = again(FALSE)]
  ELSE s

\* Mutant: a change of tempo that leaves the retry of the old one armed.
JumpedKeepsRetry(e, b) ==
  [e EXCEPT !.settle = [from |-> b.bpm, age |-> 0], !.hr = NoBeat]

Jumped(e, b) ==
  [e EXCEPT !.settle = [from |-> b.bpm, age |-> 0], !.retry = Off, !.hr = NoBeat]

Settle(e, b) ==
  IF e.lastBpm > 0 /\ Diff(b.bpm, e.lastBpm) > Tolerance THEN Jumped(e, b)
  ELSE IF e.settle = Off \/ e.settle.age < SettleTime THEN e
  ELSE IF Diff(b.bpm, e.settle.from) > Tolerance
  THEN [e EXCEPT !.settle = [from |-> b.bpm, age |-> 0]]
  ELSE Settled(e, b)

\* Section 5: a quantised Hard Reset whose beat has come.
Gate(e, b) ==
  IF e.hr = NoBeat \/ ~b.playing \/ b.pos < e.hr THEN e
  ELSE LET s == [Dispatch(e, b.bpm, TRUE) EXCEPT !.hr = NoBeat] IN
       IF s.retry = Off THEN s ELSE [s EXCEPT !.retry.age = 0]

\* Section 5b: resend until the console confirms; an armed Hard Reset will do.
Retry(e) ==
  IF e.retry = Off \/ ~e.conn THEN e
  ELSE IF Matches(e.retry.bpm) THEN [e EXCEPT !.retry = Off]
  ELSE IF e.retry.age < RetryTime THEN e
  ELSE [(IF e.hr = NoBeat THEN Dispatch(e, e.retry.bpm, e.retry.hard) ELSE e)
          EXCEPT !.retry.age = 0]

\* Section 6: a beat was crossed.
Beat(e, b) ==
  IF ~(b.playing /\ BeatIdx(b.pos) > BeatIdx(e.lastPos)) THEN e
  ELSE IF phase = "Continuous" THEN Dispatch(e, b.bpm, TRUE)
  ELSE IF rate = "Continuous" THEN Dispatch(e, b.bpm, FALSE)
  ELSE e

\* Section 6b: the bar is neither the last one nor the next.
BarJump(e, b) ==
  IF b.playing /\ Bar(b.pos) \notin {e.lastBar, e.lastBar + 1} /\ e.hr = NoBeat
  THEN [e EXCEPT !.hr = NextBar(b.pos)] ELSE e

\* The end of section 6: a stopped transport forgets its position.
Remember(e, b) ==
  [e EXCEPT !.lastPos = IF b.playing THEN b.pos ELSE -2,
            !.lastBar = IF b.playing THEN Bar(b.pos) ELSE -1]

\* Section 8: the buttons, and the fields for the next buffer.
Pressed(e, b, force) ==
  LET s == [e EXCEPT !.lastBpm = b.bpm] IN
  CASE force = "rate"  -> Dispatch(s, b.bpm, FALSE)
    [] force = "phase" -> Dispatch(s, b.bpm, TRUE)
    [] force = "audit" -> Say(s, Audit)
    [] force = NoButton -> s

\* Time that has passed since the last buffer, as the timers see it.
Older(age, dt, cap) == IF age + dt < cap THEN age + dt ELSE cap
Aged(e, dt) ==
  LET s == IF e.settle = Off THEN e
           ELSE [e EXCEPT !.settle.age = Older(@, dt, SettleTime)] IN
  IF s.retry = Off THEN s ELSE [s EXCEPT !.retry.age = Older(@, dt, RetryTime)]

\* try_send() of each command in turn: those beyond the capacity are lost.
Sent(cmds) ==
  LET all == cmdq \o cmds IN SubSeq(all, 1, IF Len(all) < CmdCap THEN Len(all) ELSE CmdCap)

\* One buffer: time has passed, the transport is somewhere, and a button may be pressed.
\* The fields after each group of sections are bound in turn, so that each is evaluated once.
Process(times, transports, forces) ==
  /\ \E drained \in {Edge(Drain(Aged(eng, dt))) : dt \in times}, b \in transports :
     \E settled \in {Settle(Seek(drained, b), b)} :
     \E synced  \in {Retry(Gate(settled, b))} :
     \E tracked \in {Remember(BarJump(Beat(synced, b), b), b)} :
     \E after   \in {Pressed(tracked, b, force) : force \in forces} :
       /\ eng' = [after EXCEPT !.out = <<>>] /\ cmdq' = Sent(after.out)
       /\ host' = b
  /\ statusq' = <<>>
  /\ UNCHANGED <<rate, phase, link, delay, readback, calm>>

-----------------------------------------------------------------------------
(* The host and the user *)

\* Where the transport may be now: where it was, half a beat on, or elsewhere.
Moves == {p \in {host.pos, host.pos + 1} \cup Jumps : p <= EditMax}

Buffer ==
  /\ ~calm
  /\ Process({0, 1}, [bpm : Tempo, playing : BOOLEAN, pos : Moves], Forces \cup {NoButton})

\* A steady host: half a beat a buffer, and no buttons.
Advance ==
  /\ calm
  /\ Process({1}, {[host EXCEPT !.pos = IF @ < PosMax THEN @ + 1 ELSE @]}, {NoButton})

\* From here on nobody interferes: the song plays at its tempo, the plugin has
\* seen the link come up, the worker has caught up with its commands, and the
\* link holds and loses nothing.
Calm ==
  /\ ~calm /\ calm' = TRUE
  /\ host.playing /\ link /\ eng.conn /\ cmdq = <<>>
  /\ "Disconnected" \notin {statusq[i] : i \in DOMAIN statusq}
  /\ UNCHANGED <<rate, phase, host, eng, cmdq, statusq, link, delay, readback>>

-----------------------------------------------------------------------------
(* The worker, as the audio thread sees it *)

Tell(status) ==
  statusq' = IF Len(statusq) < StatusCap THEN Append(statusq, status) ELSE statusq

Take(op) ==
  /\ cmdq # <<>> /\ Head(cmdq).op = op
  /\ cmdq' = Tail(cmdq)
  /\ UNCHANGED <<rate, phase, host, eng, link, readback, calm>>

\* An audit reports when it is through; it does nothing without a socket, and
\* is cut short when the link is lost under it.
AuditSlots ==
  /\ Take("AuditSlots")
  /\ \/ Tell("SlotScanDone")
     \/ ~(link /\ calm) /\ UNCHANGED statusq
  /\ UNCHANGED delay

\* One UDP packet, or the mute, set and unmute of a Hard Reset: it may get lost.
SetDelay ==
  /\ Take("SyncNow") \/ Take("HardReset")
  /\ \/ link /\ delay' = Head(cmdq).bpm
     \/ ~(link /\ calm) /\ UNCHANGED delay
  /\ UNCHANGED statusq

\* The heartbeat's verdict, or a send that failed.
Heartbeat ==
  /\ link' \in IF calm THEN {TRUE} ELSE BOOLEAN
  /\ Tell(IF link' THEN "Connected" ELSE "Disconnected")
  /\ readback' \in IF link' THEN {readback} ELSE {readback, 0}
  /\ UNCHANGED <<rate, phase, host, eng, cmdq, delay, calm>>

\* Another console answers at the address: the worker gives it up, and says nothing.
Reject ==
  /\ link /\ ~calm /\ link' = FALSE
  /\ UNCHANGED <<rate, phase, host, eng, cmdq, statusq, delay, readback, calm>>

Poll ==
  /\ link /\ readback' = delay
  /\ UNCHANGED <<rate, phase, host, eng, cmdq, statusq, link, delay, calm>>

Next == Buffer \/ Advance \/ Calm \/ AuditSlots \/ SetDelay \/ Heartbeat \/ Reject \/ Poll

\* The host keeps calling process(), and the worker's loop keeps turning; once
\* nobody interferes is all that is asked of either.
Fairness ==
  /\ WF_vars(Advance)
  /\ WF_vars(calm /\ (AuditSlots \/ SetDelay))
  /\ WF_vars(calm /\ Poll)

Safety == Init /\ [][Next]_vars
Spec == Safety /\ Fairness

-----------------------------------------------------------------------------
(* Properties *)

Statuses == {"Connected", "Disconnected", "SlotScanDone"}
Commands == [op : {"AuditSlots", "SyncNow", "HardReset"}, bpm : Tempo \cup {0}]
Hosts == [bpm : Tempo, playing : BOOLEAN, pos : 0..PosMax]
Fields ==
  [conn : BOOLEAN, reconnect : BOOLEAN, lastBpm : Tempo \cup {0},
   settle : {Off} \cup [from : Tempo, age : 0..SettleTime],
   retry : {Off} \cup [bpm : Tempo, hard : BOOLEAN, age : 0..RetryTime],
   hr : Nat \cup {NoBeat}, lastPos : -2..PosMax, lastBar : Nat \cup {-1},
   out : Seq(Commands)]

\* The fields keep their ranges, the timers stop at their periods, and neither
\* channel overflows.
TypeOK ==
  /\ rate \in Mode /\ phase \in Mode /\ calm \in BOOLEAN /\ link \in BOOLEAN
  /\ host \in Hosts
  /\ eng \in Fields /\ eng.out = <<>>
  /\ cmdq \in Seq(Commands) /\ Len(cmdq) <= CmdCap
  /\ statusq \in Seq(Statuses) /\ Len(statusq) <= StatusCap
  /\ delay \in Tempo \cup {0} /\ readback \in Tempo \cup {0}

\* A change of no more than the threshold goes unseen, and so does any number of them:
\* process() can not tell two tempos apart that have such steps between them.
Blurs == {S \in SUBSET Tempo : \A s \in S, t \in Tempo : Diff(s, t) <= Tolerance => t \in S}
SameTempo(s, t) == \A S \in Blurs : s \in S <=> t \in S

\* What a retry would send is the tempo the host plays at, or one it has crept away from,
\* and no other tempo is settling meanwhile, however tempo changes, seeks, stops and
\* reconnects interleave with the timers.
RetryIsCurrent == eng.retry # Off => SameTempo(eng.retry.bpm, eng.lastBpm) /\ eng.settle = Off

\* Every command carries the tempo of the buffer that sent it or of the one before, or one
\* it has crept away from, even those a retry, an armed Hard Reset or a late audit set off.
NoStaleTempo ==
  [][\A i \in DOMAIN cmdq' \ DOMAIN cmdq :
       cmdq'[i].op # "AuditSlots" => \E t \in {host.bpm, host'.bpm} : SameTempo(cmdq'[i].bpm, t)]_vars

\* In an On Change mode a tempo that is settling, or whose retry no read-back
\* has cancelled, reaches the console, whatever packets, read-backs, seeks and
\* links the time before went by without.
OnChange == "OnChange" \in {rate, phase}
Matched == Diff(host.bpm, delay) < MatchTol
Unconfirmed == eng.retry # Off /\ ~Matches(eng.retry.bpm)
ChangeArrives == (calm /\ OnChange /\ (eng.settle # Off \/ Unconfirmed)) ~> Matched

\* A claim of the code's own comments and of the README, refuted by a run.
\* params.rs, SyncMode::Manual: "Never fire automatically - manual trigger
\* only"; README, Sync modes: "Force button only".
ManualNeedsButton ==
  [][rate = "Manual" /\ phase = "Manual" =>
       \A i \in DOMAIN cmdq' \ DOMAIN cmdq : cmdq'[i].op # "HardReset"]_vars
=============================================================================
