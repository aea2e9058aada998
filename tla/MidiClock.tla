------------------------------- MODULE MidiClock -------------------------------
(***************************************************************************)
(* The MIDI clock: section 7 of process() in src/lib.rs counts the ticks of *)
(* a buffer from the position of the host's song and puts them, between the *)
(* announcements of starts, stops and tempo changes, into a bounded channel; *)
(* the worker of src/midi_clock.rs forwards them to its ports as pulses, and *)
(* keeps silent for a while after a change of tempo and then until a beat.  *)
(*                                                                          *)
(* Ticks are numbered along a song that the host repeats.  The position of  *)
(* a buffer is the first tick in it, and a buffer starts where the one      *)
(* before it ended, unless the user locates.  Time passes buffer by buffer. *)
(* The standalone build has no host: its panel plays, stops and sets the     *)
(* tempo, buffers are counted from there, and there is nothing to announce.  *)
(* Left out are the LED, the statistics and the counters of lost messages.   *)
(***************************************************************************)
EXTENDS Integers, Sequences, SequencesExt

CONSTANTS
  PPQ,          \* pulses to a quarter note
  Song,         \* length of the song, in ticks
  Tempo,        \* the host's tempos
  Threshold,    \* BPM_MIDI_THRESHOLD
  BufferMs,     \* the length of a buffer
  BufferTicks,  \* bound: ticks in one buffer
  ChannelCap    \* capacity of the channel (256)

ASSUME ClockAssumption ==
  /\ PPQ \in Nat \ {0}
  /\ Song \in Nat \ {0} /\ Song % PPQ = 0 /\ PPQ <= Song
  /\ Tempo \subseteq Nat \ {0} /\ Threshold \in Nat
  /\ BufferMs \in Nat \ {0}
  /\ BufferTicks \in Nat \ {0}
  /\ ChannelCap \in Nat \ {0}

VARIABLES
  standalone, \* the build: a plugin in a host, or standalone
  playing,    \* prev_playing: the transport was moving at the last buffer
  on,         \* midi_clock_enabled_atom
  bpm,        \* the tempo of the last buffer; standalone_bpm
  pos,        \* the host's position: the next tick of the song; standalone, the pulses
              \* counted since a beat
  announced,  \* last_bpm_changed_at
  todo,       \* what the current buffer has still to send
  playAtom,   \* standalone_playing
  stopTrigger,  \* standalone_stop_trigger
  moved,      \* standalone_pos_beats is not 0
  adding,     \* process() has read it, and not stored the sum yet
  queue,      \* the channel
  gap,        \* gap_expires: the buffers that are left of it
  waiting,    \* waiting_for_beat
  last,       \* history: the last message the worker handled and its fate
  stopped,    \* history: the last button of the panel was Stop
  unsure      \* history: the last announcement was lost

audio == <<standalone, playing, on, bpm, announced>>
panel == <<playAtom, stopTrigger, moved, adding, stopped>>
worker == <<gap, waiting, last>>
vars == <<audio, pos, todo, panel, queue, worker, unsure>>

Unset == 0         \* None, for a tempo
NoGap == -1        \* None, for gap_expires; 0 is a gap that is over
MinGapMs == 1500
MaxGapMs == 3000
Max2(a, b) == IF a < b THEN b ELSE a
Min2(a, b) == IF a < b THEN a ELSE b
Diff(s, t) == IF s < t THEN t - s ELSE s - t

\* How long a gap lasts: a beat and a half, within limits, in whole buffers.
GapMs(b) == Min2(Max2((3 * 60000) \div (2 * b), MinGapMs), MaxGapMs)
GapBuffers(b) == (GapMs(b) + BufferMs - 1) \div BufferMs

TransportStart == [kind |-> "Start", k |-> 0, bpm |-> Unset, sure |-> TRUE]
Stop == [kind |-> "Stop", k |-> 0, bpm |-> Unset, sure |-> TRUE]
BpmChanged(b) == [kind |-> "BpmChanged", k |-> 0, bpm |-> b, sure |-> TRUE]

\* A tick.  The message holds on_beat; the tempo it was counted at, and whether
\* that tempo had been announced, are for the properties.
Tick(k, b) == [kind |-> "Tick", k |-> k, bpm |-> b, sure |-> TRUE]

OnBeat(k) == k % PPQ = 0

Init ==
  /\ standalone \in BOOLEAN
  /\ playing = FALSE /\ on \in BOOLEAN /\ bpm \in Tempo
  /\ pos \in IF standalone THEN {0} ELSE 0..(Song - 1)
  /\ playAtom = FALSE /\ stopTrigger = FALSE /\ moved = FALSE /\ adding = FALSE
  /\ stopped = FALSE
  /\ announced = Unset
  /\ todo = <<>> /\ queue = <<>>
  /\ gap = NoGap /\ waiting = FALSE
  /\ last = [k |-> 0, bpm |-> Unset, fate |-> "none"]
  /\ unsure = FALSE

-----------------------------------------------------------------------------
(* The audio thread *)

\* The tempo the change is measured from: a start counts as an announcement.
Seed(p, b) == IF p /\ ~playing THEN b ELSE announced

Edge(p) ==
  IF p /\ ~playing THEN <<TransportStart>>
  ELSE IF playing /\ ~p THEN <<Stop>>
  ELSE <<>>

Change(p, b) ==
  IF p /\ Seed(p, b) # Unset /\ Diff(b, Seed(p, b)) > Threshold
  THEN <<BpmChanged(b)>> ELSE <<>>

Ticks(p, b, n) == IF p THEN [i \in 1..n |-> Tick((pos + i - 1) % Song, b)] ELSE <<>>

\* Mutant: the change of tempo is announced after the ticks of the buffer.
MessagesTicksFirst(p, b, n) == Edge(p) \o Ticks(p, b, n) \o Change(p, b)
Messages(p, b, n) == Edge(p) \o Change(p, b) \o Ticks(p, b, n)

\* Mutant: a change of tempo that was announced is not remembered.
AnnouncedKept(p, b) == Seed(p, b)
Announced(p, b) == IF Change(p, b) = <<>> THEN Seed(p, b) ELSE b

\* What every buffer does before section 7; time passes for the worker.
Process(p, b, e) ==
  /\ todo = <<>> /\ ~adding
  /\ playing' = p /\ bpm' = b /\ on' = e
  /\ gap' = IF gap > 0 THEN gap - 1 ELSE gap
  /\ UNCHANGED <<standalone, stopped, queue, waiting, last, unsure>>

\* One buffer in a host, up to the messages it sends.
HostBuffer(p, b, e, n) ==
  /\ ~standalone /\ Process(p, b, e)
  /\ IF e THEN todo' = Messages(p, b, n) /\ announced' = Announced(p, b)
     ELSE UNCHANGED <<todo, announced>>
  /\ pos' = IF p THEN (pos + n) % Song ELSE pos
  /\ UNCHANGED <<playAtom, stopTrigger, moved, adding>>

\* The trigger of the panel stops and rewinds, whether it was playing or not.
PanelPlays == playAtom /\ ~stopTrigger
ConsumeTrigger ==
  playAtom' = PanelPlays /\ moved' = (moved /\ ~stopTrigger) /\ stopTrigger' = FALSE

\* One buffer of the standalone build.  The pulses are counted, from one before a beat;
\* a clock that is off holds the count and the position.
StandaloneBuffer(e, n) ==
  /\ standalone /\ Process(PanelPlays, bpm, e)
  /\ ConsumeTrigger
  /\ adding' = (PanelPlays /\ e)
  /\ todo' = IF PanelPlays /\ e
             THEN [i \in 1..n |-> Tick((pos + i - 1) % PPQ, bpm)]
             ELSE <<>>
  /\ pos' = IF ~PanelPlays THEN PPQ - 1 ELSE IF e THEN (pos + n) % PPQ ELSE pos
  /\ UNCHANGED announced

\* The position of the panel is added to, by a load and a store.
Accumulate ==
  /\ adding /\ adding' = FALSE /\ moved' = TRUE
  /\ UNCHANGED <<audio, pos, todo, playAtom, stopTrigger, stopped, queue, worker, unsure>>

Buffer ==
  \E e \in BOOLEAN, n \in 0..BufferTicks :
    (\E p \in BOOLEAN, b \in Tempo : HostBuffer(p, b, e, n)) \/ StandaloneBuffer(e, n)

\* The host, or the audio device, goes on.
Advance ==
  playing /\ \E n \in 1..BufferTicks : HostBuffer(TRUE, bpm, on, n) \/ StandaloneBuffer(on, n)

\* The user moves the song position.
Locate ==
  /\ todo = <<>> /\ ~standalone
  /\ \E k \in 0..(Song - 1) : k # pos /\ pos' = k
  /\ UNCHANGED <<audio, todo, panel, queue, worker, unsure>>

Fits == Len(queue) < ChannelCap

Sure(m) ==
  IF m.kind = "Tick" THEN [m EXCEPT !.sure = ~unsure /\ announced # Unset] ELSE m

\* try_send() of one message: a full channel loses it.
Push ==
  /\ todo # <<>> /\ ~adding /\ todo' = Tail(todo)
  /\ queue' = IF Fits THEN Append(queue, Sure(Head(todo))) ELSE queue
  /\ unsure' = IF Head(todo).kind = "Tick" THEN unsure ELSE ~Fits
  /\ UNCHANGED <<audio, pos, panel, worker>>

-----------------------------------------------------------------------------
(* The panel of the standalone build *)

TogglePlay ==
  /\ standalone
  /\ playAtom' = ~playAtom /\ stopped' = FALSE
  /\ UNCHANGED <<audio, pos, todo, stopTrigger, moved, adding, queue, worker, unsure>>

\* Mutant: the panel stops and rewinds on its own.
AskStopStored == playAtom' = FALSE /\ moved' = FALSE /\ UNCHANGED stopTrigger

\* Stop leaves the reset to process().
AskStop == stopTrigger' = TRUE /\ UNCHANGED <<playAtom, moved>>

PressStop ==
  /\ standalone
  /\ AskStop /\ stopped' = TRUE
  /\ UNCHANGED <<audio, pos, todo, adding, queue, worker, unsure>>

\* The tempo field, within the limits of the panel.
SetStandaloneBpm ==
  /\ standalone
  /\ bpm' \in Tempo
  /\ UNCHANGED <<standalone, playing, on, announced, pos, todo, panel, queue, worker, unsure>>

\* A tap sets the mean tempo of its row, if it is not the first of it; which one that is
\* is left open.
TapTempo ==
  /\ standalone
  /\ bpm' \in {bpm} \cup Tempo
  /\ UNCHANGED <<standalone, playing, on, announced, pos, todo, panel, queue, worker, unsure>>

-----------------------------------------------------------------------------
(* The worker *)

Remember(m, fate) ==
  last' = [fate |-> fate, k |-> IF fate \in {"held", "sent"} THEN m.k ELSE 0,
           bpm |-> IF fate = "sent" THEN m.bpm ELSE Unset]

HandleBpmChanged(m) ==
  /\ m.kind = "BpmChanged"
  /\ gap' = GapBuffers(m.bpm) /\ UNCHANGED waiting
  /\ Remember(m, "done")

HandleStartOrStop(m) ==
  /\ m.kind \in {"Start", "Stop"}
  /\ gap' = NoGap /\ waiting' = TRUE
  /\ Remember(m, "done")

\* The gate a tick finds: a gap that is over leaves the wait for a beat.
\* Mutant: pulses resume as soon as the gap is over.
HeldAfterGap(k) == waiting /\ gap = NoGap /\ ~OnBeat(k)
Held(k) == (waiting \/ gap = 0) /\ ~OnBeat(k)

HandleTick(m) ==
  /\ m.kind = "Tick"
  /\ \/ gap > 0 /\ UNCHANGED <<gap, waiting>> /\ Remember(m, "held")
     \/ gap <= 0 /\ gap' = NoGap /\ waiting' = Held(m.k)
        /\ Remember(m, IF Held(m.k) THEN "held" ELSE IF on THEN "sent" ELSE "off")

Handle ==
  /\ queue # <<>> /\ queue' = Tail(queue)
  /\ LET m == Head(queue) IN HandleBpmChanged(m) \/ HandleStartOrStop(m) \/ HandleTick(m)
  /\ UNCHANGED <<audio, pos, todo, panel, unsure>>

Panel == TogglePlay \/ PressStop \/ SetStandaloneBpm \/ TapTempo

Next == Buffer \/ Accumulate \/ Locate \/ Push \/ Panel \/ Handle

\* While it plays, audio runs on, and not in buffers too short for a tick for ever; and
\* the worker goes on.
Fairness == SF_vars(Advance) /\ WF_vars(Accumulate) /\ WF_vars(Push) /\ WF_vars(Handle)

Spec == Init /\ [][Next]_vars /\ Fairness

-----------------------------------------------------------------------------
(* Properties *)

Msg ==
  {m \in [kind : {"Start", "Stop", "BpmChanged", "Tick"}, k : 0..(Song - 1),
          bpm : Tempo \cup {Unset}, sure : BOOLEAN] :
     m.kind = "BpmChanged" => m.bpm \in Tempo}

\* Every variable is in its range, and the channel within its capacity.
TypeOK ==
  /\ standalone \in BOOLEAN
  /\ playAtom \in BOOLEAN /\ stopTrigger \in BOOLEAN /\ moved \in BOOLEAN
  /\ adding \in BOOLEAN /\ stopped \in BOOLEAN
  /\ playing \in BOOLEAN /\ on \in BOOLEAN /\ waiting \in BOOLEAN /\ unsure \in BOOLEAN
  /\ bpm \in Tempo /\ announced \in Tempo \cup {Unset}
  /\ pos \in 0..(Song - 1)
  /\ todo \in Seq(Msg) /\ Len(todo) <= BufferTicks + 2
  /\ queue \in Seq(Msg) /\ Len(queue) <= ChannelCap
  /\ gap \in Int /\ gap >= NoGap
  /\ last \in [k : 0..(Song - 1), bpm : Tempo \cup {Unset},
               fate : {"none", "done", "held", "off", "sent"}]

Pulse == Len(queue') < Len(queue) /\ last'.fate = "sent"
Follows(k, j) == k = (j + 1) % Song

\* The pulses of a receiver stay in phase: off the beat the worker sends a pulse
\* only to continue the one of the tick before.  After a start, a stop, a change
\* of tempo or a tick it held back, the first pulse is one on a beat.  (Nobody
\* tells the worker of a position that jumps or of the clock being off.)
PulsesUnbroken ==
  [][ Pulse /\ ~OnBeat(last'.k)
        /\ (last.fate \in {"held", "sent"} => Follows(last'.k, last.k))
      => last.fate # "done" /\ last.fate # "held" ]_vars

\* After Stop the panel shows a transport that stands still at the start, from the buffer
\* on that takes the trigger: no position that was read before is stored after it.
StopRewinds == stopped /\ ~stopTrigger => ~playAtom /\ ~moved

\* Two pulses of different tempos do not follow each other without a gap, or a
\* start, between them, unless the announcement was lost or none is made: the
\* clock was switched on in mid-play, or there is no host.
NewTempoHasGap ==
  [][ Pulse /\ last.fate = "sent" /\ Diff(last'.bpm, last.bpm) > 2 * Threshold
      => ~Head(queue).sure ]_vars

\* Once the host plays on at one tempo and nothing is lost, pulses go out,
\* whatever starts, changes of tempo and losses came before.
Disturbed == Locate \/ (~Fits /\ Push) \/ playing' # playing \/ bpm' # bpm \/ on' # on
ClockRuns ==
  <>[](playing /\ on) /\ <>[][~Disturbed]_vars => []<>(last.fate = "sent")

=============================================================================
