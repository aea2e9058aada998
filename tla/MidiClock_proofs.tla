---------------------------- MODULE MidiClock_proofs ---------------------------
(***************************************************************************)
(* Theorems about MidiClock, for every resolution, song, tempo, buffer and  *)
(* channel.                                                                 *)
(***************************************************************************)
EXTENDS MidiClock, TLAPS

Safety == Init /\ [][Next]_vars

LEMMA WrapsInSong == ASSUME NEW x \in Nat PROVE x % Song \in 0..(Song - 1)
BY ClockAssumption, SMTT(30)

LEMMA GapIsNat == ASSUME NEW b \in Tempo PROVE GapBuffers(b) \in Nat /\ GapBuffers(b) > 0
<1>1. b \in Nat \ {0}
  BY ClockAssumption
<1>2. (3 * 60000) \div (2 * b) \in Int
  BY <1>1, SMTT(30)
<1>3. GapMs(b) \in Nat /\ GapMs(b) >= 1500
  BY <1>2 DEF GapMs, Min2, Max2, MinGapMs, MaxGapMs
<1>4. GapMs(b) + BufferMs - 1 \in Nat /\ GapMs(b) + BufferMs - 1 >= BufferMs
  BY <1>3, ClockAssumption
<1>5. ASSUME NEW x \in Nat, x >= BufferMs PROVE x \div BufferMs \in Nat /\ x \div BufferMs > 0
  BY <1>5, ClockAssumption, SMTT(30)
<1>6. QED
  BY <1>4, <1>5 DEF GapBuffers

-----------------------------------------------------------------------------
(* Type correctness *)

LEMMA InitType == Init => TypeOK
<1> SUFFICES ASSUME Init PROVE TypeOK
  OBVIOUS
<1>1. 0 \in 0..(Song - 1)
  BY ClockAssumption
<1>2. <<>> \in Seq(Msg) /\ Len(<<>>) = 0
  OBVIOUS
<1>3. todo \in Seq(Msg) /\ Len(todo) <= BufferTicks + 2
  BY <1>2, ClockAssumption DEF Init
<1>4. queue \in Seq(Msg) /\ Len(queue) <= ChannelCap
  BY <1>2, ClockAssumption DEF Init
<1>5. gap \in Int /\ gap >= NoGap
  BY DEF Init, NoGap
<1>6. last \in [k : 0..(Song - 1), bpm : Tempo \cup {Unset},
                fate : {"none", "done", "held", "off", "sent"}]
  BY <1>1 DEF Init
<1> QED
  BY <1>3, <1>4, <1>5, <1>6 DEF Init, TypeOK

LEMMA MessagesType ==
  ASSUME TypeOK, NEW p \in BOOLEAN, NEW b \in Tempo, NEW n \in 0..BufferTicks
  PROVE  /\ Messages(p, b, n) \in Seq(Msg) /\ Len(Messages(p, b, n)) <= BufferTicks + 2
         /\ Announced(p, b) \in Tempo \cup {Unset}
<1>1. 0 \in 0..(Song - 1) /\ BufferTicks \in Nat /\ pos \in Nat
  BY ClockAssumption DEF TypeOK
<1>2. Edge(p) \in Seq(Msg) /\ Len(Edge(p)) <= 1
  <2>1. TransportStart \in Msg /\ Stop \in Msg
    BY <1>1 DEF TransportStart, Stop, Msg
  <2> QED
    BY <2>1 DEF Edge
<1>3. BpmChanged(b) \in Msg
  BY <1>1 DEF BpmChanged, Msg
<1>4. Change(p, b) \in Seq(Msg) /\ Len(Change(p, b)) <= 1
  BY <1>3 DEF Change
<1>5. Ticks(p, b, n) \in Seq(Msg) /\ Len(Ticks(p, b, n)) <= BufferTicks
  <2>1. ASSUME NEW i \in 1..n PROVE Tick((pos + i - 1) % Song, b) \in Msg
    <3>1. pos + i - 1 \in Nat
      BY <1>1
    <3>2. (pos + i - 1) % Song \in 0..(Song - 1)
      BY <3>1, WrapsInSong
    <3> QED
      BY <3>2 DEF Tick, Msg
  <2>2. [i \in 1..n |-> Tick((pos + i - 1) % Song, b)] \in [1..n -> Msg]
    BY <2>1
  <2>3. n \in Nat /\ n <= BufferTicks
    BY <1>1
  <2>4. ASSUME NEW f \in [1..n -> Msg] PROVE f \in Seq(Msg) /\ Len(f) = n
    BY <2>3
  <2>5. CASE p
    BY <2>2, <2>3, <2>4, <2>5 DEF Ticks
  <2>6. CASE ~p
    BY <1>1, <2>6 DEF Ticks
  <2> QED
    BY <2>5, <2>6
<1>6. ASSUME NEW s \in Seq(Msg), NEW t \in Seq(Msg)
      PROVE  s \o t \in Seq(Msg) /\ Len(s \o t) = Len(s) + Len(t)
  OBVIOUS
<1>7. /\ (Edge(p) \o Change(p, b)) \in Seq(Msg)
      /\ Len(Edge(p) \o Change(p, b)) = Len(Edge(p)) + Len(Change(p, b))
  BY <1>2, <1>4, <1>6
<1>8. /\ Messages(p, b, n) \in Seq(Msg)
      /\ Len(Messages(p, b, n)) = Len(Edge(p)) + Len(Change(p, b)) + Len(Ticks(p, b, n))
  BY <1>5, <1>6, <1>7 DEF Messages
<1>9. Announced(p, b) \in Tempo \cup {Unset}
  BY DEF Announced, Seed, TypeOK
<1> DEFINE e == Len(Edge(p))
           c == Len(Change(p, b))
           t == Len(Ticks(p, b, n))
<1>10. e \in Nat /\ c \in Nat /\ t \in Nat
  BY <1>2, <1>4, <1>5
<1>11. e + c + t <= BufferTicks + 2
  <2> HIDE DEF e, c, t
  <2>1. e <= 1 /\ c <= 1 /\ t <= BufferTicks
    BY <1>2, <1>4, <1>5 DEF e, c, t
  <2> QED
    BY <1>1, <1>10, <2>1
<1> QED
  BY <1>8, <1>9, <1>11

LEMMA HostBufferType ==
  ASSUME TypeOK, NEW p \in BOOLEAN, NEW b \in Tempo, NEW e \in BOOLEAN,
         NEW n \in 0..BufferTicks, HostBuffer(p, b, e, n)
  PROVE  TypeOK'
<1>1. /\ todo' \in Seq(Msg) /\ Len(todo') <= BufferTicks + 2
      /\ announced' \in Tempo \cup {Unset}
  BY MessagesType DEF HostBuffer, TypeOK
<1>2. pos' \in 0..(Song - 1)
  <2>1. pos + n \in Nat
    BY ClockAssumption DEF TypeOK
  <2> QED
    BY <2>1, WrapsInSong DEF HostBuffer, TypeOK
<1>3. gap' \in Int /\ gap' >= NoGap
  BY DEF HostBuffer, Process, TypeOK, NoGap
<1> QED
  BY <1>1, <1>2, <1>3 DEF HostBuffer, Process, TypeOK

\* The pulses since a beat are counted within the song of the properties.
LEMMA WrapsInBeat == ASSUME NEW x \in Nat PROVE x % PPQ \in 0..(Song - 1)
<1>1. x % PPQ \in 0..(PPQ - 1)
  BY ClockAssumption, SMTT(30)
<1> QED
  BY <1>1, ClockAssumption

LEMMA StandaloneBufferType ==
  ASSUME TypeOK, NEW e \in BOOLEAN, NEW n \in 0..BufferTicks, StandaloneBuffer(e, n)
  PROVE  TypeOK'
<1>1. BufferTicks \in Nat /\ n \in Nat /\ n <= BufferTicks /\ pos \in Nat /\ bpm \in Tempo
  BY ClockAssumption DEF StandaloneBuffer, TypeOK
<1>2. todo' \in Seq(Msg) /\ Len(todo') <= BufferTicks + 2
  <2>1. ASSUME NEW i \in 1..n PROVE Tick((pos + i - 1) % PPQ, bpm) \in Msg
    <3>1. pos + i - 1 \in Nat
      BY <1>1
    <3>2. (pos + i - 1) % PPQ \in 0..(Song - 1)
      BY <3>1, WrapsInBeat
    <3> QED
      BY <1>1, <3>2 DEF Tick, Msg
  <2>2. [i \in 1..n |-> Tick((pos + i - 1) % PPQ, bpm)] \in [1..n -> Msg]
    BY <2>1
  <2>3. ASSUME NEW f \in [1..n -> Msg] PROVE f \in Seq(Msg) /\ Len(f) = n
    BY <1>1
  <2>4. CASE PanelPlays /\ e
    <3> DEFINE f == [i \in 1..n |-> Tick((pos + i - 1) % PPQ, bpm)]
    <3>1. todo' = f
      BY <2>4 DEF StandaloneBuffer
    <3>2. f \in Seq(Msg) /\ Len(f) = n
      <4>1. f \in [1..n -> Msg]
        BY <2>2
      <4> HIDE DEF f
      <4> QED
        BY <2>3, <4>1
    <3> QED
      BY <1>1, <3>1, <3>2
  <2>5. CASE ~(PanelPlays /\ e)
    BY <1>1, <2>5 DEF StandaloneBuffer
  <2> QED
    BY <2>4, <2>5
<1>3. pos' \in 0..(Song - 1)
  <2>1. pos + n \in Nat
    BY <1>1
  <2>2. PPQ - 1 \in 0..(Song - 1)
    BY ClockAssumption
  <2> QED
    BY <2>1, <2>2, WrapsInBeat DEF StandaloneBuffer, TypeOK
<1>4. gap' \in Int /\ gap' >= NoGap
  BY DEF StandaloneBuffer, Process, TypeOK, NoGap
<1>5. playAtom' \in BOOLEAN /\ moved' \in BOOLEAN /\ stopTrigger' \in BOOLEAN /\ adding' \in BOOLEAN
  BY DEF StandaloneBuffer, ConsumeTrigger, PanelPlays, TypeOK
<1>6. playing' \in BOOLEAN
  BY DEF StandaloneBuffer, Process, PanelPlays, TypeOK
<1> QED
  BY <1>1, <1>2, <1>3, <1>4, <1>5, <1>6 DEF StandaloneBuffer, Process, TypeOK

LEMMA PushType == ASSUME TypeOK, Push PROVE TypeOK'
<1> DEFINE m == Head(todo)
<1>1. m \in Msg /\ Tail(todo) \in Seq(Msg) /\ Len(Tail(todo)) <= BufferTicks + 2
  BY ClockAssumption DEF Push, TypeOK
<1>2. Sure(m) \in Msg
  <2> HIDE DEF m
  <2> QED
    BY <1>1 DEF Sure, Msg, TypeOK
<1>3. queue' \in Seq(Msg) /\ Len(queue') <= ChannelCap
  <2>1. CASE Fits
    <3>1. queue' = Append(queue, Sure(m))
      BY <2>1 DEF Push
    <3> HIDE DEF m
    <3> QED
      BY <1>2, <2>1, <3>1, ClockAssumption DEF Fits, TypeOK
  <2>2. CASE ~Fits
    BY <2>2 DEF Push, TypeOK
  <2> QED
    BY <2>1, <2>2
<1>4. unsure' \in BOOLEAN
  BY DEF Push, TypeOK, Fits
<1> QED
  BY <1>1, <1>3, <1>4 DEF Push, TypeOK, audio, panel, worker

LEMMA HandleType == ASSUME TypeOK, Handle PROVE TypeOK'
<1> DEFINE m == Head(queue)
<1>1. m \in Msg /\ queue' \in Seq(Msg) /\ Len(queue') <= ChannelCap
  BY ClockAssumption DEF Handle, TypeOK
<1>2. 0 \in 0..(Song - 1)
  BY ClockAssumption
<1>3. ASSUME NEW fate \in {"done", "held", "off", "sent"}, Remember(m, fate)
      PROVE  last' \in [k : 0..(Song - 1), bpm : Tempo \cup {Unset},
                        fate : {"none", "done", "held", "off", "sent"}]
  <2> HIDE DEF m
  <2> QED
    BY <1>1, <1>2, <1>3 DEF Remember, Msg
<1>4. /\ gap' \in Int /\ gap' >= NoGap /\ waiting' \in BOOLEAN
      /\ last' \in [k : 0..(Song - 1), bpm : Tempo \cup {Unset},
                    fate : {"none", "done", "held", "off", "sent"}]
  <2>1. CASE HandleBpmChanged(m)
    <3>1. m.bpm \in Tempo
      <4> HIDE DEF m
      <4> QED
        BY <1>1, <2>1 DEF Msg, HandleBpmChanged
    <3>2. gap' \in Nat
      BY <2>1, <3>1, GapIsNat DEF HandleBpmChanged
    <3>3. waiting' \in BOOLEAN
      BY <2>1 DEF HandleBpmChanged, TypeOK
    <3> QED
      BY <1>3, <2>1, <3>2, <3>3 DEF HandleBpmChanged, NoGap
  <2>2. CASE HandleStartOrStop(m)
    BY <1>3, <2>2 DEF HandleStartOrStop, NoGap
  <2>3. CASE HandleTick(m)
    <3>1. gap' \in Int /\ gap' >= NoGap
      BY <2>3 DEF HandleTick, NoGap, TypeOK
    <3>2. waiting' \in BOOLEAN
      BY <2>3 DEF HandleTick, Held, TypeOK
    <3>3. \E fate \in {"done", "held", "off", "sent"} : Remember(m, fate)
      BY <2>3 DEF HandleTick
    <3> QED
      BY <1>3, <3>1, <3>2, <3>3
  <2> QED
    BY <2>1, <2>2, <2>3 DEF Handle
<1> QED
  BY <1>1, <1>4 DEF Handle, TypeOK, audio, panel

LEMMA LocateType == ASSUME TypeOK, Locate PROVE TypeOK'
<1>1. pos' \in 0..(Song - 1)
  BY DEF Locate
<1> QED
  BY <1>1 DEF Locate, TypeOK, audio, panel, worker

LEMMA NextType == TypeOK /\ [Next]_vars => TypeOK'
<1> SUFFICES ASSUME TypeOK, [Next]_vars PROVE TypeOK'
  OBVIOUS
<1>1. CASE Buffer
  BY <1>1, HostBufferType, StandaloneBufferType DEF Buffer
<1>2. CASE Locate
  BY <1>2, LocateType
<1>3. CASE Push
  BY <1>3, PushType
<1>4. CASE Handle
  BY <1>4, HandleType
<1>5. CASE Accumulate
  <2>1. moved' \in BOOLEAN /\ adding' \in BOOLEAN
    BY <1>5 DEF Accumulate
  <2>2. UNCHANGED <<audio, pos, todo, playAtom, stopTrigger, stopped, queue, worker, unsure>>
    BY <1>5 DEF Accumulate
  <2> QED
    BY <2>1, <2>2 DEF TypeOK, audio, worker
<1>6. CASE TogglePlay \/ PressStop
  BY <1>6 DEF TogglePlay, PressStop, AskStop, TypeOK, audio, worker
<1>7. CASE SetStandaloneBpm \/ TapTempo
  <2>1. bpm' \in Tempo
    BY <1>7 DEF SetStandaloneBpm, TapTempo, TypeOK
  <2> QED
    BY <1>7, <2>1 DEF SetStandaloneBpm, TapTempo, TypeOK, panel, worker
<1>8. CASE UNCHANGED vars
  BY <1>8 DEF vars, TypeOK, audio, panel, worker
<1> QED
  BY <1>1, <1>2, <1>3, <1>4, <1>5, <1>6, <1>7, <1>8 DEF Next, Panel

\* Every reachable state of the audio thread, the channel and the worker is in range,
\* and the channel never holds more than its capacity.
THEOREM TypeCorrect == Safety => []TypeOK
<1> QED
  BY InitType, NextType, PTL DEF Safety

-----------------------------------------------------------------------------
(* The phase of the pulses *)

\* What the worker remembers of the last message: after one that broke the run of
\* pulses, or a tick it held back, its gate is up.
Gated == last.fate \in {"done", "held"} => waiting \/ gap >= 0

LEMMA GatedInductive == TypeOK /\ Gated /\ [Next]_vars => Gated'
<1> SUFFICES ASSUME TypeOK, Gated, [Next]_vars PROVE Gated'
  OBVIOUS
<1>1. CASE Buffer
  BY <1>1 DEF Buffer, HostBuffer, StandaloneBuffer, Process, Gated, TypeOK
<1>2. CASE Locate
  BY <1>2 DEF Locate, Gated, worker
<1>3. CASE Push
  BY <1>3 DEF Push, Gated, worker
<1>4. CASE Handle
  <2> DEFINE m == Head(queue)
  <2>1. CASE HandleBpmChanged(m)
    <3>1. m \in Msg
      BY <1>4 DEF Handle, TypeOK
    <3>2. m.bpm \in Tempo
      <4> HIDE DEF m
      <4> QED
        BY <2>1, <3>1 DEF Msg, HandleBpmChanged
    <3> QED
      BY <2>1, <3>2, GapIsNat DEF HandleBpmChanged, Gated
  <2>2. CASE HandleStartOrStop(m)
    BY <2>2 DEF HandleStartOrStop, Gated
  <2>3. CASE HandleTick(m)
    BY <2>3 DEF HandleTick, Remember, Gated, TypeOK
  <2> QED
    BY <1>4, <2>1, <2>2, <2>3 DEF Handle
<1>5. CASE Accumulate \/ Panel
  BY <1>5 DEF Accumulate, Panel, TogglePlay, PressStop, SetStandaloneBpm, TapTempo, Gated, worker
<1>6. CASE UNCHANGED vars
  BY <1>6 DEF vars, Gated, worker
<1> QED
  BY <1>1, <1>2, <1>3, <1>4, <1>5, <1>6 DEF Next

\* A step that sends a pulse off the beat found the gate down.
LEMMA OffBeatNeedsNoGate ==
  ASSUME TypeOK, [Next]_vars, Pulse, ~OnBeat(last'.k)
  PROVE  ~waiting /\ gap < 0
<1>1. CASE Handle
  <2> DEFINE m == Head(queue)
  <2>1. HandleTick(m)
    BY <1>1 DEF Handle, Pulse, HandleBpmChanged, HandleStartOrStop, Remember
  <2>2. gap <= 0 /\ ~Held(m.k) /\ last'.k = m.k
    BY <2>1 DEF HandleTick, Remember, Pulse, TypeOK
  <2> QED
    BY <2>2 DEF Held, TypeOK, NoGap
<1>2. CASE ~Handle
  <2>1. Len(queue') >= Len(queue)
    <3>1. CASE Push
      BY <3>1 DEF Push, TypeOK
    <3>2. CASE ~Push
      BY <1>2, <3>2 DEF Next, Buffer, HostBuffer, StandaloneBuffer, Process, Locate, Accumulate,
           Panel, TogglePlay, PressStop, SetStandaloneBpm, TapTempo, vars, TypeOK
    <3> QED
      BY <3>1, <3>2
  <2> QED
    BY <2>1 DEF Pulse, TypeOK
<1> QED
  BY <1>1, <1>2

\* Whatever starts, stops, changes of tempo and losses there are, the first pulse after
\* a break the worker was told of is one on a beat.
THEOREM PhaseKept == Safety => PulsesUnbroken
<1>1. Init => Gated
  BY DEF Init, Gated
<1>2. TypeOK /\ Gated /\ [Next]_vars =>
        [ Pulse /\ ~OnBeat(last'.k)
            /\ (last.fate \in {"held", "sent"} => Follows(last'.k, last.k))
          => last.fate # "done" /\ last.fate # "held" ]_vars
  <2> SUFFICES ASSUME TypeOK, Gated, [Next]_vars, Pulse, ~OnBeat(last'.k)
               PROVE  last.fate # "done" /\ last.fate # "held"
    OBVIOUS
  <2>1. ~waiting /\ gap < 0
    BY OffBeatNeedsNoGate
  <2> QED
    BY <2>1 DEF Gated, TypeOK
<1> QED
  BY TypeCorrect, <1>1, <1>2, GatedInductive, PTL DEF Safety, PulsesUnbroken

-----------------------------------------------------------------------------
(* The panel of the standalone build *)

\* Between the buffer that takes the trigger and the next Play nothing is added.
StopHolds == stopped /\ ~stopTrigger => ~playAtom /\ ~moved /\ ~adding

LEMMA StopHoldsInductive == TypeOK /\ StopHolds /\ [Next]_vars => StopHolds'
<1> SUFFICES ASSUME TypeOK, StopHolds, [Next]_vars PROVE StopHolds'
  OBVIOUS
<1>1. CASE \E p, e \in BOOLEAN, b \in Tempo, n \in 0..BufferTicks : HostBuffer(p, b, e, n)
  BY <1>1 DEF HostBuffer, Process, StopHolds
<1>2. CASE \E e \in BOOLEAN, n \in 0..BufferTicks : StandaloneBuffer(e, n)
  BY <1>2 DEF StandaloneBuffer, Process, ConsumeTrigger, PanelPlays, StopHolds, TypeOK
<1>3. CASE Locate \/ Push \/ Handle
  BY <1>3 DEF Locate, Push, Handle, panel, StopHolds
<1>4. CASE Accumulate \/ Panel
  BY <1>4 DEF Accumulate, Panel, TogglePlay, PressStop, AskStop, SetStandaloneBpm, TapTempo, panel,
     StopHolds, TypeOK
<1>5. CASE UNCHANGED vars
  BY <1>5 DEF vars, panel, StopHolds
<1> QED
  BY <1>1, <1>2, <1>3, <1>4, <1>5 DEF Next, Buffer

\* A Stop of the panel is not undone by a position that process() was in the middle of
\* adding to, whenever it is pressed.
THEOREM StopIsFinal == Safety => []StopRewinds
<1>1. Init => StopHolds
  BY DEF Init, StopHolds
<1>2. StopHolds => StopRewinds
  BY DEF StopHolds, StopRewinds
<1> QED
  BY TypeCorrect, <1>1, <1>2, StopHoldsInductive, PTL DEF Safety

-----------------------------------------------------------------------------
(* The gap before a new tempo *)

IsTick(m) == m.kind = "Tick"
Near(b, c) == Diff(b, c) <= Threshold
Alike(b, c) == Diff(b, c) <= 2 * Threshold

\* A buffer announces before it ticks, at most once, and ticks at what was announced.
AnnouncedFirst ==
  /\ standalone => announced = Unset
  /\ \A i \in 1..Len(todo) :
       /\ IsTick(todo[i]) /\ announced # Unset => Near(todo[i].bpm, announced)
       /\ i > 1 => IsTick(todo[i])

\* A tick that is sure of its announcement is no news after the tick before it.
QueueAlike ==
  \A i \in 2..Len(queue) :
    IsTick(queue[i - 1]) /\ IsTick(queue[i]) /\ queue[i].sure =>
      Alike(queue[i].bpm, queue[i - 1].bpm)
HeadAlike ==
  queue # <<>> /\ last.fate = "sent" /\ IsTick(queue[1]) /\ queue[1].sure =>
    Alike(queue[1].bpm, last.bpm)

\* Once the announcements of the buffer are in the channel, the last tick that went there
\* was counted at the tempo announced, or an announcement came after it or was lost.
EndIsNear ==
  ~unsure /\ announced # Unset /\ (todo = <<>> \/ IsTick(todo[1])) =>
    IF queue = <<>> THEN last.fate = "sent" => Near(last.bpm, announced)
    ELSE IsTick(queue[Len(queue)]) => Near(queue[Len(queue)].bpm, announced)

TempoInv == AnnouncedFirst /\ QueueAlike /\ HeadAlike /\ EndIsNear

\* Two tempos near a third are no more than twice the threshold apart.
LEMMA NearBoth ==
  ASSUME NEW a \in Nat, NEW b \in Nat, NEW c \in Nat, Near(a, c), Near(b, c)
  PROVE  Alike(a, b)
BY ClockAssumption DEF Near, Alike, Diff

LEMMA TempoIsNat == Tempo \cup {Unset} \subseteq Nat
BY ClockAssumption DEF Unset

LEMMA HeadTail ==
  ASSUME NEW s \in Seq(Msg), s # <<>>
  PROVE  /\ Len(s) \in Nat /\ Len(s) >= 1 /\ Head(s) = s[1] /\ s[1] \in Msg
         /\ Len(Tail(s)) = Len(s) - 1
         /\ \A i \in 1..(Len(s) - 1) : Tail(s)[i] = s[i + 1]
         /\ Tail(s) = <<>> <=> Len(s) = 1
<1>1. /\ Len(s) \in Nat /\ Len(s) >= 1 /\ Head(s) = s[1] /\ s[1] \in Msg
      /\ Tail(s) \in Seq(Msg) /\ Len(Tail(s)) = Len(s) - 1
      /\ \A i \in 1..(Len(s) - 1) : Tail(s)[i] = s[i + 1]
  OBVIOUS
<1>2. ASSUME NEW t \in Seq(Msg) PROVE t = <<>> <=> Len(t) = 0
  OBVIOUS
<1>3. Tail(s) = <<>> <=> Len(Tail(s)) = 0
  BY <1>1, <1>2
<1>. QED BY <1>1, <1>3

\* What a buffer announces: a start, a stop or a new tempo, one of them at most, and the
\* ticks after it are near the tempo that then stands as announced.
LEMMA Announcement ==
  ASSUME TypeOK, NEW p \in BOOLEAN, NEW b \in Tempo
  PROVE  /\ \/ Edge(p) \o Change(p, b) = <<>> /\ Announced(p, b) = announced
            \/ \E m \in {TransportStart, Stop, BpmChanged(b)} : Edge(p) \o Change(p, b) = <<m>>
         /\ p /\ Announced(p, b) # Unset => Near(b, Announced(p, b))
<1>1. b \in Nat /\ Threshold \in Nat /\ b # Unset /\ Diff(b, b) = 0
  BY ClockAssumption DEF Diff, Unset
<1>2. ASSUME NEW s PROVE <<s>> \o <<>> = <<s>> /\ <<>> \o <<s>> = <<s>> /\ <<>> \o <<>> = <<>>
  OBVIOUS
<1>3. CASE p /\ ~playing
  <2>1. Seed(p, b) = b /\ Change(p, b) = <<>> /\ Edge(p) = <<TransportStart>>
    BY <1>1, <1>3 DEF Seed, Change, Edge
  <2>2. Announced(p, b) = b
    BY <2>1 DEF Announced
  <2>. QED BY <1>1, <1>2, <2>1, <2>2 DEF Near
<1>4. CASE ~p
  <2>1. Change(p, b) = <<>>
    BY <1>4 DEF Change
  <2>2. Announced(p, b) = announced
    BY <1>4, <2>1 DEF Announced, Seed
  <2>3. Edge(p) \in {<<Stop>>, <<>>}
    BY <1>4 DEF Edge
  <2>. QED BY <1>2, <1>4, <2>1, <2>2, <2>3
<1>5. CASE p /\ playing
  <2>1. Edge(p) = <<>> /\ Seed(p, b) = announced
    BY <1>5 DEF Edge, Seed
  <2>2. CASE announced # Unset /\ Diff(b, announced) > Threshold
    <3>1. Change(p, b) = <<BpmChanged(b)>>
      BY <1>5, <2>1, <2>2 DEF Change
    <3>2. Announced(p, b) = b
      BY <3>1 DEF Announced
    <3>. QED BY <1>1, <1>2, <2>1, <3>1, <3>2 DEF Near
  <2>3. CASE ~(announced # Unset /\ Diff(b, announced) > Threshold)
    <3>1. Change(p, b) = <<>> /\ Announced(p, b) = announced
      BY <2>1, <2>3 DEF Change, Announced
    <3>2. announced # Unset => Diff(b, announced) \in Nat
      BY <1>1, TempoIsNat DEF TypeOK, Diff
    <3>. QED BY <1>1, <1>2, <2>1, <2>3, <3>1, <3>2 DEF Near
  <2>. QED BY <2>2, <2>3
<1>. QED BY <1>3, <1>4, <1>5 DEF TypeOK

\* The ticks of a buffer come with its tempo, and only while it plays.
LEMMA TicksType ==
  ASSUME TypeOK, NEW p \in BOOLEAN, NEW b \in Tempo, NEW n \in 0..BufferTicks
  PROVE  /\ Ticks(p, b, n) \in Seq(Msg) /\ Len(Ticks(p, b, n)) \in 0..BufferTicks
         /\ \A i \in 1..Len(Ticks(p, b, n)) :
              Ticks(p, b, n)[i].kind = "Tick" /\ Ticks(p, b, n)[i].bpm = b
         /\ Ticks(p, b, n) # <<>> => p
<1>1. n \in Nat /\ n <= BufferTicks /\ BufferTicks \in Nat /\ pos \in Nat
  BY ClockAssumption DEF TypeOK
<1>2. ASSUME NEW i \in 1..n
      PROVE  /\ Tick((pos + i - 1) % Song, b) \in Msg
             /\ Tick((pos + i - 1) % Song, b).kind = "Tick" /\ Tick((pos + i - 1) % Song, b).bpm = b
  <2>1. pos + i - 1 \in Nat
    BY <1>1
  <2>2. (pos + i - 1) % Song \in 0..(Song - 1)
    BY <2>1, WrapsInSong
  <2>. QED BY <2>2 DEF Tick, Msg
<1>. DEFINE f == [i \in 1..n |-> Tick((pos + i - 1) % Song, b)]
<1>3. f \in [1..n -> Msg] /\ \A i \in 1..n : f[i].kind = "Tick" /\ f[i].bpm = b
  BY <1>2
<1>4. Ticks(p, b, n) = IF p THEN f ELSE <<>>
  BY DEF Ticks
<1>. HIDE DEF f
<1>5. f \in Seq(Msg) /\ Len(f) = n
  BY <1>1, <1>3
<1>. QED BY <1>1, <1>3, <1>4, <1>5

LEMMA After ==
  ASSUME NEW f \in Seq(Msg), NEW h \in Seq(Msg), Len(h) <= 1
  PROVE  \A i \in 1..Len(h \o f) :
           /\ i > Len(h) => i - Len(h) \in 1..Len(f) /\ (h \o f)[i] = f[i - Len(h)]
           /\ i <= Len(h) => i = 1 /\ (h \o f)[i] = h[1]
<1>1. Len(f) \in Nat /\ Len(h) \in Nat /\ Len(h \o f) = Len(h) + Len(f)
  OBVIOUS
<1>2. ASSUME NEW i \in 1..Len(h \o f), i > Len(h)
      PROVE  (h \o f)[i] = f[i - Len(h)] /\ i - Len(h) \in 1..Len(f)
  BY <1>1, <1>2
<1>3. ASSUME NEW i \in 1..Len(h \o f), i <= Len(h)
      PROVE  i = 1 /\ (h \o f)[i] = h[1]
  BY <1>1, <1>3
<1>. QED BY <1>2, <1>3

LEMMA HostTempo ==
  ASSUME TypeOK, TempoInv, NEW p \in BOOLEAN, NEW b \in Tempo, NEW e \in BOOLEAN,
         NEW n \in 0..BufferTicks, HostBuffer(p, b, e, n)
  PROVE  TempoInv'
<1>1. /\ ~standalone /\ todo = <<>>
      /\ UNCHANGED <<standalone, queue, last, unsure>>
  BY DEF HostBuffer, Process
<1>2. QueueAlike' /\ HeadAlike'
  BY <1>1 DEF TempoInv, QueueAlike, HeadAlike
<1>3. CASE ~e
  <2>1. todo' = <<>> /\ announced' = announced
    BY <1>1, <1>3 DEF HostBuffer
  <2>. QED BY <1>1, <1>2, <2>1 DEF TempoInv, AnnouncedFirst, EndIsNear
<1>4. CASE e
  <2>. DEFINE h == Edge(p) \o Change(p, b)
              f == Ticks(p, b, n)
  <2>1. todo' = h \o f /\ announced' = Announced(p, b)
    BY <1>4 DEF HostBuffer, Messages
  <2>2. /\ \/ h = <<>> /\ announced' = announced
           \/ \E m \in {TransportStart, Stop, BpmChanged(b)} : h = <<m>>
        /\ p /\ announced' # Unset => Near(b, announced')
    BY <2>1, Announcement
  <2>3. h \in Seq(Msg) /\ Len(h) <= 1 /\ (Len(h) = 1 => ~IsTick(h[1])) /\ f \in Seq(Msg)
    <3>1. TransportStart \in Msg /\ Stop \in Msg /\ BpmChanged(b) \in Msg
      BY ClockAssumption DEF TransportStart, Stop, BpmChanged, Msg
    <3>2. h = <<>> \/ \E m \in {TransportStart, Stop, BpmChanged(b)} : h = <<m>>
      BY <2>2
    <3>3. ~IsTick(TransportStart) /\ ~IsTick(Stop) /\ ~IsTick(BpmChanged(b))
      BY DEF TransportStart, Stop, BpmChanged, IsTick
    <3>4. f \in Seq(Msg)
      BY TicksType
    <3>5. <<>> \in Seq(Msg) /\ Len(<<>>) = 0
      OBVIOUS
    <3>6. ASSUME NEW m \in Msg PROVE <<m>> \in Seq(Msg) /\ Len(<<m>>) = 1 /\ <<m>>[1] = m
      OBVIOUS
    <3>. HIDE DEF h, f
    <3>7. CASE h = <<>>
      BY <3>4, <3>5, <3>7
    <3>8. ASSUME NEW m \in {TransportStart, Stop, BpmChanged(b)}, h = <<m>>
          PROVE  h \in Seq(Msg) /\ Len(h) <= 1 /\ ~IsTick(h[1])
      <4>1. m \in Msg /\ ~IsTick(m)
        BY <3>1, <3>3
      <4>. QED BY <3>6, <3>8, <4>1
    <3>. QED BY <3>2, <3>4, <3>7, <3>8
  <2>4. (\A i \in 1..Len(f) : f[i].kind = "Tick" /\ f[i].bpm = b) /\ (f # <<>> => p) /\ Len(f) \in 0..BufferTicks
    BY TicksType
  <2>. HIDE DEF h, f
  <2>5. \A i \in 1..Len(todo') :
           /\ i > Len(h) => IsTick(todo'[i]) /\ todo'[i].bpm = b
           /\ i <= Len(h) => i = 1 /\ todo'[i] = h[1]
    <3>1. \A i \in 1..Len(h \o f) :
             /\ i > Len(h) => i - Len(h) \in 1..Len(f) /\ (h \o f)[i] = f[i - Len(h)]
             /\ i <= Len(h) => i = 1 /\ (h \o f)[i] = h[1]
      BY <2>3, After
    <3>. QED BY <2>1, <2>4, <3>1 DEF IsTick
  <2>6. AnnouncedFirst'
    BY <1>1, <2>1, <2>2, <2>3, <2>4, <2>5 DEF AnnouncedFirst, TempoInv
  <2>7. todo' = <<>> \/ IsTick(todo'[1]) => announced' = announced
    BY <2>1, <2>2, <2>3, <2>5
  <2>8. EndIsNear'
    BY <1>1, <2>7 DEF TempoInv, EndIsNear
  <2>. QED BY <1>2, <2>6, <2>8 DEF TempoInv
<1>. QED BY <1>3, <1>4

LEMMA StandaloneTempo ==
  ASSUME TypeOK, TempoInv, NEW e \in BOOLEAN, NEW n \in 0..BufferTicks, StandaloneBuffer(e, n)
  PROVE  TempoInv'
<1>1. /\ standalone /\ announced = Unset
      /\ UNCHANGED <<standalone, announced, queue, last, unsure>>
  BY DEF StandaloneBuffer, Process, TempoInv, AnnouncedFirst
<1>2. QueueAlike' /\ HeadAlike' /\ EndIsNear'
  BY <1>1 DEF TempoInv, QueueAlike, HeadAlike, EndIsNear
<1>3. \A i \in 1..Len(todo') : IsTick(todo'[i])
  <2>. DEFINE f == [i \in 1..n |-> Tick((pos + i - 1) % PPQ, bpm)]
  <2>1. n \in Nat /\ \A i \in 1..n : f[i].kind = "Tick"
    BY ClockAssumption DEF Tick
  <2>2. todo' = IF PanelPlays /\ e THEN f ELSE <<>>
    BY DEF StandaloneBuffer
  <2>3. Len(f) = n
    BY <2>1
  <2>. HIDE DEF f
  <2>. QED BY <2>1, <2>2, <2>3 DEF IsTick
<1>. QED BY <1>1, <1>2, <1>3 DEF TempoInv, AnnouncedFirst

LEMMA PushTempo ==
  ASSUME TypeOK, TempoInv, Push
  PROVE  TempoInv'
<1>. DEFINE m == todo[1]
<1>1. /\ todo # <<>> /\ todo \in Seq(Msg) /\ todo' = Tail(todo) /\ Head(todo) = m /\ m \in Msg
      /\ UNCHANGED <<standalone, announced, last>>
  BY DEF Push, TypeOK, audio, worker
<1>2. /\ queue \in Seq(Msg)
      /\ queue' = IF Fits THEN Append(queue, Sure(m)) ELSE queue
      /\ unsure' = IF IsTick(m) THEN unsure ELSE ~Fits
  BY <1>1 DEF Push, TypeOK, IsTick
<1>3. /\ (IsTick(Sure(m)) <=> IsTick(m)) /\ Sure(m).bpm = m.bpm
      /\ IsTick(m) /\ Sure(m).sure => ~unsure /\ announced # Unset
  <2>. HIDE DEF m
  <2>. QED BY <1>1 DEF Sure, IsTick, Msg
<1>4. m.bpm \in Nat /\ (announced # Unset => announced \in Nat) /\ last.bpm \in Nat
  <2>1. m.bpm \in Tempo \cup {Unset}
    <3>. HIDE DEF m
    <3>. QED BY <1>1 DEF Msg
  <2>. QED BY <2>1, TempoIsNat DEF TypeOK
<1>5. Len(todo) >= 1 /\ Len(todo) \in Nat
  BY <1>1
<1>6. IsTick(m) /\ announced # Unset => Near(m.bpm, announced)
  BY <1>5 DEF TempoInv, AnnouncedFirst
<1>7. AnnouncedFirst'
  <2>1. /\ Len(todo') = Len(todo) - 1
        /\ \A i \in 1..Len(todo') : todo'[i] = todo[i + 1] /\ i + 1 \in 1..Len(todo) /\ i + 1 > 1
    BY <1>1
  <2>. QED BY <1>1, <2>1 DEF TempoInv, AnnouncedFirst
<1>. HIDE DEF m
<1>8. CASE ~Fits
  <2>1. queue' = queue /\ ~unsure' => ~unsure /\ IsTick(m)
    BY <1>2, <1>8 DEF TypeOK
  <2>2. QueueAlike' /\ HeadAlike'
    BY <1>1, <1>2, <1>8 DEF TempoInv, QueueAlike, HeadAlike
  <2>3. EndIsNear'
    BY <1>1, <1>2, <1>8, <2>1 DEF TempoInv, EndIsNear, m
  <2>. QED BY <1>7, <2>2, <2>3 DEF TempoInv
<1>9. CASE Fits
  <2>1. /\ queue' # <<>> /\ Len(queue) \in Nat
        /\ Len(queue') = Len(queue) + 1 /\ queue'[Len(queue')] = Sure(m)
        /\ \A i \in 1..Len(queue) : queue'[i] = queue[i] /\ queue[i] \in Msg
    BY <1>2, <1>9
  <2>2. EndIsNear'
    BY <1>1, <1>3, <1>6, <2>1 DEF EndIsNear
  <2>3. ASSUME IsTick(Sure(m)), Sure(m).sure
        PROVE  /\ ~unsure /\ announced # Unset /\ IsTick(todo[1])
               /\ Near(m.bpm, announced)
    BY <1>3, <1>6, <2>3 DEF m
  <2>4. QueueAlike'
    <3>. SUFFICES ASSUME NEW i \in 2..Len(queue'),
                         IsTick(queue'[i - 1]), IsTick(queue'[i]), queue'[i].sure
                  PROVE  Alike(queue'[i].bpm, queue'[i - 1].bpm)
      BY DEF QueueAlike
    <3>1. CASE i <= Len(queue)
      <4>1. i \in 2..Len(queue) /\ queue'[i] = queue[i] /\ queue'[i - 1] = queue[i - 1]
        BY <2>1, <3>1
      <4>. QED BY <4>1 DEF TempoInv, QueueAlike
    <3>2. CASE i > Len(queue)
      <4>1. /\ queue # <<>> /\ queue'[i] = Sure(m)
            /\ queue'[i - 1] = queue[Len(queue)] /\ queue[Len(queue)] \in Msg
        BY <1>2, <2>1, <3>2
      <4>2. IsTick(queue[Len(queue)]) /\ Near(queue[Len(queue)].bpm, announced)
        BY <2>3, <4>1 DEF TempoInv, EndIsNear
      <4>3. queue[Len(queue)].bpm \in Nat
        BY <4>1, TempoIsNat DEF Msg
      <4>. QED BY <1>3, <1>4, <2>3, <4>1, <4>2, <4>3, NearBoth
    <3>. QED BY <2>1, <3>1, <3>2
  <2>5. HeadAlike'
    <3>1. CASE queue = <<>>
      <4>1. queue'[1] = Sure(m)
        BY <2>1, <3>1
      <4>2. last.fate = "sent" /\ IsTick(Sure(m)) /\ Sure(m).sure => Near(last.bpm, announced)
        BY <2>3, <3>1 DEF TempoInv, EndIsNear
      <4>. QED BY <1>1, <1>3, <1>4, <2>3, <4>1, <4>2, NearBoth DEF HeadAlike
    <3>2. CASE queue # <<>>
      <4>1. queue'[1] = queue[1]
        BY <1>2, <2>1, <3>2
      <4>. QED BY <1>1, <3>2, <4>1 DEF TempoInv, HeadAlike
    <3>. QED BY <3>1, <3>2
  <2>. QED BY <1>7, <2>2, <2>4, <2>5 DEF TempoInv
<1>. QED BY <1>8, <1>9

\* What the worker remembers of a message it handled.
LEMMA Handled ==
  ASSUME TypeOK, Handle
  PROVE  /\ queue # <<>> /\ queue' = Tail(queue)
         /\ last'.fate = "sent" => IsTick(queue[1]) /\ last'.bpm = queue[1].bpm
         /\ UNCHANGED <<standalone, announced, todo, unsure>>
<1>. DEFINE m == Head(queue)
<1>1. queue # <<>> /\ m = queue[1] /\ queue' = Tail(queue) /\ UNCHANGED <<standalone, announced, todo, unsure>>
  BY DEF Handle, TypeOK, audio
<1>2. CASE HandleBpmChanged(m) \/ HandleStartOrStop(m)
  BY <1>1, <1>2 DEF HandleBpmChanged, HandleStartOrStop, Remember
<1>3. CASE HandleTick(m)
  BY <1>1, <1>3 DEF HandleTick, Remember, IsTick
<1>. QED BY <1>1, <1>2, <1>3 DEF Handle

LEMMA HandleTempo ==
  ASSUME TypeOK, TempoInv, Handle
  PROVE  TempoInv'
<1>1. /\ queue # <<>> /\ queue' = Tail(queue)
      /\ last'.fate = "sent" => IsTick(queue[1]) /\ last'.bpm = queue[1].bpm
      /\ UNCHANGED <<standalone, announced, todo, unsure>>
  BY Handled
<1>2. /\ Len(queue) \in Nat /\ Len(queue) >= 1 /\ Len(queue') = Len(queue) - 1
      /\ \A i \in 1..Len(queue') : queue'[i] = queue[i + 1] /\ i + 1 \in 2..Len(queue)
      /\ queue' = <<>> <=> Len(queue) = 1
  BY <1>1, HeadTail DEF TypeOK
<1>3. AnnouncedFirst'
  BY <1>1 DEF TempoInv, AnnouncedFirst
<1>4. QueueAlike'
  <2>. SUFFICES ASSUME NEW i \in 2..Len(queue'),
                       IsTick(queue'[i - 1]), IsTick(queue'[i]), queue'[i].sure
                PROVE  Alike(queue'[i].bpm, queue'[i - 1].bpm)
    BY DEF QueueAlike
  <2>1. i + 1 \in 2..Len(queue) /\ queue'[i] = queue[i + 1] /\ queue'[i - 1] = queue[(i + 1) - 1]
    BY <1>2
  <2>. QED BY <2>1 DEF TempoInv, QueueAlike
<1>5. HeadAlike'
  <2>. SUFFICES ASSUME queue' # <<>>, last'.fate = "sent", IsTick(queue'[1]), queue'[1].sure
                PROVE  Alike(queue'[1].bpm, last'.bpm)
    BY DEF HeadAlike
  <2>1. 2 \in 2..Len(queue) /\ queue'[1] = queue[2] /\ 2 - 1 = 1
    BY <1>2
  <2>. QED BY <1>1, <2>1 DEF TempoInv, QueueAlike
<1>6. EndIsNear'
  <2>1. CASE Len(queue) = 1
    BY <1>1, <1>2, <2>1 DEF TempoInv, EndIsNear
  <2>2. CASE Len(queue) # 1
    <3>1. queue' # <<>> /\ queue'[Len(queue')] = queue[Len(queue)]
      BY <1>2, <2>2
    <3>. QED BY <1>1, <3>1 DEF TempoInv, EndIsNear
  <2>. QED BY <2>1, <2>2
<1>. QED BY <1>3, <1>4, <1>5, <1>6 DEF TempoInv

LEMMA TempoInductive == TypeOK /\ TempoInv /\ [Next]_vars => TempoInv'
<1>. SUFFICES ASSUME TypeOK, TempoInv, [Next]_vars PROVE TempoInv'
  OBVIOUS
<1>1. CASE Buffer
  BY <1>1, HostTempo, StandaloneTempo DEF Buffer, TypeOK
<1>2. CASE Push
  BY <1>2, PushTempo
<1>3. CASE Handle
  BY <1>3, HandleTempo
<1>4. CASE Accumulate \/ Locate \/ Panel \/ UNCHANGED vars
  <2>1. UNCHANGED <<standalone, announced, todo, queue, last, unsure>>
    BY <1>4 DEF Accumulate, Locate, Panel, TogglePlay, PressStop, SetStandaloneBpm, TapTempo,
       vars, audio, worker
  <2>. QED BY <2>1 DEF TempoInv, AnnouncedFirst, QueueAlike, HeadAlike, EndIsNear
<1>. QED BY <1>1, <1>2, <1>3, <1>4 DEF Next

\* Only the worker takes a message from the channel.
LEMMA PulseHandles ==
  ASSUME TypeOK, [Next]_vars, Pulse PROVE Handle
<1>. SUFFICES ASSUME ~Handle PROVE FALSE
  OBVIOUS
<1>1. CASE Push
  BY <1>1 DEF Push, Pulse, TypeOK
<1>2. CASE ~Push
  BY <1>2 DEF Next, Buffer, HostBuffer, StandaloneBuffer, Process, Locate, Accumulate,
     Panel, TogglePlay, PressStop, SetStandaloneBpm, TapTempo, vars, TypeOK, Pulse
<1>. QED BY <1>1, <1>2

\* A receiver never hears two tempos back to back: between pulses that were counted further
\* apart than twice the threshold there is a start or a gap, unless the announcement was
\* lost in a full channel or there was nobody to make it.
THEOREM NewTempoIsAnnounced == Safety => NewTempoHasGap
<1>1. Init => TempoInv
  <2>. SUFFICES ASSUME Init PROVE TempoInv
    OBVIOUS
  <2>1. todo = <<>> /\ queue = <<>> /\ announced = Unset /\ last.fate = "none" /\ Len(<<>>) = 0
    BY DEF Init
  <2>. QED BY <2>1 DEF TempoInv, AnnouncedFirst, QueueAlike, HeadAlike, EndIsNear
<1>2. TypeOK /\ TempoInv /\ [Next]_vars =>
        [ Pulse /\ last.fate = "sent" /\ Diff(last'.bpm, last.bpm) > 2 * Threshold
          => ~Head(queue).sure ]_vars
  <2>. SUFFICES ASSUME TypeOK, TempoInv, [Next]_vars, Pulse, last.fate = "sent",
                       Head(queue).sure, Diff(last'.bpm, last.bpm) > 2 * Threshold
                PROVE  FALSE
    BY DEF TypeOK
  <2>1. queue # <<>> /\ IsTick(queue[1]) /\ last'.bpm = queue[1].bpm
    BY PulseHandles, Handled DEF Pulse
  <2>2. Head(queue) = queue[1] /\ queue[1] \in Msg
    BY <2>1, HeadTail DEF TypeOK
  <2>3. Alike(last'.bpm, last.bpm)
    BY <2>1, <2>2 DEF TempoInv, HeadAlike
  <2>4. last'.bpm \in Nat /\ last.bpm \in Nat
    BY <2>1, <2>2, TempoIsNat DEF TypeOK, Msg
  <2>. QED BY <2>3, <2>4, ClockAssumption DEF Alike, Diff
<1>. QED BY TypeCorrect, <1>1, <1>2, TempoInductive, PTL DEF Safety, NewTempoHasGap

=============================================================================
