--------------------------- MODULE SyncEngine_proofs ---------------------------
(***************************************************************************)
(* Theorems about SyncEngine, for every set of tempos, every tolerance and  *)
(* period, every loop and bar, and every capacity of the two channels.      *)
(*                                                                          *)
(* A buffer is the composition of the sections of process(), so each has a  *)
(* lemma: what it keeps of the fields (Buffered), of the commands it has    *)
(* added and of the tempo a retry would send.                               *)
(***************************************************************************)
EXTENDS SyncEngine, TLAPS

-----------------------------------------------------------------------------
(* Tempos that process() can not tell apart *)

LEMMA Numbers ==
  /\ Tempo \subseteq Nat /\ 0 \notin Tempo
  /\ SettleTime \in Nat /\ SettleTime > 0 /\ RetryTime \in Nat /\ RetryTime > 0
  /\ BarLen \in Nat /\ BarLen > 0
  /\ EditMax \in Nat /\ PosMax \in Nat /\ EditMax < PosMax /\ Jumps \subseteq 0..EditMax
  /\ CmdCap \in Nat /\ CmdCap > 0 /\ StatusCap \in Nat /\ StatusCap > 0
  /\ Tolerance \in Nat /\ Forces \subseteq {"rate", "phase", "audit"}
BY EngineAssumption

LEMMA DiffNat == ASSUME NEW s \in Nat, NEW t \in Nat PROVE Diff(s, t) \in Nat
BY DEF Diff

LEMMA SameItself == ASSUME NEW s PROVE SameTempo(s, s)
BY DEF SameTempo

LEMMA SameOnwards ==
  ASSUME NEW s, NEW t, NEW u, SameTempo(s, t), SameTempo(t, u)
  PROVE  SameTempo(s, u)
BY DEF SameTempo

\* A step within the threshold blurs two tempos.
LEMMA SmallStep ==
  ASSUME NEW s \in Tempo, NEW t \in Tempo, Diff(t, s) <= Tolerance
  PROVE  SameTempo(s, t)
<1>1. Diff(s, t) = Diff(t, s)
  BY Numbers DEF Diff
<1> QED
  BY <1>1 DEF SameTempo, Blurs

\* Where every two tempos are further apart than the threshold, they are one another's
\* only if they are equal.
LEMMA FarApart ==
  ASSUME \A s, t \in Tempo : Diff(s, t) <= Tolerance => s = t,
         NEW s \in Tempo, NEW t \in Tempo, SameTempo(s, t)
  PROVE  s = t
<1>1. {s} \in Blurs
  BY DEF Blurs
<1> QED
  BY <1>1 DEF SameTempo

-----------------------------------------------------------------------------
(* The fields *)

\* Bars and beats are counted in natural numbers.
LEMMA Quotient == ASSUME NEW n \in Nat, NEW d \in Nat, d > 0 PROVE n \div d \in Nat
OBVIOUS

LEMMA Bars ==
  ASSUME NEW p \in Nat
  PROVE  Bar(p) \in Nat /\ NextBar(p) \in Nat /\ BeatIdx(p) \in Nat /\ NextBeat(p) \in Nat
<1>1. Bar(p) \in Nat
  BY Quotient, Numbers DEF Bar
<1>2. NextBar(p) \in Nat
  BY <1>1, Numbers DEF NextBar
<1>3. BeatIdx(p) \in Nat
  BY Quotient DEF BeatIdx
<1>4. NextBeat(p) \in Nat
  <2>1. (p + 1) \div 2 \in Nat
    BY Quotient
  <2> QED
    BY <2>1 DEF NextBeat, BeatIdx
<1> QED
  BY <1>1, <1>2, <1>3, <1>4

\* A tempo that the host has in this buffer, or had in the one before, or crept away from.
Heeded(t, b) == SameTempo(t, host.bpm) \/ SameTempo(t, b.bpm)

\* The commands of this buffer so far.
OutTimely(e, b) == \A i \in DOMAIN e.out : e.out[i].op # "AuditSlots" => Heeded(e.out[i].bpm, b)

\* What a retry would send, if there is one, is the tempo t.
RetryOf(e, t) == e.retry # Off => SameTempo(e.retry.bpm, t) /\ e.settle = Off

\* The fields between two sections of a buffer with the transport b; t is the tempo that
\* the last section to look at it took note of.  Before the first buffer nothing is armed.
Buffered(e, b, t) ==
  /\ e \in Fields /\ OutTimely(e, b) /\ RetryOf(e, t)
  /\ e.lastBpm = eng.lastBpm
  /\ e.lastBpm = 0 => e.retry = Off /\ e.settle = Off

\* A command goes behind the others.
LEMMA SayFacts ==
  ASSUME NEW e \in Fields, NEW b \in Hosts, OutTimely(e, b),
         NEW cmd \in Commands, cmd.op = "AuditSlots" \/ Heeded(cmd.bpm, b)
  PROVE  LET s == Say(e, cmd) IN
           /\ s \in Fields /\ OutTimely(s, b)
           /\ s.retry = e.retry /\ s.lastBpm = e.lastBpm /\ s.settle = e.settle
<1> DEFINE s == Say(e, cmd)
<1>1. s = [e EXCEPT !.out = Append(e.out, cmd)]
  BY DEF Say
<1>2. e.out \in Seq(Commands)
  BY DEF Fields
<1>3. /\ Append(e.out, cmd) \in Seq(Commands)
      /\ DOMAIN Append(e.out, cmd) = 1..(Len(e.out) + 1)
      /\ \A i \in 1..(Len(e.out) + 1) :
           Append(e.out, cmd)[i] = IF i = Len(e.out) + 1 THEN cmd ELSE e.out[i]
      /\ DOMAIN e.out = 1..Len(e.out) /\ Len(e.out) \in Nat
  BY <1>2
<1>4. s \in Fields /\ s.out = Append(e.out, cmd) /\ s.retry = e.retry /\ s.lastBpm = e.lastBpm
      /\ s.settle = e.settle
  BY <1>1, <1>3 DEF Fields
<1>5. OutTimely(s, b)
  <2> SUFFICES ASSUME NEW i \in DOMAIN s.out, s.out[i].op # "AuditSlots"
               PROVE  Heeded(s.out[i].bpm, b)
    BY DEF OutTimely
  <2>1. i \in 1..(Len(e.out) + 1)
    BY <1>3, <1>4
  <2>2. CASE i = Len(e.out) + 1
    BY <1>3, <1>4, <2>1, <2>2
  <2>3. CASE i # Len(e.out) + 1
    <3>1. i \in DOMAIN e.out /\ s.out[i] = e.out[i]
      BY <1>3, <1>4, <2>1, <2>3
    <3> QED
      BY <3>1 DEF OutTimely
  <2> QED
    BY <2>2, <2>3
<1> QED
  BY <1>4, <1>5

LEMMA DispatchFacts ==
  ASSUME NEW e \in Fields, NEW b \in Hosts, OutTimely(e, b),
         NEW bpm \in Tempo, Heeded(bpm, b), NEW hard \in BOOLEAN
  PROVE  LET s == Dispatch(e, bpm, hard) IN
           /\ s \in Fields /\ OutTimely(s, b)
           /\ s.retry = e.retry /\ s.lastBpm = e.lastBpm /\ s.settle = e.settle
<1> DEFINE cmd == Sync(bpm, hard)
<1>1. cmd \in Commands /\ cmd.bpm = bpm
  BY DEF Sync, Commands
<1> HIDE DEF cmd
<1>2. LET s == Say(e, cmd) IN
        /\ s \in Fields /\ OutTimely(s, b)
        /\ s.retry = e.retry /\ s.lastBpm = e.lastBpm /\ s.settle = e.settle
  BY <1>1, SayFacts
<1> QED
  BY <1>2 DEF Dispatch, cmd

\* The same, for what a section does between the others.
LEMMA DispatchBuffered ==
  ASSUME NEW e, NEW b \in Hosts, NEW t, Buffered(e, b, t),
         NEW bpm \in Tempo, Heeded(bpm, b), NEW hard \in BOOLEAN
  PROVE  Buffered(Dispatch(e, bpm, hard), b, t)
<1> DEFINE s == Dispatch(e, bpm, hard)
<1>1. e \in Fields /\ OutTimely(e, b)
  BY DEF Buffered
<1>2. /\ s \in Fields /\ OutTimely(s, b)
      /\ s.retry = e.retry /\ s.lastBpm = e.lastBpm /\ s.settle = e.settle
  BY <1>1, DispatchFacts
<1> HIDE DEF s
<1>3. Buffered(s, b, t)
  BY <1>2 DEF Buffered, RetryOf
<1> QED
  BY <1>3 DEF s

\* Fields that a section changes without sending anything or arming a retry.
LEMMA Adjusted ==
  ASSUME NEW e, NEW b \in Hosts, NEW t, Buffered(e, b, t), NEW s \in Fields,
         s.out = e.out, s.lastBpm = e.lastBpm,
         s.retry # Off => e.retry # Off /\ s.retry.bpm = e.retry.bpm,
         s.settle # Off => e.settle # Off \/ (e.lastBpm # 0 /\ e.retry = Off)
  PROVE  Buffered(s, b, t)
BY DEF Buffered, OutTimely, RetryOf

-----------------------------------------------------------------------------
(* process(), section by section *)

\* The field that has the tempo of the last buffer, and what is armed before the first.
HostHeard == eng.lastBpm \in {0, host.bpm}
NothingArmed == eng.lastBpm = 0 => eng.retry = Off /\ eng.settle = Off

IInv == TypeOK /\ RetryIsCurrent /\ HostHeard /\ NothingArmed

LEMMA AtFirst ==
  ASSUME IInv, NEW b \in Hosts
  PROVE  Buffered(eng, b, eng.lastBpm)
BY DEF IInv, TypeOK, RetryIsCurrent, NothingArmed, Buffered, OutTimely, RetryOf

LEMMA OlderRange ==
  ASSUME NEW cap \in Nat, NEW age \in 0..cap, NEW dt \in {0, 1}
  PROVE  Older(age, dt, cap) \in 0..cap
BY DEF Older

LEMMA AgedFacts ==
  ASSUME NEW e, NEW b \in Hosts, NEW t, Buffered(e, b, t), NEW dt \in {0, 1}
  PROVE  Buffered(Aged(e, dt), b, t)
<1> DEFINE s == IF e.settle = Off THEN e
                ELSE [e EXCEPT !.settle.age = Older(@, dt, SettleTime)]
           r == IF s.retry = Off THEN s ELSE [s EXCEPT !.retry.age = Older(@, dt, RetryTime)]
<1>1. e \in Fields
  BY DEF Buffered
<1>2. s \in Fields /\ s.out = e.out /\ s.lastBpm = e.lastBpm /\ s.retry = e.retry
      /\ (s.settle # Off => e.settle # Off)
  <2>1. CASE e.settle = Off
    BY <1>1, <2>1
  <2>2. CASE e.settle # Off
    <3>1. e.settle \in [from : Tempo, age : 0..SettleTime]
      BY <1>1, <2>2 DEF Fields
    <3>2. Older(e.settle.age, dt, SettleTime) \in 0..SettleTime
      BY <3>1, OlderRange, Numbers
    <3>3. [e.settle EXCEPT !.age = Older(@, dt, SettleTime)]
            \in [from : Tempo, age : 0..SettleTime]
      BY <3>1, <3>2
    <3>4. s = [e EXCEPT !.settle = [e.settle EXCEPT !.age = Older(@, dt, SettleTime)]]
      BY <2>2
    <3>5. [e.settle EXCEPT !.age = Older(@, dt, SettleTime)] # Off
      BY <3>3, Numbers DEF Off
    <3> QED
      BY <1>1, <2>2, <3>3, <3>4, <3>5 DEF Fields
  <2> QED
    BY <2>1, <2>2
<1> HIDE DEF s, r
<1>3. Buffered(s, b, t)
  BY <1>2, Adjusted
<1>4. CASE s.retry = Off
  BY <1>3, <1>4 DEF Aged, s
<1>5. CASE s.retry # Off
  <2>1. s.retry \in [bpm : Tempo, hard : BOOLEAN, age : 0..RetryTime]
    BY <1>2, <1>5 DEF Fields
  <2>2. Older(s.retry.age, dt, RetryTime) \in 0..RetryTime
    BY <2>1, OlderRange, Numbers
  <2> DEFINE again == [s.retry EXCEPT !.age = Older(@, dt, RetryTime)]
  <2>3. again \in [bpm : Tempo, hard : BOOLEAN, age : 0..RetryTime] /\ again.bpm = s.retry.bpm
    BY <2>1, <2>2
  <2>4. r = [s EXCEPT !.retry = again]
    BY <1>5 DEF r
  <2> HIDE DEF again
  <2>5. r \in Fields /\ r.out = s.out /\ r.lastBpm = s.lastBpm /\ r.settle = s.settle
        /\ r.retry = again
    BY <1>2, <2>3, <2>4 DEF Fields
  <2>6. Buffered(r, b, t)
    BY <1>3, <1>5, <2>3, <2>5, Adjusted DEF Buffered
  <2> QED
    BY <2>6 DEF Aged, r, s
<1> QED
  BY <1>4, <1>5
LEMMA DrainFacts ==
  ASSUME IInv, NEW e, NEW b \in Hosts, NEW t, Buffered(e, b, t)
  PROVE  Buffered(Drain(e), b, t)
<1> DEFINE d == [e EXCEPT !.conn = CameUp \/ (@ /\ ~Heard("Disconnected"))]
           r == [d EXCEPT !.reconnect = FALSE]
<1>1. e \in Fields
  BY DEF Buffered
<1>2. CameUp \/ (e.conn /\ ~Heard("Disconnected")) \in BOOLEAN
  BY DEF CameUp, Heard
<1>3. d \in Fields /\ d.out = e.out /\ d.lastBpm = e.lastBpm /\ d.retry = e.retry
      /\ d.settle = e.settle
  BY <1>1, <1>2 DEF Fields
<1>4. Buffered(d, b, t)
  <2> HIDE DEF d
  <2> QED
    BY <1>3, Adjusted DEF Buffered
<1> HIDE DEF d
<1>5. r \in Fields /\ Buffered(r, b, t)
  <2>1. r \in Fields /\ r.out = d.out /\ r.lastBpm = d.lastBpm /\ r.retry = d.retry
        /\ r.settle = d.settle
    BY <1>3 DEF Fields
  <2> HIDE DEF r
  <2> QED
    BY <1>4, <2>1, Adjusted DEF Buffered
<1> HIDE DEF r
<1>6. ASSUME e.lastBpm > 0 PROVE Buffered(Dispatch(r, e.lastBpm, FALSE), b, t)
  <2>1. e.lastBpm = eng.lastBpm /\ eng.lastBpm \in Tempo \cup {0}
    BY <1>1 DEF Buffered, Fields
  <2>2. e.lastBpm = host.bpm /\ e.lastBpm \in Tempo
    BY <1>6, <2>1 DEF IInv, HostHeard
  <2>3. Heeded(e.lastBpm, b)
    BY <2>2, SameItself DEF Heeded
  <2> QED
    BY <1>5, <2>2, <2>3, DispatchBuffered
<1> QED
  BY <1>4, <1>6 DEF Drain, d, r

LEMMA EdgeFacts ==
  ASSUME NEW e, NEW b \in Hosts, NEW t, Buffered(e, b, t)
  PROVE  Buffered(Edge(e), b, t)
<1> DEFINE up   == [e EXCEPT !.reconnect = TRUE]
           down == [e EXCEPT !.retry = Off, !.hr = NoBeat, !.settle = Off]
<1>1. e \in Fields
  BY DEF Buffered
<1>2. up \in Fields /\ up.out = e.out /\ up.lastBpm = e.lastBpm /\ up.retry = e.retry
      /\ up.settle = e.settle
  BY <1>1 DEF Fields
<1>3. down \in Fields /\ down.out = e.out /\ down.lastBpm = e.lastBpm /\ down.retry = Off
      /\ down.settle = Off
  BY <1>1 DEF Fields
<1> HIDE DEF up, down
<1>4. Buffered(up, b, t)
  BY <1>2, Adjusted DEF Buffered
<1>5. Buffered(down, b, t)
  BY <1>3, Adjusted DEF Buffered
<1>6. Audit \in Commands /\ Audit.op = "AuditSlots"
  BY DEF Audit, Commands
<1>7. Buffered(Say(up, Audit), b, t)
  <2>1. OutTimely(up, b)
    BY <1>4 DEF Buffered
  <2> DEFINE s == Say(up, Audit)
  <2>2. /\ s \in Fields /\ OutTimely(s, b)
        /\ s.retry = up.retry /\ s.lastBpm = up.lastBpm /\ s.settle = up.settle
    BY <1>2, <1>6, <2>1, SayFacts
  <2> HIDE DEF s
  <2>3. Buffered(s, b, t)
    BY <1>4, <2>2 DEF Buffered, RetryOf
  <2> QED
    BY <2>3 DEF s
<1> QED
  BY <1>5, <1>7 DEF Edge, up, down

\* Where a Hard Reset may be due, and the position before the one the host has gone to.
LEMMA Targets ==
  ASSUME NEW b \in Hosts
  PROVE  /\ b.pos \in Nat /\ b.pos \in -2..PosMax /\ b.pos - 2 \in -2..PosMax
         /\ Bar(b.pos) \in Nat /\ Bar(b.pos) - 1 \in Nat \cup {-1}
         /\ NextBar(b.pos) \in Nat /\ NextBeat(b.pos) \in Nat
<1>1. b.pos \in 0..PosMax
  BY DEF Hosts
<1>2. Bar(b.pos) \in Nat /\ NextBar(b.pos) \in Nat /\ NextBeat(b.pos) \in Nat
  BY <1>1, Bars, Numbers
<1>3. Bar(b.pos) - 1 \in Nat \cup {-1}
  BY <1>2
<1> QED
  BY <1>1, <1>2, <1>3, Numbers

LEMMA SeekFacts ==
  ASSUME NEW e, NEW b \in Hosts, NEW t, Buffered(e, b, t)
  PROVE  Buffered(Seek(e, b), b, t)
<1> DEFINE target == IF LoopRepeat(e, b) THEN NextBar(b.pos) ELSE NextBeat(b.pos)
           s == [e EXCEPT !.lastPos = b.pos - 2, !.lastBar = Bar(b.pos) - 1,
                          !.settle = Off, !.retry = Off, !.hr = target]
<1>1. e \in Fields
  BY DEF Buffered
<1>2. target \in Nat
  BY Targets
<1> HIDE DEF target
<1>3. s \in Fields /\ s.out = e.out /\ s.lastBpm = e.lastBpm /\ s.retry = Off /\ s.settle = Off
  BY <1>1, <1>2, Targets DEF Fields
<1>4. Seek(e, b) = IF ~(b.playing /\ b.pos < e.lastPos - 1) THEN e ELSE s
  BY DEF Seek, target
<1> HIDE DEF s
<1>5. Buffered(s, b, t)
  BY <1>3, Adjusted DEF Buffered
<1> QED
  BY <1>4, <1>5
\* The transport as this buffer finds it.
LEMMA Hosted == ASSUME NEW b \in Hosts PROVE b.bpm \in Tempo /\ b.playing \in BOOLEAN /\ Heeded(b.bpm, b)
BY SameItself DEF Hosts, Heeded

\* A tempo that has settled: the retry, if one is armed, is for the tempo of this buffer.
LEMMA SettledFacts ==
  ASSUME NEW e, NEW b \in Hosts, NEW t, Buffered(e, b, t), RetryOf(e, b.bpm), e.settle # Off
  PROVE  Buffered(Settled(e, b), b, b.bpm)
<1> DEFINE s == [e EXCEPT !.settle = Off, !.reconnect = FALSE]
           hard == [bpm |-> b.bpm, hard |-> TRUE, age |-> 0]
           rated == [bpm |-> b.bpm, hard |-> FALSE, age |-> 0]
           followed == [s EXCEPT !.hr = NextBar(b.pos), !.retry = hard]
           d == Dispatch(s, b.bpm, FALSE)
           sent == [d EXCEPT !.retry = rated]
<1>1. e \in Fields /\ e.lastBpm # 0
  BY DEF Buffered
<1>2. s \in Fields /\ s.out = e.out /\ s.lastBpm = e.lastBpm /\ s.retry = e.retry /\ s.settle = Off
  BY <1>1 DEF Fields
<1> HIDE DEF s
<1>3. Buffered(s, b, b.bpm)
  <2>1. Buffered(e, b, b.bpm)
    BY DEF Buffered
  <2> QED
    BY <1>2, <2>1, Adjusted DEF Buffered
<1>4. /\ hard \in [bpm : Tempo, hard : BOOLEAN, age : 0..RetryTime] /\ hard.bpm = b.bpm
      /\ rated \in [bpm : Tempo, hard : BOOLEAN, age : 0..RetryTime] /\ rated.bpm = b.bpm
  BY Hosted, Numbers
<1> HIDE DEF hard, rated
<1>5. Buffered(followed, b, b.bpm)
  <2>1. followed \in Fields /\ followed.out = s.out /\ followed.lastBpm = s.lastBpm
        /\ followed.retry = hard /\ followed.settle = Off
    BY <1>2, <1>4, Targets DEF Fields
  <2> HIDE DEF followed
  <2>2. OutTimely(followed, b) /\ RetryOf(followed, b.bpm)
    BY <1>3, <1>4, <2>1, SameItself DEF Buffered, OutTimely, RetryOf
  <2> QED
    BY <1>1, <1>2, <1>3, <2>1, <2>2 DEF Buffered
<1>6. Buffered(sent, b, b.bpm)
  <2>1. Buffered(d, b, b.bpm) /\ d.settle = Off
    <3>1. s \in Fields /\ OutTimely(s, b)
      BY <1>2, <1>3 DEF Buffered
    <3> QED
      BY <1>2, <1>3, <3>1, Hosted, DispatchBuffered, DispatchFacts
  <2> HIDE DEF d
  <2>2. sent \in Fields /\ sent.out = d.out /\ sent.lastBpm = d.lastBpm /\ sent.retry = rated
        /\ sent.settle = Off /\ d.lastBpm = eng.lastBpm
    BY <1>4, <2>1 DEF Fields, Buffered
  <2> HIDE DEF sent
  <2>3. OutTimely(sent, b) /\ RetryOf(sent, b.bpm)
    BY <1>4, <2>1, <2>2, SameItself DEF Buffered, OutTimely, RetryOf
  <2> QED
    BY <1>1, <1>2, <1>3, <2>1, <2>2, <2>3 DEF Buffered
<1> QED
  BY <1>3, <1>5, <1>6 DEF Settled, s, hard, rated

\* A change that counts disarms the retry; one that does not keeps the tempos blurred.
LEMMA SettleFacts ==
  ASSUME IInv, NEW e, NEW b \in Hosts, Buffered(e, b, eng.lastBpm)
  PROVE  Buffered(Settle(e, b), b, b.bpm)
<1> DEFINE moved == [from |-> b.bpm, age |-> 0]
           jumped == [e EXCEPT !.settle = moved, !.retry = Off, !.hr = NoBeat]
           rearmed == [e EXCEPT !.settle = moved]
<1>1. e \in Fields /\ e.lastBpm = eng.lastBpm
  BY DEF Buffered
<1>2. moved \in [from : Tempo, age : 0..SettleTime] /\ moved # Off
  BY Hosted, Numbers DEF Off
<1> HIDE DEF moved
<1>3. CASE e.lastBpm > 0 /\ Diff(b.bpm, e.lastBpm) > Tolerance
  <2>1. jumped \in Fields /\ jumped.out = e.out /\ jumped.lastBpm = e.lastBpm /\ jumped.retry = Off
    BY <1>1, <1>2 DEF Fields
  <2>2. e.lastBpm # 0
    BY <1>3
  <2> HIDE DEF jumped
  <2>3. OutTimely(jumped, b) /\ RetryOf(jumped, b.bpm)
    BY <2>1 DEF Buffered, OutTimely, RetryOf
  <2>4. Buffered(jumped, b, b.bpm)
    BY <1>1, <2>1, <2>2, <2>3 DEF Buffered
  <2> QED
    BY <1>3, <2>4 DEF Settle, Jumped, jumped, moved
<1>4. CASE ~(e.lastBpm > 0 /\ Diff(b.bpm, e.lastBpm) > Tolerance)
  <2>1. RetryOf(e, b.bpm)
    <3>1. CASE e.lastBpm = 0
      BY <3>1 DEF Buffered, RetryOf
    <3>2. CASE e.lastBpm # 0
      <4> DEFINE last == e.lastBpm
      <4>0. last \in Tempo \cup {0} /\ last # 0
        BY <1>1, <3>2 DEF Fields
      <4>1. last \in Tempo /\ last > 0
        <5> HIDE DEF last
        <5> QED
          BY <4>0, Numbers
      <4>2. b.bpm \in Tempo /\ Diff(b.bpm, last) \in Nat
        <5> HIDE DEF last
        <5> QED
          BY <4>1, Hosted, DiffNat, Numbers
      <4>3. Diff(b.bpm, e.lastBpm) <= Tolerance
        BY <1>4, <4>1, <4>2, Numbers
      <4>4. SameTempo(e.lastBpm, b.bpm)
        BY <4>1, <4>2, <4>3, SmallStep
      <4>5. ASSUME e.retry # Off PROVE SameTempo(e.retry.bpm, e.lastBpm) /\ e.settle = Off
        BY <1>1, <4>5 DEF Buffered, RetryOf
      <4> QED
        BY <4>4, <4>5, SameOnwards DEF RetryOf
    <3> QED
      BY <3>1, <3>2
  <2>2. Buffered(e, b, b.bpm)
    BY <2>1 DEF Buffered
  <2>3. ASSUME e.settle # Off PROVE Buffered(rearmed, b, b.bpm)
    <3>1. rearmed \in Fields /\ rearmed.out = e.out /\ rearmed.lastBpm = e.lastBpm
          /\ rearmed.retry = e.retry
      BY <1>1, <1>2 DEF Fields
    <3> HIDE DEF rearmed
    <3> QED
      BY <2>2, <2>3, <3>1, Adjusted DEF Buffered
  <2>4. ASSUME e.settle # Off PROVE Buffered(Settled(e, b), b, b.bpm)
    BY <2>1, <2>4, SettledFacts
  <2> QED
    BY <1>4, <2>2, <2>3, <2>4 DEF Settle, rearmed, moved
<1> QED
  BY <1>3, <1>4
\* A Hard Reset or a retry that is sent starts the retry's period again.
LEMMA PeriodRestarts ==
  ASSUME NEW e, NEW b \in Hosts, NEW t, Buffered(e, b, t), e.retry # Off
  PROVE  Buffered([e EXCEPT !.retry.age = 0], b, t)
<1> DEFINE again == [e.retry EXCEPT !.age = 0]
           s == [e EXCEPT !.retry = again]
<1>1. e \in Fields
  BY DEF Buffered
<1>2. e.retry \in [bpm : Tempo, hard : BOOLEAN, age : 0..RetryTime]
  BY <1>1 DEF Fields
<1>3. again \in [bpm : Tempo, hard : BOOLEAN, age : 0..RetryTime] /\ again.bpm = e.retry.bpm
  BY <1>2, Numbers
<1>4. [e EXCEPT !.retry.age = 0] = s
  OBVIOUS
<1> HIDE DEF again
<1>5. s \in Fields /\ s.out = e.out /\ s.lastBpm = e.lastBpm /\ s.settle = e.settle /\ s.retry = again
  BY <1>1, <1>3 DEF Fields
<1> HIDE DEF s
<1>6. Buffered(s, b, t)
  BY <1>3, <1>5, Adjusted DEF Buffered
<1> QED
  BY <1>4, <1>6

LEMMA GateFacts ==
  ASSUME NEW e, NEW b \in Hosts, NEW t, Buffered(e, b, t)
  PROVE  Buffered(Gate(e, b), b, t)
<1> DEFINE d == Dispatch(e, b.bpm, TRUE)
           s == [d EXCEPT !.hr = NoBeat]
<1>2. Buffered(d, b, t)
  BY Hosted, DispatchBuffered
<1> HIDE DEF d
<1>3. d \in Fields /\ NoBeat \in Nat \cup {NoBeat}
  BY <1>2 DEF Buffered
<1>4. s \in Fields /\ s.out = d.out /\ s.lastBpm = d.lastBpm /\ s.settle = d.settle
      /\ s.retry = d.retry
  BY <1>3, SMTT(30) DEF Fields
<1> HIDE DEF s
<1>5. Buffered(s, b, t)
  BY <1>2, <1>4, Adjusted DEF Buffered
<1>6. s.retry # Off => Buffered([s EXCEPT !.retry.age = 0], b, t)
  BY <1>5, PeriodRestarts
<1> QED
  BY <1>5, <1>6 DEF Gate, s, d

LEMMA RetryFacts ==
  ASSUME NEW e, NEW b \in Hosts, Buffered(e, b, b.bpm)
  PROVE  Buffered(Retry(e), b, b.bpm)
<1> DEFINE over == [e EXCEPT !.retry = Off]
           d == Dispatch(e, e.retry.bpm, e.retry.hard)
<1>1. e \in Fields
  BY DEF Buffered
<1>2. Buffered(over, b, b.bpm)
  <2>1. over \in Fields /\ over.out = e.out /\ over.lastBpm = e.lastBpm
        /\ over.settle = e.settle /\ over.retry = Off
    BY <1>1 DEF Fields
  <2> HIDE DEF over
  <2> QED
    BY <2>1, Adjusted DEF Buffered
<1>3. ASSUME e.retry # Off PROVE Buffered([d EXCEPT !.retry.age = 0], b, b.bpm)
  <2>1. e.retry \in [bpm : Tempo, hard : BOOLEAN, age : 0..RetryTime]
    BY <1>1, <1>3 DEF Fields
  <2>2. e.retry.bpm \in Tempo /\ e.retry.hard \in BOOLEAN
    BY <2>1
  <2>3. Heeded(e.retry.bpm, b)
    BY <1>3 DEF Buffered, RetryOf, Heeded
  <2>4. d.retry = e.retry
    BY <1>1, <2>2, <2>3, DispatchFacts DEF Buffered
  <2>5. Buffered(d, b, b.bpm)
    BY <2>2, <2>3, DispatchBuffered
  <2> HIDE DEF d
  <2> QED
    BY <1>3, <2>4, <2>5, PeriodRestarts
<1>4. ASSUME e.retry # Off PROVE Buffered([e EXCEPT !.retry.age = 0], b, b.bpm)
  BY <1>4, PeriodRestarts
<1> HIDE DEF over, d
<1>5. Retry(e) \in {e, over, [d EXCEPT !.retry.age = 0], [e EXCEPT !.retry.age = 0]}
      /\ (e.retry = Off => Retry(e) = e)
  BY DEF Retry, over, d
<1> QED
  BY <1>2, <1>3, <1>4, <1>5

LEMMA BeatFacts ==
  ASSUME NEW e, NEW b \in Hosts, NEW t, Buffered(e, b, t)
  PROVE  Buffered(Beat(e, b), b, t)
<1>1. e \in Fields
  BY DEF Buffered
<1>2. Buffered(Dispatch(e, b.bpm, TRUE), b, t) /\ Buffered(Dispatch(e, b.bpm, FALSE), b, t)
  BY Hosted, DispatchBuffered
<1> QED
  BY <1>2 DEF Beat

LEMMA BarJumpFacts ==
  ASSUME NEW e, NEW b \in Hosts, NEW t, Buffered(e, b, t)
  PROVE  Buffered(BarJump(e, b), b, t)
<1> DEFINE s == [e EXCEPT !.hr = NextBar(b.pos)]
<1>1. e \in Fields
  BY DEF Buffered
<1>2. s \in Fields /\ s.out = e.out /\ s.lastBpm = e.lastBpm /\ s.settle = e.settle /\ s.retry = e.retry
  BY <1>1, Targets DEF Fields
<1> HIDE DEF s
<1>3. Buffered(s, b, t)
  BY <1>2, Adjusted DEF Buffered
<1> QED
  BY <1>3 DEF BarJump, s

LEMMA RememberFacts ==
  ASSUME NEW e, NEW b \in Hosts, NEW t, Buffered(e, b, t)
  PROVE  Buffered(Remember(e, b), b, t)
<1> DEFINE pos == IF b.playing THEN b.pos ELSE -2
           bar == IF b.playing THEN Bar(b.pos) ELSE -1
           s == [e EXCEPT !.lastPos = pos, !.lastBar = bar]
<1>1. e \in Fields
  BY DEF Buffered
<1>2. pos \in -2..PosMax /\ bar \in Nat \cup {-1}
  BY Targets, Numbers
<1> HIDE DEF pos, bar
<1>3. s \in Fields /\ s.out = e.out /\ s.lastBpm = e.lastBpm /\ s.settle = e.settle /\ s.retry = e.retry
  BY <1>1, <1>2 DEF Fields
<1> HIDE DEF s
<1>4. Buffered(s, b, t)
  BY <1>3, Adjusted DEF Buffered
<1> QED
  BY <1>4 DEF Remember, s, pos, bar

\* What a buffer leaves behind: the fields, and the commands it sends.
Left(e, b) ==
  /\ e \in Fields /\ OutTimely(e, b) /\ RetryOf(e, b.bpm) /\ e.lastBpm = b.bpm

LEMMA PressedFacts ==
  ASSUME NEW e, NEW b \in Hosts, Buffered(e, b, b.bpm), NEW force \in Forces \cup {NoButton}
  PROVE  Left(Pressed(e, b, force), b)
<1> DEFINE s == [e EXCEPT !.lastBpm = b.bpm]
<1>1. e \in Fields
  BY DEF Buffered
<1>2. s \in Fields /\ s.out = e.out /\ s.lastBpm = b.bpm /\ s.retry = e.retry
      /\ s.settle = e.settle
  BY <1>1, Hosted DEF Fields
<1>3. Pressed(e, b, force) \in {s, Dispatch(s, b.bpm, FALSE), Dispatch(s, b.bpm, TRUE), Say(s, Audit)}
  BY Numbers DEF Pressed, NoButton
<1> HIDE DEF s
<1>4. OutTimely(s, b) /\ RetryOf(s, b.bpm)
  BY <1>2 DEF Buffered, OutTimely, RetryOf
<1>5. Audit \in Commands /\ Audit.op = "AuditSlots"
  BY DEF Audit, Commands
<1>6. Left(Say(s, Audit), b)
  <2> HIDE DEF Left
  <2>1. LET a == Say(s, Audit) IN
          a \in Fields /\ OutTimely(a, b) /\ a.retry = s.retry /\ a.lastBpm = s.lastBpm
          /\ a.settle = s.settle
    BY <1>2, <1>4, <1>5, SayFacts
  <2> QED
    BY <1>2, <1>4, <2>1 DEF Left, RetryOf
<1>7. ASSUME NEW hard \in BOOLEAN PROVE Left(Dispatch(s, b.bpm, hard), b)
  <2>1. LET a == Dispatch(s, b.bpm, hard) IN
          a \in Fields /\ OutTimely(a, b) /\ a.retry = s.retry /\ a.lastBpm = s.lastBpm
          /\ a.settle = s.settle
    BY <1>2, <1>4, Hosted, DispatchFacts
  <2> QED
    BY <1>2, <1>4, <2>1 DEF Left, RetryOf
<1>8. Left(s, b)
  BY <1>2, <1>4 DEF Left
<1> QED
  BY <1>3, <1>6, <1>7, <1>8
\* try_send(): what is new in the channel is one of the commands, in the room there is.
LEMMA SentFacts ==
  ASSUME TypeOK, NEW cmds \in Seq(Commands)
  PROVE  /\ Sent(cmds) \in Seq(Commands) /\ Len(Sent(cmds)) <= CmdCap
         /\ \A i \in DOMAIN Sent(cmds) \ DOMAIN cmdq : \E j \in DOMAIN cmds : Sent(cmds)[i] = cmds[j]
<1> DEFINE all == cmdq \o cmds
           size == IF Len(all) < CmdCap THEN Len(all) ELSE CmdCap
<1>1. cmdq \in Seq(Commands) /\ Len(cmdq) \in Nat /\ Len(cmds) \in Nat
      /\ DOMAIN cmdq = 1..Len(cmdq) /\ DOMAIN cmds = 1..Len(cmds)
  BY DEF TypeOK
<1>2. /\ all \in Seq(Commands) /\ Len(all) = Len(cmdq) + Len(cmds)
      /\ \A i \in 1..Len(all) : all[i] = IF i <= Len(cmdq) THEN cmdq[i] ELSE cmds[i - Len(cmdq)]
  BY <1>1
<1>3. size \in Nat /\ size <= Len(all) /\ size <= CmdCap
  BY <1>1, <1>2, Numbers
<1>4. Sent(cmds) = SubSeq(all, 1, size)
  BY DEF Sent
<1> HIDE DEF all, size
<1>5. /\ SubSeq(all, 1, size) \in Seq(Commands) /\ Len(SubSeq(all, 1, size)) = size
      /\ DOMAIN SubSeq(all, 1, size) = 1..size
      /\ \A i \in 1..size : SubSeq(all, 1, size)[i] = all[i]
  BY <1>2, <1>3
<1>6. ASSUME NEW i \in DOMAIN Sent(cmds) \ DOMAIN cmdq
      PROVE  \E j \in DOMAIN cmds : Sent(cmds)[i] = cmds[j]
  <2>1. i \in 1..size /\ i \notin 1..Len(cmdq) /\ i \in 1..Len(all)
    BY <1>1, <1>2, <1>3, <1>4, <1>5
  <2>2. i - Len(cmdq) \in DOMAIN cmds /\ all[i] = cmds[i - Len(cmdq)]
    BY <1>1, <1>2, <2>1
  <2> QED
    BY <1>4, <1>5, <2>1, <2>2
<1> QED
  BY <1>3, <1>4, <1>5, <1>6

\* One buffer, whatever the transport and the buttons: what it promises of the commands
\* that are new in the channel, and the inductive invariant.
Timely ==
  \A i \in DOMAIN cmdq' \ DOMAIN cmdq :
    cmdq'[i].op # "AuditSlots" => \E t \in {host.bpm, host'.bpm} : SameTempo(cmdq'[i].bpm, t)

LEMMA ProcessFacts ==
  ASSUME IInv, NEW times \in SUBSET {0, 1}, NEW transports \in SUBSET Hosts,
         NEW forces \in SUBSET (Forces \cup {NoButton}), Process(times, transports, forces)
  PROVE  IInv' /\ Timely
<1>0. PICK dt \in times, b \in transports, force \in forces :
        \E after \in {Pressed(Remember(BarJump(Beat(Retry(Gate(
                        Settle(Seek(Edge(Drain(Aged(eng, dt))), b), b), b)), b), b), b), b, force)} :
          eng' = [after EXCEPT !.out = <<>>] /\ cmdq' = Sent(after.out) /\ host' = b
  BY DEF Process
<1> DEFINE after == Pressed(Remember(BarJump(Beat(Retry(Gate(
                      Settle(Seek(Edge(Drain(Aged(eng, dt))), b), b), b)), b), b), b), b, force)
<1>1. /\ after = Pressed(Remember(BarJump(Beat(Retry(Gate(
                      Settle(Seek(Edge(Drain(Aged(eng, dt))), b), b), b)), b), b), b), b, force)
      /\ eng' = [after EXCEPT !.out = <<>>] /\ cmdq' = Sent(after.out) /\ host' = b
  BY <1>0
<1> HIDE DEF after
<1>2. dt \in {0, 1} /\ b \in Hosts /\ force \in Forces \cup {NoButton}
  OBVIOUS
<1>3. Left(after, b)
  <2> DEFINE t == eng.lastBpm
             e1 == Aged(eng, dt)
             e2 == Drain(e1)
             e3 == Edge(e2)
             e4 == Seek(e3, b)
             e5 == Settle(e4, b)
             e6 == Gate(e5, b)
             e7 == Retry(e6)
             e8 == Beat(e7, b)
             e9 == BarJump(e8, b)
             e10 == Remember(e9, b)
  <2>0. after = Pressed(e10, b, force)
    BY <1>1
  <2>1. Buffered(e1, b, t)
    BY <1>2, AtFirst, AgedFacts
  <2> HIDE DEF e1
  <2>2. Buffered(e2, b, t)
    BY <1>2, <2>1, DrainFacts
  <2> HIDE DEF e2
  <2>3. Buffered(e3, b, t)
    BY <1>2, <2>2, EdgeFacts
  <2> HIDE DEF e3
  <2>4. Buffered(e4, b, t)
    BY <1>2, <2>3, SeekFacts
  <2> HIDE DEF e4
  <2>5. Buffered(e5, b, b.bpm)
    BY <1>2, <2>4, SettleFacts
  <2> HIDE DEF e5
  <2>6. Buffered(e6, b, b.bpm)
    BY <1>2, <2>5, GateFacts
  <2> HIDE DEF e6
  <2>7. Buffered(e7, b, b.bpm)
    BY <1>2, <2>6, RetryFacts
  <2> HIDE DEF e7
  <2>8. Buffered(e8, b, b.bpm)
    BY <1>2, <2>7, BeatFacts
  <2> HIDE DEF e8
  <2>9. Buffered(e9, b, b.bpm)
    BY <1>2, <2>8, BarJumpFacts
  <2> HIDE DEF e9
  <2>10. Buffered(e10, b, b.bpm)
    BY <1>2, <2>9, RememberFacts
  <2> HIDE DEF e10
  <2> QED
    BY <1>2, <2>0, <2>10, PressedFacts
<1> HIDE <1>1
<1>4. after \in Fields /\ after.lastBpm = b.bpm /\ b.bpm \in Tempo
  BY <1>2, <1>3, Hosted DEF Left
<1>5. eng' = [after EXCEPT !.out = <<>>] /\ cmdq' = Sent(after.out) /\ host' = b
  BY <1>1
<1>6. eng' \in Fields /\ eng'.out = <<>> /\ eng'.lastBpm = b.bpm /\ eng'.retry = after.retry
  <2>1. <<>> \in Seq(Commands)
    OBVIOUS
  <2> QED
    BY <1>4, <1>5, <2>1 DEF Fields
<1>7. after.out \in Seq(Commands)
  BY <1>4 DEF Fields
<1>8. cmdq' \in Seq(Commands) /\ Len(cmdq') <= CmdCap
      /\ \A i \in DOMAIN cmdq' \ DOMAIN cmdq : \E j \in DOMAIN after.out : cmdq'[i] = after.out[j]
  BY <1>5, <1>7, SentFacts DEF IInv
<1>9. statusq' \in Seq(Statuses) /\ Len(statusq') <= StatusCap
  BY Numbers DEF Process
<1>10. TypeOK'
  BY <1>2, <1>5, <1>6, <1>8, <1>9 DEF Process, IInv, TypeOK
<1>11. RetryIsCurrent' /\ HostHeard' /\ NothingArmed'
  BY <1>3, <1>4, <1>5, <1>6, Numbers DEF Left, RetryOf, RetryIsCurrent, HostHeard, NothingArmed
<1>12. Timely
  BY <1>3, <1>5, <1>8 DEF Left, OutTimely, Heeded, Timely
<1> QED
  BY <1>10, <1>11, <1>12 DEF IInv

-----------------------------------------------------------------------------
(* Every step *)

LEMMA BufferFacts == ASSUME IInv, Buffer \/ Advance PROVE IInv' /\ Timely
<1>1. host \in Hosts
  BY DEF IInv, TypeOK
<1>2. [bpm : Tempo, playing : BOOLEAN, pos : Moves] \subseteq Hosts
  <2>1. Moves \subseteq 0..PosMax
    <3>1. host.pos \in Nat /\ host.pos + 1 \in Nat /\ Jumps \subseteq Nat
      BY <1>1, Numbers DEF Hosts
    <3>2. ASSUME NEW p \in Moves PROVE p \in Nat /\ p <= EditMax
      BY <3>1 DEF Moves
    <3> QED
      BY <3>2, Numbers
  <2> QED
    BY <2>1 DEF Hosts
<1>3. [host EXCEPT !.pos = IF @ < PosMax THEN @ + 1 ELSE @] \in Hosts
  BY <1>1, Numbers DEF Hosts
<1>4. CASE Buffer
  BY <1>2, <1>4, ProcessFacts DEF Buffer
<1>5. CASE Advance
  BY <1>3, <1>5, ProcessFacts DEF Advance
<1> QED
  BY <1>4, <1>5

LEMMA TellType ==
  ASSUME TypeOK, NEW status \in Statuses, Tell(status)
  PROVE  statusq' \in Seq(Statuses) /\ Len(statusq') <= StatusCap
<1>1. statusq \in Seq(Statuses) /\ Len(statusq) <= StatusCap
  BY DEF TypeOK
<1>2. Append(statusq, status) \in Seq(Statuses) /\ Len(Append(statusq, status)) = Len(statusq) + 1
      /\ Len(statusq) \in Nat
  BY <1>1
<1> QED
  BY <1>1, <1>2, Numbers DEF Tell

\* The worker takes a command; the thread's fields stay.
LEMMA TakeFacts ==
  ASSUME IInv, NEW op, Take(op)
  PROVE  /\ cmdq' \in Seq(Commands) /\ Len(cmdq') <= CmdCap /\ Head(cmdq) \in Commands
         /\ UNCHANGED <<rate, phase, host, eng, link, readback, calm>> /\ Timely
<1>1. cmdq \in Seq(Commands) /\ cmdq # <<>> /\ Len(cmdq) <= CmdCap /\ cmdq' = Tail(cmdq)
  BY DEF IInv, TypeOK, Take
<1>2. /\ Tail(cmdq) \in Seq(Commands) /\ Head(cmdq) \in Commands
      /\ Len(Tail(cmdq)) <= Len(cmdq) /\ Len(cmdq) \in Nat /\ Len(Tail(cmdq)) \in Nat
      /\ DOMAIN cmdq = 1..Len(cmdq) /\ DOMAIN Tail(cmdq) = 1..Len(Tail(cmdq))
  BY <1>1
<1>3. Len(cmdq') <= CmdCap
  BY <1>1, <1>2, Numbers
<1>4. DOMAIN cmdq' \subseteq DOMAIN cmdq
  BY <1>1, <1>2
<1> QED
  BY <1>1, <1>2, <1>3, <1>4 DEF Take, Timely

LEMMA WorkerFacts ==
  ASSUME IInv, AuditSlots \/ SetDelay \/ Heartbeat \/ Reject \/ Poll
  PROVE  IInv' /\ Timely
<1>1. CASE AuditSlots
  <2>1. statusq' \in Seq(Statuses) /\ Len(statusq') <= StatusCap
    BY <1>1, TellType DEF AuditSlots, IInv, TypeOK, Statuses
  <2> QED
    BY <1>1, <2>1, TakeFacts
    DEF AuditSlots, IInv, TypeOK, RetryIsCurrent, HostHeard, NothingArmed
<1>2. CASE SetDelay
  <2>1. PICK op : Take(op)
    BY <1>2 DEF SetDelay
  <2>2. delay' \in Tempo \cup {0}
    BY <1>2, <2>1, TakeFacts DEF SetDelay, IInv, TypeOK, Commands
  <2> QED
    BY <1>2, <2>1, <2>2, TakeFacts
    DEF SetDelay, IInv, TypeOK, RetryIsCurrent, HostHeard, NothingArmed
<1>3. CASE Heartbeat
  <2>1. link' \in BOOLEAN /\ readback' \in Tempo \cup {0}
    BY <1>3 DEF Heartbeat, IInv, TypeOK
  <2>2. statusq' \in Seq(Statuses) /\ Len(statusq') <= StatusCap
    BY <1>3, TellType DEF Heartbeat, IInv, Statuses
  <2> QED
    BY <1>3, <2>1, <2>2
    DEF Heartbeat, IInv, TypeOK, RetryIsCurrent, HostHeard, NothingArmed, Timely
<1>4. CASE Reject \/ Poll
  BY <1>4 DEF Reject, Poll, IInv, TypeOK, RetryIsCurrent, HostHeard, NothingArmed, Timely
<1> QED
  BY <1>1, <1>2, <1>3, <1>4

LEMMA InitInv == Init => IInv
<1> SUFFICES ASSUME Init PROVE IInv
  OBVIOUS
<1>1. Fresh \in Fields /\ Fresh.out = <<>> /\ Fresh.retry = Off /\ Fresh.settle = Off /\ Fresh.lastBpm = 0
  <2>1. <<>> \in Seq(Commands) /\ -2 \in -2..PosMax
    BY Numbers
  <2> QED
    BY <2>1 DEF Fresh, Fields
<1>2. cmdq \in Seq(Commands) /\ Len(cmdq) <= CmdCap /\ statusq \in Seq(Statuses) /\ Len(statusq) <= StatusCap
  <2>1. <<>> \in Seq(Commands) /\ <<>> \in Seq(Statuses)
    OBVIOUS
  <2>2. Len(<<>>) = 0
    OBVIOUS
  <2>3. 0 <= CmdCap /\ 0 <= StatusCap
    BY Numbers
  <2> QED
    BY <2>1, <2>2, <2>3, Zenon DEF Init
<1>3. host \in Hosts
  <2>1. {FALSE} \subseteq BOOLEAN /\ {0} \subseteq 0..PosMax
    BY Numbers
  <2>2. ASSUME NEW P \in SUBSET BOOLEAN, NEW Q \in SUBSET (0..PosMax)
        PROVE  [bpm : Tempo, playing : P, pos : Q] \subseteq Hosts
    BY DEF Hosts
  <2> QED
    BY <2>1, <2>2 DEF Init
<1>4. rate \in Mode /\ phase \in Mode
  BY EngineAssumption, Zenon DEF Init
<1> QED
  BY <1>1, <1>2, <1>3, <1>4
  DEF Init, IInv, TypeOK, RetryIsCurrent, HostHeard, NothingArmed

LEMMA StepFacts == IInv /\ [Next]_vars => IInv' /\ (Timely \/ UNCHANGED vars)
<1> SUFFICES ASSUME IInv, [Next]_vars PROVE IInv' /\ (Timely \/ UNCHANGED vars)
  OBVIOUS
<1>1. CASE Buffer \/ Advance
  BY <1>1, BufferFacts
<1>2. CASE AuditSlots \/ SetDelay \/ Heartbeat \/ Reject \/ Poll
  BY <1>2, WorkerFacts
<1>3. CASE Calm
  BY <1>3 DEF Calm, IInv, TypeOK, RetryIsCurrent, HostHeard, NothingArmed, Timely
<1>4. CASE UNCHANGED vars
  BY <1>4 DEF vars, IInv, TypeOK, RetryIsCurrent, HostHeard, NothingArmed
<1> QED
  BY <1>1, <1>2, <1>3, <1>4 DEF Next

LEMMA Invariance == Safety => []IInv
BY InitInv, StepFacts, PTL DEF Safety

\* Every reachable state is in range: in particular the timers stop at their periods and
\* neither channel overflows, however long the host and the network go on.
THEOREM TypeCorrect == Safety => []TypeOK
BY Invariance, PTL DEF IInv

\* A retry never sends a tempo the host has left by a step that counts.
THEOREM RetryFollows == Safety => []RetryIsCurrent
BY Invariance, PTL DEF IInv

\* If no two tempos are within the threshold, a retry sends the very tempo of the host.
THEOREM RetryIsExact ==
  ASSUME \A s, t \in Tempo : Diff(s, t) <= Tolerance => s = t
  PROVE  Safety => [](eng.retry # Off => eng.retry.bpm = eng.lastBpm)
<1>1. IInv => (eng.retry # Off => eng.retry.bpm = eng.lastBpm)
  <2> SUFFICES ASSUME IInv, eng.retry # Off PROVE eng.retry.bpm = eng.lastBpm
    OBVIOUS
  <2>1. eng.retry.bpm \in Tempo /\ eng.lastBpm \in Tempo
    BY DEF IInv, TypeOK, Fields, NothingArmed
  <2> QED
    BY <2>1, FarApart DEF IInv, RetryIsCurrent
<1> QED
  BY <1>1, Invariance, PTL

\* No command carries a tempo that the host had left before the last buffer, by a step
\* that counts.
THEOREM CommandsAreTimely == Safety => NoStaleTempo
<1>1. IInv /\ [Next]_vars => [Timely]_vars
  BY StepFacts
<1> QED
  BY <1>1, Invariance, PTL DEF Safety, NoStaleTempo, Timely
=============================================================================
