---------------------------- MODULE HostPanel_proofs ----------------------------
(***************************************************************************)
(* Theorems about HostPanel, for every set of triggers and every capacity   *)
(* of the status channel.                                                   *)
(***************************************************************************)
EXTENDS HostPanel, TLAPS

-----------------------------------------------------------------------------
(* Types *)

\* Reporting, and reading a report, leaves a channel within its capacity.
LEMMA ChannelFacts ==
  /\ \A q \in Seq(Message) : q # <<>> =>
       /\ Head(q) \in Message /\ Tail(q) \in Seq(Message)
       /\ Len(q) <= StatusCap => Len(Tail(q)) <= StatusCap
  /\ \A q \in Seq(Message), msg \in Message : Len(q) < StatusCap =>
       Append(q, msg) \in Seq(Message) /\ Len(Append(q, msg)) <= StatusCap
<1>1. ASSUME NEW q \in Seq(Message), q # <<>>
      PROVE  /\ Head(q) \in Message /\ Tail(q) \in Seq(Message)
             /\ Len(q) <= StatusCap => Len(Tail(q)) <= StatusCap
  BY <1>1, HostAssumption
<1>2. ASSUME NEW q \in Seq(Message), NEW msg \in Message, Len(q) < StatusCap
      PROVE  Append(q, msg) \in Seq(Message) /\ Len(Append(q, msg)) <= StatusCap
  BY <1>2, HostAssumption
<1> QED
  BY <1>1, <1>2

LEMMA InitType == Init => TypeOK
<1> SUFFICES ASSUME Init PROVE TypeOK
  OBVIOUS
<1>1. Defaults \in Params
  BY DEF Defaults, Params
<1>2. pc \in Stages
  BY DEF Init, Stages
<1>3. statusq \in Seq(Message) /\ Len(statusq) <= StatusCap
  BY HostAssumption DEF Init
<1>4. auto \in BOOLEAN /\ trig \in [Trigger -> BOOLEAN] /\ isConn \in BOOLEAN /\ atom \in BOOLEAN
  BY DEF Init, Defaults
<1> QED
  BY <1>1, <1>2, <1>3, <1>4 DEF Init, TypeOK

LEMMA HostType ==
  ASSUME TypeOK, Save \/ Load \/ Restore \/ Initialize \/ Suspend
  PROVE  TypeOK'
<1>1. Restored => auto' \in BOOLEAN /\ trig' \in [Trigger -> BOOLEAN] /\ isConn' \in BOOLEAN
  BY DEF Restored, TypeOK, Params
<1>2. CASE Save
  BY <1>2 DEF Save, TypeOK, Params, paramVars, audioVars, linkVars
<1>3. CASE Load
  <2>1. Restored /\ UNCHANGED <<session, pc>>
    BY <1>3 DEF Load
  <2>2. /\ atom' = FALSE /\ active' = FALSE
        /\ seen' = FALSE /\ left' = {} /\ prev' = [t \in Trigger |-> FALSE]
        /\ conn' = FALSE /\ lastConn' = FALSE /\ force' = TRUE
        /\ statusq' = <<>> /\ link' = FALSE /\ lost' = FALSE
        /\ toMirror' = "none" /\ pressed' = {} /\ news' = FALSE
    BY <1>3 DEF Load, Defaults
  <2>3. statusq' \in Seq(Message) /\ Len(statusq') <= StatusCap
    BY <2>2, HostAssumption
  <2>4. prev' \in [Trigger -> BOOLEAN] /\ left' \subseteq Trigger /\ pressed' \subseteq Trigger
    BY <2>2
  <2>5. session' \in Params /\ pc' \in Stages \cup Trigger
    BY <2>1 DEF TypeOK
  <2> QED
    BY <1>1, <2>1, <2>2, <2>3, <2>4, <2>5 DEF TypeOK
<1>4. CASE Restore
  <2>1. /\ Restored /\ active' = FALSE /\ pressed' = {}
        /\ UNCHANGED <<atom, session, audioVars, linkVars, toMirror, news>>
    BY <1>4 DEF Restore
  <2>2. /\ UNCHANGED <<atom, session, pc, seen, left, prev, conn, lastConn, force>>
        /\ UNCHANGED <<statusq, link, lost, toMirror, news>>
    BY <2>1 DEF audioVars, linkVars
  <2>3. auto' \in BOOLEAN /\ trig' \in [Trigger -> BOOLEAN] /\ isConn' \in BOOLEAN
    BY <1>1, <2>1
  <2> QED
    BY <2>1, <2>2, <2>3 DEF TypeOK
<1>5. CASE Initialize
  <2>1. /\ active' = TRUE /\ atom' = auto /\ prev' = trig /\ lastConn' = conn /\ force' = TRUE
        /\ pressed' = {}
        /\ UNCHANGED <<paramVars, session, pc, seen, left, conn, linkVars, toMirror, news>>
    BY <1>5 DEF Initialize, Seed, SeedConn, Republish
  <2>2. /\ active' \in BOOLEAN /\ atom' \in BOOLEAN /\ lastConn' \in BOOLEAN /\ force' \in BOOLEAN
        /\ prev' \in [Trigger -> BOOLEAN]
    BY <2>1 DEF TypeOK
  <2>3. pressed' \subseteq Trigger
    BY <2>1
  <2>4. UNCHANGED <<paramVars, session, pc, seen, left, conn, linkVars, toMirror, news>>
    BY <2>1
  <2> QED
    BY <2>2, <2>3, <2>4 DEF TypeOK, paramVars, linkVars
<1>6. CASE Suspend
  <2>1. /\ active' = FALSE
        /\ UNCHANGED <<paramVars, atom, session, audioVars, linkVars, toMirror, pressed, news>>
    BY <1>6 DEF Suspend
  <2>2. active' \in BOOLEAN
    BY <2>1
  <2>3. UNCHANGED <<paramVars, atom, session, audioVars, linkVars, toMirror, pressed, news>>
    BY <2>1
  <2> QED
    BY <2>2, <2>3 DEF TypeOK, paramVars, audioVars, linkVars
<1> QED
  BY <1>2, <1>3, <1>4, <1>5, <1>6

LEMMA ProcessType == TypeOK /\ Process => TypeOK'
<1> SUFFICES ASSUME TypeOK, Process PROVE TypeOK'
  OBVIOUS
<1>1. CASE Buffer
  BY <1>1 DEF Buffer, TypeOK, paramVars, linkVars, Stages
<1>2. CASE Mirror
  <2>1. /\ pc' = "drain" /\ atom' = seen /\ seen' = FALSE
        /\ UNCHANGED <<paramVars, session, active, left, prev, conn, lastConn, force, linkVars,
                       toMirror, pressed, news>>
    BY <1>2 DEF Mirror, Mirrored
  <2>2. atom' \in BOOLEAN /\ seen' \in BOOLEAN /\ pc' \in Stages \cup Trigger
    BY <2>1 DEF TypeOK, Stages
  <2>3. UNCHANGED <<paramVars, session, active, left, prev, conn, lastConn, force, linkVars,
                    toMirror, pressed, news>>
    BY <2>1
  <2> QED
    BY <2>2, <2>3 DEF TypeOK, paramVars, linkVars
<1>3. CASE Drain
  <2>1. /\ Head(statusq) \in Message /\ statusq' \in Seq(Message)
        /\ Len(statusq') <= StatusCap
    BY <1>3, ChannelFacts DEF Drain, TypeOK
  <2>2. conn' \in BOOLEAN
    BY <1>3 DEF Drain, TypeOK
  <2>3. news' \in BOOLEAN
    BY <1>3 DEF Drain, TypeOK
  <2> QED
    BY <1>3, <2>1, <2>2, <2>3 DEF Drain, TypeOK, paramVars
<1>4. CASE Publish
  BY <1>4 DEF Publish, ToLook, Edge, TypeOK, linkVars, Stages
<1>5. ASSUME NEW t \in Trigger, Look(t) PROVE TypeOK'
  BY <1>5 DEF Look, TypeOK, paramVars, linkVars, Stages
<1>6. ASSUME NEW t \in Trigger, Reset(t) PROVE TypeOK'
  BY <1>6 DEF Reset, TypeOK, linkVars, Stages
<1>7. CASE EndBuffer
  BY <1>7 DEF EndBuffer, TypeOK, paramVars, linkVars, Stages
<1> QED
  BY <1>1, <1>2, <1>3, <1>4, <1>5, <1>6, <1>7 DEF Process

LEMMA OthersType ==
  ASSUME TypeOK,
         (\E t \in Trigger : Press(t)) \/ Automate \/ Toggle \/ EditorMirror \/ Verdict \/ Chatter
  PROVE  TypeOK'
<1>1. ASSUME NEW t \in Trigger, Press(t) PROVE TypeOK'
  BY <1>1 DEF Press, TypeOK, audioVars, linkVars
<1>2. CASE Automate
  BY <1>2 DEF Automate, TypeOK, audioVars, linkVars
<1>3. CASE Toggle
  BY <1>3 DEF Toggle, TypeOK, audioVars, linkVars
<1>4. CASE EditorMirror
  BY <1>4 DEF EditorMirror, TypeOK, paramVars, audioVars, linkVars
<1>5. ASSUME NEW msg \in Message, Report(msg)
      PROVE  statusq' \in Seq(Message) /\ Len(statusq') <= StatusCap
  BY <1>5, ChannelFacts DEF Report, TypeOK
<1>6. CASE Verdict
  <2>1. statusq' \in Seq(Message) /\ Len(statusq') <= StatusCap
    BY <1>5, <1>6 DEF Verdict, Message
  <2> QED
    BY <1>6, <2>1 DEF Verdict, TypeOK, paramVars, audioVars
<1>7. CASE Chatter
  <2>1. statusq' \in Seq(Message) /\ Len(statusq') <= StatusCap
    BY <1>5, <1>7 DEF Chatter, Message
  <2> QED
    BY <1>7, <2>1 DEF Chatter, TypeOK, paramVars, audioVars
<1> QED
  BY <1>1, <1>2, <1>3, <1>4, <1>6, <1>7

\* Every variable holds what the code's field of that name can hold.
THEOREM TypeCorrect == Safety => []TypeOK
<1>1. TypeOK /\ [Next]_vars => TypeOK'
  <2> SUFFICES ASSUME TypeOK, [Next]_vars PROVE TypeOK'
    OBVIOUS
  <2>1. CASE UNCHANGED vars
    BY <2>1 DEF TypeOK, vars, paramVars, audioVars, linkVars
  <2> QED
    BY <2>1, HostType, ProcessType, OthersType DEF Next
<1> QED
  BY InitType, <1>1, PTL DEF Safety

-----------------------------------------------------------------------------
(* Safety *)

\* A plugin that is suspended is between two buffers.
RestsSuspended == ~active => pc = "idle"

\* Until the status is drained the read-out is that of the buffer before, and from its
\* publication on that of this one.
Shown ==
  active /\ ~force =>
    /\ isConn = lastConn
    /\ pc \notin {"mirror", "drain"} => conn = lastConn

IInv ==
  /\ TypeOK
  /\ RestsSuspended
  /\ NothingUnasked
  /\ Shown
  /\ Edge => news

LEMMA InitInv == Init => IInv
<1> SUFFICES ASSUME Init PROVE IInv
  OBVIOUS
<1>1. RestsSuspended /\ NothingUnasked /\ Shown
  BY DEF Init, RestsSuspended, NothingUnasked, Shown
<1>2. ~Edge
  BY DEF Init, Edge
<1> QED
  BY InitType, <1>1, <1>2 DEF IInv

LEMMA RestsStep == IInv /\ Next => RestsSuspended'
<1> SUFFICES ASSUME IInv, Next PROVE RestsSuspended'
  OBVIOUS
<1> USE DEF IInv, RestsSuspended
<1>1. CASE Save \/ Load \/ Restore \/ Initialize \/ Suspend
  BY <1>1 DEF Save, Load, Restore, Initialize, Suspend, audioVars
<1>2. CASE Process
  BY <1>2, HostAssumption DEF Process, Buffer, Mirror, Drain, Publish, Look, Reset, EndBuffer, Stages
<1>3. CASE (\E t \in Trigger : Press(t)) \/ Automate \/ Toggle \/ EditorMirror \/ Verdict \/ Chatter
  BY <1>3 DEF Press, Automate, Toggle, EditorMirror, Verdict, Chatter, audioVars
<1> QED
  BY <1>1, <1>2, <1>3 DEF Next

\* Pressing leaves a trigger that is down among the pressed ones, looking leaves no edge.
LEMMA AskedStep == IInv /\ Next => NothingUnasked'
<1> SUFFICES ASSUME IInv, Next, NEW t \in Trigger, (active /\ Fires(t))'
             PROVE  t \in pressed'
  BY DEF NothingUnasked
<1> USE DEF IInv, NothingUnasked, Fires
<1>1. CASE Save \/ Load \/ Restore \/ Initialize \/ Suspend
  BY <1>1 DEF Save, Load, Restore, Initialize, Suspend, Seed, paramVars, audioVars
<1>2. CASE Buffer \/ Mirror \/ Drain \/ Publish \/ EndBuffer
  BY <1>2 DEF Buffer, Mirror, Drain, Publish, EndBuffer, paramVars
<1>3. ASSUME NEW u \in Trigger, Look(u) PROVE t \in pressed'
  <2>1. t # u
    BY <1>3 DEF Look, TypeOK, paramVars
  <2> QED
    BY <1>3, <2>1 DEF Look, TypeOK, paramVars
<1>4. ASSUME NEW u \in Trigger, Reset(u) PROVE t \in pressed'
  BY <1>4 DEF Reset, TypeOK
<1>5. ASSUME NEW u \in Trigger, Press(u) PROVE t \in pressed'
  <2>1. CASE t = u
    BY <1>5, <2>1 DEF Press, TypeOK, audioVars
  <2>2. CASE t # u
    BY <1>5, <2>2 DEF Press, TypeOK, audioVars
  <2> QED
    BY <2>1, <2>2
<1>6. CASE Automate \/ Toggle \/ EditorMirror \/ Verdict \/ Chatter
  BY <1>6 DEF Automate, Toggle, EditorMirror, Verdict, Chatter, paramVars, audioVars
<1> QED
  BY <1>1, <1>2, <1>3, <1>4, <1>5, <1>6 DEF Next, Process

LEMMA ShownStep == IInv /\ Next => Shown'
<1> SUFFICES ASSUME IInv, Next, active', ~force' PROVE Shown'
  BY DEF Shown
<1> USE DEF IInv, Shown
<1>1. CASE Save \/ Load \/ Restore \/ Initialize \/ Suspend
  BY <1>1 DEF Save, Load, Restore, Initialize, Suspend, Republish, paramVars, audioVars
<1>2. CASE Buffer \/ Mirror \/ Drain
  BY <1>2 DEF Buffer, Mirror, Drain, paramVars
<1>3. CASE Publish
  BY <1>3 DEF Publish
<1>4. ASSUME NEW t \in Trigger, Look(t) \/ Reset(t) PROVE Shown'
  <2>1. UNCHANGED <<active, force, isConn, conn, lastConn>>
    BY <1>4 DEF Look, Reset, paramVars
  <2>2. pc \notin {"mirror", "drain"}
    BY <1>4, HostAssumption DEF Look, Reset, Stages
  <2> QED
    BY <2>1, <2>2
<1>5. CASE EndBuffer
  BY <1>5 DEF EndBuffer, paramVars
<1>6. CASE (\E t \in Trigger : Press(t)) \/ Automate \/ Toggle \/ EditorMirror \/ Verdict \/ Chatter
  BY <1>6 DEF Press, Automate, Toggle, EditorMirror, Verdict, Chatter, paramVars, audioVars
<1> QED
  BY <1>1, <1>2, <1>3, <1>4, <1>5, <1>6 DEF Next, Process

\* Only a Connected makes an edge, and publishing takes it away.
LEMMA EdgeStep == IInv /\ Next => (Edge => news)'
<1> SUFFICES ASSUME IInv, Next, Edge' PROVE news'
  OBVIOUS
<1> USE DEF IInv, Edge
<1>1. CASE Save \/ Restore \/ Suspend
  BY <1>1 DEF Save, Restore, Suspend, audioVars
<1>6. CASE Load
  BY <1>6 DEF Load
<1>7. CASE Initialize
  BY <1>7 DEF Initialize, SeedConn
<1>2. CASE Drain
  BY <1>2 DEF Drain
<1>3. CASE Publish
  BY <1>3 DEF Publish
<1>5. CASE Buffer \/ Mirror \/ EndBuffer \/ \E t \in Trigger : Look(t) \/ Reset(t)
  <2>1. UNCHANGED <<conn, lastConn, news>>
    BY <1>5 DEF Buffer, Mirror, EndBuffer, Look, Reset
  <2> QED
    BY <2>1
<1>4. CASE (\E t \in Trigger : Press(t)) \/ Automate \/ Toggle \/ EditorMirror \/ Verdict \/ Chatter
  BY <1>4 DEF Press, Automate, Toggle, EditorMirror, Verdict, Chatter, audioVars
<1> QED
  BY <1>1, <1>2, <1>3, <1>4, <1>5, <1>6, <1>7 DEF Next, Process

LEMMA StepInv == IInv /\ [Next]_vars => IInv'
<1> SUFFICES ASSUME IInv, [Next]_vars PROVE IInv'
  OBVIOUS
<1>1. CASE Next
  <2>1. TypeOK'
    BY <1>1, HostType, ProcessType, OthersType DEF IInv, Next
  <2> QED
    BY <1>1, <2>1, RestsStep, AskedStep, ShownStep, EdgeStep DEF IInv
<1>2. CASE UNCHANGED vars
  BY <1>2 DEF IInv, TypeOK, RestsSuspended, NothingUnasked, Fires, Shown, Edge,
              vars, paramVars, audioVars, linkVars
<1> QED
  BY <1>1, <1>2

\* IInv holds in every reachable state.
THEOREM Invariant == Safety => []IInv
  BY InitInv, StepInv, PTL DEF Safety

\* A command goes out only for a trigger pressed since the last activation.
THEOREM TriggersAreAsked == Safety => []NothingUnasked
<1>1. IInv => NothingUnasked
  BY DEF IInv
<1> QED
  BY Invariant, <1>1, PTL

\* Between buffers the host sees the status that process() acts on.
THEOREM ReadoutsTrue == Safety => []ReadoutsHonest
<1>1. IInv => ReadoutsHonest
  BY DEF IInv, Shown, ReadoutsHonest
<1> QED
  BY Invariant, <1>1, PTL

\* An audit is asked for only when the worker has reported a connection.
THEOREM AuditsAreNews == Safety => []AuditOnNews
<1>1. IInv => AuditOnNews
  BY DEF IInv, AuditOnNews
<1> QED
  BY Invariant, <1>1, PTL

-----------------------------------------------------------------------------
(* What the host sees is what the worker has last said *)

Word(v) == IF v THEN "Connected" ELSE "Disconnected"
Pulses(q, i) == \A j \in DOMAIN q : j >= i => q[j] = "Pulse"

\* A buffer that empties the channel q and begins with conn_status c ends with v.
EndsWith(q, c, v) ==
  \/ c = v /\ Pulses(q, 1)
  \/ \E i \in DOMAIN q : q[i] = Word(v) /\ Pulses(q, i + 1)

\* The last verdict is the last one in the channel, or the one process() acts on, unless
\* it did not fit.
UpToDate == ~lost => EndsWith(statusq, conn, link)

LEMMA Appended ==
  ASSUME NEW q \in Seq(Message), NEW msg \in Message
  PROVE  /\ Len(q) \in Nat /\ DOMAIN q = 1..Len(q)
         /\ DOMAIN Append(q, msg) = 1..(Len(q) + 1)
         /\ Append(q, msg)[Len(q) + 1] = msg
         /\ \A i \in 1..Len(q) : Append(q, msg)[i] = q[i]
OBVIOUS

LEMMA ShortOf ==
  ASSUME NEW q \in Seq(Message), q # <<>>
  PROVE  /\ Len(q) \in Nat /\ DOMAIN q = 1..Len(q) /\ DOMAIN Tail(q) = 1..(Len(q) - 1)
         /\ Head(q) = q[1] /\ 1 \in DOMAIN q
         /\ \A i \in 1..(Len(q) - 1) : Tail(q)[i] = q[i + 1]
OBVIOUS

\* A verdict that is told is the last one; what else is told changes nothing.
LEMMA ToldIsLast ==
  ASSUME NEW q \in Seq(Message), NEW c \in BOOLEAN, NEW v \in BOOLEAN
  PROVE  EndsWith(Append(q, Word(v)), c, v)
<1>1. Word(v) \in Message
  BY DEF Word, Message
<1> DEFINE new == Append(q, Word(v))
           n == Len(q) + 1
<1>2. n \in DOMAIN new /\ new[n] = Word(v) /\ n \in Nat /\ \A j \in DOMAIN new : ~(j >= n + 1)
  BY <1>1, Appended
<1> HIDE DEF new, n
<1>3. Pulses(new, n + 1)
  BY <1>2 DEF Pulses
<1>4. EndsWith(new, c, v)
  BY <1>2, <1>3 DEF EndsWith
<1> QED
  BY <1>4 DEF new

LEMMA PulseAfter ==
  ASSUME NEW q \in Seq(Message), NEW i \in Nat, Pulses(q, i)
  PROVE  Pulses(Append(q, "Pulse"), i)
<1>1. "Pulse" \in Message
  BY DEF Message
<1> DEFINE new == Append(q, "Pulse")
<1>2. ASSUME NEW j \in DOMAIN new, j >= i PROVE new[j] = "Pulse"
  <2>1. CASE j = Len(q) + 1
    BY <1>1, <2>1, Appended
  <2>2. CASE j # Len(q) + 1
    <3>1. j \in DOMAIN q /\ new[j] = q[j]
      BY <1>1, <2>2, Appended
    <3> QED
      BY <1>2, <3>1 DEF Pulses
  <2> QED
    BY <2>1, <2>2
<1> QED
  BY <1>2 DEF Pulses

LEMMA PulseIsNoVerdict ==
  ASSUME NEW q \in Seq(Message), NEW c \in BOOLEAN, NEW v \in BOOLEAN, EndsWith(q, c, v)
  PROVE  EndsWith(Append(q, "Pulse"), c, v)
<1>1. CASE c = v /\ Pulses(q, 1)
  BY <1>1, PulseAfter DEF EndsWith
<1>2. ASSUME NEW i \in DOMAIN q, q[i] = Word(v), Pulses(q, i + 1)
      PROVE  EndsWith(Append(q, "Pulse"), c, v)
  <2>1. "Pulse" \in Message
    BY DEF Message
  <2>2. i \in Nat /\ i + 1 \in Nat /\ i \in DOMAIN Append(q, "Pulse") /\ Append(q, "Pulse")[i] = q[i]
    BY <2>1, Appended
  <2>3. Pulses(Append(q, "Pulse"), i + 1)
    BY <1>2, <2>2, PulseAfter
  <2> QED
    BY <1>2, <2>2, <2>3 DEF EndsWith
<1> QED
  BY <1>1, <1>2 DEF EndsWith

\* What is drained is acted on.
LEMMA Drained ==
  ASSUME NEW q \in Seq(Message), q # <<>>, NEW c \in BOOLEAN, NEW v \in BOOLEAN,
         EndsWith(q, c, v), NEW d \in BOOLEAN,
         d = (Head(q) = "Connected" \/ (c /\ Head(q) # "Disconnected"))
  PROVE  EndsWith(Tail(q), d, v)
<1>1. ASSUME NEW i \in Nat, Pulses(q, i + 1) PROVE Pulses(Tail(q), i)
  <2>1. ASSUME NEW j \in DOMAIN Tail(q), j >= i PROVE Tail(q)[j] = "Pulse"
    <3>1. j \in 1..(Len(q) - 1) /\ j + 1 \in DOMAIN q /\ Tail(q)[j] = q[j + 1] /\ j + 1 >= i + 1
      BY <2>1, ShortOf
    <3> QED
      BY <1>1, <3>1 DEF Pulses
  <2> QED
    BY <2>1 DEF Pulses
<1>2. CASE c = v /\ Pulses(q, 1)
  <2>1. Head(q) = "Pulse"
    BY <1>2, ShortOf DEF Pulses
  <2>2. d = v
    BY <1>2, <2>1
  <2>3. Pulses(Tail(q), 1)
    <3>1. Pulses(q, 1 + 1)
      BY <1>2, ShortOf DEF Pulses
    <3> QED
      BY <1>1, <3>1
  <2> QED
    BY <2>2, <2>3 DEF EndsWith
<1>3. ASSUME NEW i \in DOMAIN q, q[i] = Word(v), Pulses(q, i + 1)
      PROVE  EndsWith(Tail(q), d, v)
  <2>1. i \in 1..Len(q) /\ Len(q) \in Nat
    BY ShortOf
  <2>2. CASE i = 1
    <3>1. Head(q) = Word(v)
      BY <1>3, <2>2, ShortOf
    <3>2. d = v
      BY <3>1 DEF Word
    <3>3. Pulses(Tail(q), 1)
      BY <1>1, <1>3, <2>2
    <3> QED
      BY <3>2, <3>3 DEF EndsWith
  <2>3. CASE i # 1
    <3> DEFINE k == i - 1
    <3>1. k \in Nat /\ k \in 1..(Len(q) - 1) /\ k + 1 = i
      BY <2>1, <2>3
    <3> HIDE DEF k
    <3>2. k \in DOMAIN Tail(q) /\ Tail(q)[k] = Word(v)
      BY <1>3, <3>1, ShortOf
    <3>3. Pulses(q, (k + 1) + 1) /\ k + 1 \in Nat
      BY <1>3, <3>1
    <3>4. Pulses(Tail(q), k + 1)
      BY <1>1, <3>3
    <3> QED
      BY <3>2, <3>4 DEF EndsWith
  <2> QED
    BY <2>2, <2>3
<1> QED
  BY <1>2, <1>3 DEF EndsWith

LEMMA UpToDateStep == IInv /\ UpToDate /\ [Next]_vars => UpToDate'
<1> SUFFICES ASSUME IInv, UpToDate, [Next]_vars, ~lost'
             PROVE  EndsWith(statusq', conn', link')
  BY DEF UpToDate
<1>1. /\ statusq \in Seq(Message) /\ Len(statusq) <= StatusCap
      /\ conn \in BOOLEAN /\ link \in BOOLEAN /\ lost \in BOOLEAN
  BY DEF IInv, TypeOK
<1>2. CASE Load
  <2>1. statusq' = <<>> /\ conn' = FALSE /\ link' = FALSE
    BY <1>2 DEF Load
  <2>2. Pulses(<<>>, 1)
    BY DEF Pulses
  <2> QED
    BY <2>1, <2>2 DEF EndsWith
<1>3. CASE Drain
  <2>1. statusq # <<>> /\ statusq' = Tail(statusq) /\ UNCHANGED <<link, lost>>
    BY <1>3 DEF Drain
  <2>2. PICK d \in BOOLEAN : d = (Head(statusq) = "Connected" \/ (conn /\ Head(statusq) # "Disconnected"))
    OBVIOUS
  <2>3. conn' = d
    BY <1>3, <2>2 DEF Drain
  <2>4. EndsWith(statusq, conn, link)
    BY <2>1 DEF UpToDate
  <2> QED
    BY <1>1, <2>1, <2>2, <2>3, <2>4, Drained
<1>4. CASE Verdict
  <2>1. link' \in BOOLEAN /\ Report(Word(link')) /\ conn' = conn
    BY <1>4 DEF Verdict, Word, audioVars
  <2>2. lost' = (Len(statusq) = StatusCap /\ (lost \/ link' # link))
    BY <1>4 DEF Verdict
  <2>3. CASE Len(statusq) < StatusCap
    <3>1. statusq' = Append(statusq, Word(link'))
      BY <2>1, <2>3 DEF Report
    <3> QED
      BY <1>1, <2>1, <3>1, ToldIsLast
  <2>4. CASE Len(statusq) = StatusCap
    <3>1. ~lost /\ link' = link
      BY <2>2, <2>4
    <3>2. statusq' = statusq
      BY <1>1, <2>1, <2>4, HostAssumption DEF Report
    <3> QED
      BY <2>1, <3>1, <3>2 DEF UpToDate
  <2>5. Len(statusq) < StatusCap \/ Len(statusq) = StatusCap
    BY <1>1, HostAssumption
  <2> QED
    BY <2>3, <2>4, <2>5
<1>5. CASE Chatter
  <2>1. statusq' = Append(statusq, "Pulse") /\ UNCHANGED <<conn, link, lost>>
    BY <1>5 DEF Chatter, Report, audioVars
  <2>2. EndsWith(statusq, conn, link)
    BY <2>1 DEF UpToDate
  <2> QED
    BY <1>1, <2>1, <2>2, PulseIsNoVerdict
<1>6. CASE UNCHANGED <<statusq, conn, link, lost>>
  BY <1>6 DEF UpToDate
<1>7. CASE Save \/ Restore \/ Initialize \/ Suspend
  BY <1>6, <1>7 DEF Save, Restore, Initialize, Suspend, audioVars, linkVars
<1>8. CASE Buffer \/ Mirror \/ Publish \/ EndBuffer \/ \E t \in Trigger : Look(t) \/ Reset(t)
  BY <1>6, <1>8 DEF Buffer, Mirror, Publish, EndBuffer, Look, Reset, linkVars
<1>9. CASE (\E t \in Trigger : Press(t)) \/ Automate \/ Toggle \/ EditorMirror
  BY <1>6, <1>9 DEF Press, Automate, Toggle, EditorMirror, audioVars, linkVars
<1>10. CASE UNCHANGED vars
  BY <1>6, <1>10 DEF vars, audioVars, linkVars
<1> QED
  BY <1>2, <1>3, <1>4, <1>5, <1>7, <1>8, <1>9, <1>10 DEF Next, Process

\* Between two buffers, and as soon as there are no more than pulses in the channel, the
\* host sees the worker's last verdict on the connection, unless that verdict did not fit.
VerdictShown ==
  active /\ pc = "idle" /\ ~force /\ ~lost /\ Pulses(statusq, 1) => isConn = link

\* IInv and UpToDate at rest: of the channel only pulses are left, so the verdict has been
\* acted on, and what is acted on is shown.
LEMMA AtRest == IInv /\ UpToDate => VerdictShown
<1> SUFFICES ASSUME IInv, UpToDate, active, pc = "idle", ~force, ~lost, Pulses(statusq, 1)
             PROVE  isConn = link
  BY DEF VerdictShown
<1>1. isConn = conn
  BY DEF IInv, Shown
<1>2. conn = link
  <2>1. EndsWith(statusq, conn, link)
    BY DEF UpToDate
  <2>2. ASSUME NEW i \in DOMAIN statusq PROVE statusq[i] # Word(link)
    <3>1. statusq[i] = "Pulse"
      BY DEF Pulses, IInv, TypeOK
    <3> QED
      BY <3>1 DEF Word
  <2> QED
    BY <2>1, <2>2 DEF EndsWith
<1> QED
  BY <1>1, <1>2

\* A verdict of the worker that fits the channel is the one the host comes to see, however
\* reports, activations, restored sessions and buffers interleave.
THEOREM VerdictsReachTheHost == Safety => []VerdictShown
<1>1. Init => UpToDate
  <2>1. Pulses(<<>>, 1)
    BY DEF Pulses
  <2> QED
    BY <2>1 DEF Init, UpToDate, EndsWith
<1> QED
  BY Invariant, <1>1, UpToDateStep, AtRest, PTL DEF Safety
=============================================================================
