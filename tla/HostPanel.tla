------------------------------ MODULE HostPanel ------------------------------
(***************************************************************************)
(* What src/lib.rs shares with its host and its editor: momentary trigger   *)
(* parameters, read-only status parameters and the auto_reconnect switch.   *)
(* The host saves all of them with the session and restores them all, the   *)
(* triggers and the status included, activates and suspends the plugin at   *)
(* will, and runs process() one buffer at a time; the editor, the host's    *)
(* automation and the network worker write while a buffer is running.       *)
(***************************************************************************)
EXTENDS Naturals, Sequences

CONSTANTS
  Trigger,     \* the momentary parameters: connect_to_last, disconnect, ...
  StatusCap    \* capacity of the status channel (64)

Stages == {"idle", "mirror", "drain", "triggers"}

ASSUME HostAssumption == StatusCap \in Nat \ {0} /\ Trigger \cap Stages = {}

VARIABLES
  auto,      \* the auto_reconnect parameter
  atom,      \* auto_reconnect_atom, which the worker reads
  trig,      \* the trigger parameters
  isConn,    \* the is_connected parameter
  session,   \* the parameters as last saved
  active,    \* initialized and not suspended since
  pc,        \* where process() is; a trigger: it is about to be reset
  seen,      \* the auto_reconnect it has read
  left,      \* the triggers it has still to look at
  prev,      \* prev_connect_to_last, prev_disconnect_param, ...
  conn,      \* conn_status
  lastConn,  \* last_conn_status
  force,     \* force_status_publish
  statusq,   \* the status channel
  link,      \* the worker's last verdict on the connection: it is up
  toMirror,  \* the value the editor has set and not mirrored yet, or "none"
  pressed,   \* history: triggers pressed at rest and not acted on
  news,      \* history: the worker has reported a connection not audited yet
  lost       \* history: the channel was too full for that verdict, and it was a new one

paramVars == <<auto, trig, isConn>>
audioVars == <<pc, seen, left, prev, conn, lastConn, force>>
linkVars  == <<statusq, link, lost>>
vars == <<paramVars, atom, session, active, audioVars, linkVars, toMirror, pressed, news>>

\* The parameter block, by what is done with its fields: auto stands for the settings
\* that process() mirrors to an atom, trig holds those that fire on a rising edge, and
\* isConn stands for the read-outs, which only process() writes.
Params == [auto : BOOLEAN, trig : [Trigger -> BOOLEAN], isConn : BOOLEAN]

Defaults == [auto |-> FALSE, trig |-> [t \in Trigger |-> FALSE], isConn |-> FALSE]

\* What the worker reports; "Pulse" stands for all that is not about the connection.
Message == {"Connected", "Disconnected", "Pulse"}

Init ==
  /\ auto = Defaults.auto /\ trig = Defaults.trig /\ isConn = Defaults.isConn
  /\ atom = Defaults.auto /\ session = Defaults
  /\ active = FALSE
  /\ pc = "idle" /\ seen = FALSE /\ left = {} /\ prev = [t \in Trigger |-> FALSE]
  /\ conn = FALSE /\ lastConn = FALSE /\ force = TRUE
  /\ statusq = <<>> /\ link = FALSE /\ toMirror = "none" /\ lost = FALSE
  /\ pressed = {} /\ news = FALSE

-----------------------------------------------------------------------------
(* The host *)

Restored == auto' = session.auto /\ trig' = session.trig /\ isConn' = session.isConn

\* The session is saved, whatever the parameters are at that moment.
Save ==
  /\ session' = [auto |-> auto, trig |-> trig, isConn |-> isConn]
  /\ UNCHANGED <<paramVars, atom, active, audioVars, linkVars, toMirror, pressed, news>>

\* The session is opened: a new instance, with the parameters as saved.
Load ==
  /\ pc = "idle"
  /\ Restored
  /\ atom' = Defaults.auto /\ active' = FALSE
  /\ seen' = FALSE /\ left' = {} /\ prev' = [t \in Trigger |-> FALSE]
  /\ conn' = FALSE /\ lastConn' = FALSE /\ force' = TRUE
  /\ statusq' = <<>> /\ link' = FALSE /\ lost' = FALSE
  /\ toMirror' = "none" /\ pressed' = {} /\ news' = FALSE
  /\ UNCHANGED <<session, pc>>

\* Or restored into the instance there is: the wrapper initializes it again.
Restore ==
  /\ pc = "idle"
  /\ Restored
  /\ active' = FALSE /\ pressed' = {}
  /\ UNCHANGED <<atom, session, audioVars, linkVars, toMirror, news>>

\* Mutants: the edge detectors are not seeded, for the triggers or for the connection;
\* or the status is not published anew.
SeedNone == [t \in Trigger |-> FALSE]
SeedOffline == FALSE
Trust == FALSE

Seed == trig
Republish == TRUE
SeedConn == conn

\* initialize(), at every activation: adopt_restored_state().  The slot map it also
\* loads is in SlotAudit.
Initialize ==
  /\ ~active /\ active' = TRUE
  /\ atom' = auto
  /\ prev' = Seed
  /\ lastConn' = SeedConn /\ force' = Republish
  /\ pressed' = {}
  /\ UNCHANGED <<paramVars, session, pc, seen, left, conn, linkVars, toMirror, news>>

Suspend ==
  /\ active /\ pc = "idle"
  /\ active' = FALSE
  /\ UNCHANGED <<paramVars, atom, session, audioVars, linkVars, toMirror, pressed, news>>

-----------------------------------------------------------------------------
(* process() *)

\* A buffer begins: the auto_reconnect parameter is read, ...
Buffer ==
  /\ active /\ pc = "idle"
  /\ seen' = auto
  /\ pc' = "mirror"
  /\ UNCHANGED <<paramVars, atom, session, active, left, prev, conn, lastConn, force, linkVars,
                 toMirror, pressed, news>>

\* Mutant: the parameter is mirrored by the editor alone.
NotMirrored == atom

Mirrored == seen

\* ... and mirrored to the worker.
Mirror ==
  /\ pc = "mirror" /\ pc' = "drain"
  /\ atom' = Mirrored /\ seen' = FALSE
  /\ UNCHANGED <<paramVars, session, active, left, prev, conn, lastConn, force, linkVars,
                 toMirror, pressed, news>>

\* 1: the status channel is emptied, message by message.
Drain ==
  /\ pc = "drain" /\ statusq # <<>>
  /\ statusq' = Tail(statusq)
  /\ conn' = (Head(statusq) = "Connected" \/ (conn /\ Head(statusq) # "Disconnected"))
  /\ news' = (news \/ Head(statusq) = "Connected")
  /\ UNCHANGED <<paramVars, atom, session, active, pc, seen, left, prev, lastConn, force,
                 link, lost, toMirror, pressed>>

\* A new connection: an audit is asked for.
Edge == conn /\ ~lastConn

\* Mutant: a buffer without a connection is cut short.
LookOnline == IF conn THEN Trigger ELSE {}

ToLook == Trigger

\* 3b: is_connected is published when it has changed, or once after an activation;
\* the other read-outs follow the same pattern.
Publish ==
  /\ pc = "drain" /\ statusq = <<>>
  /\ pc' = "triggers" /\ left' = ToLook
  /\ isConn' = IF force \/ conn # lastConn THEN conn ELSE isConn
  /\ news' = (news /\ ~Edge)
  /\ lastConn' = conn /\ force' = FALSE
  /\ UNCHANGED <<auto, trig, atom, session, active, seen, prev, conn, linkVars, toMirror,
                 pressed>>

Fires(t) == trig[t] /\ ~prev[t]

\* 8: a trigger is looked at: a rising edge fires, ...
Look(t) ==
  /\ pc = "triggers" /\ t \in left
  /\ pressed' = IF Fires(t) THEN pressed \ {t} ELSE pressed
  /\ prev' = [prev EXCEPT ![t] = trig[t]]
  /\ left' = left \ {t}
  /\ pc' = IF trig[t] THEN t ELSE pc
  /\ UNCHANGED <<paramVars, atom, session, active, seen, conn, lastConn, force, linkVars,
                 toMirror, news>>

\* ... and the parameter is written back; a press in between is overwritten.
Reset(t) ==
  /\ pc = t /\ pc' = "triggers"
  /\ trig' = [trig EXCEPT ![t] = FALSE]
  /\ UNCHANGED <<auto, isConn, atom, session, active, seen, left, prev, conn, lastConn, force,
                 linkVars, toMirror, pressed, news>>

EndBuffer ==
  /\ pc = "triggers" /\ left = {}
  /\ pc' = "idle"
  /\ UNCHANGED <<paramVars, atom, session, active, seen, left, prev, conn, lastConn, force,
                 linkVars, toMirror, pressed, news>>

Process ==
  Buffer \/ Mirror \/ Drain \/ Publish \/ (\E t \in Trigger : Look(t) \/ Reset(t)) \/ EndBuffer

-----------------------------------------------------------------------------
(* The editor, the host's automation and the worker *)

\* pulse_param(), or a lane: the parameter is set, and nothing else.
Press(t) ==
  /\ trig' = [trig EXCEPT ![t] = TRUE]
  /\ pressed' = IF active /\ ~trig[t] /\ ~prev[t] THEN pressed \cup {t} ELSE pressed
  /\ UNCHANGED <<auto, isConn, atom, session, active, audioVars, linkVars, toMirror, news>>

\* A lane of the host moves a setting, or the editor does and leaves the atom to
\* process(), as it does for all of them but auto_reconnect.
Automate ==
  /\ auto' = ~auto
  /\ UNCHANGED <<trig, isConn, atom, session, active, audioVars, linkVars, toMirror, pressed, news>>

\* Message::ToggleAutoReconnect: the parameter is set, ...
Toggle ==
  /\ toMirror = "none"
  /\ auto' = ~auto
  /\ toMirror' = IF auto' THEN "on" ELSE "off"
  /\ UNCHANGED <<trig, isConn, atom, session, active, audioVars, linkVars, pressed, news>>

\* ... and mirrored at once, for a plugin that is suspended.
EditorMirror ==
  /\ toMirror # "none"
  /\ atom' = (toMirror = "on") /\ toMirror' = "none"
  /\ UNCHANGED <<paramVars, session, active, audioVars, linkVars, pressed, news>>

\* try_send(): a full channel drops the message.
Report(msg) == statusq' = IF Len(statusq) < StatusCap THEN Append(statusq, msg) ELSE statusq

\* The worker passes its verdict on the connection, a new one or, with a heartbeat, the
\* same again: that one makes up for the first, had it not fitted, ...
Verdict ==
  /\ link' \in BOOLEAN
  /\ Report(IF link' THEN "Connected" ELSE "Disconnected")
  /\ lost' = (Len(statusq) = StatusCap /\ (lost \/ link' # link))
  /\ UNCHANGED <<paramVars, atom, session, active, audioVars, toMirror, pressed, news>>

\* ... and it reports other things, which fill the channel of a suspended plugin.
Chatter ==
  /\ Len(statusq) < StatusCap /\ Report("Pulse")
  /\ UNCHANGED <<paramVars, atom, session, active, audioVars, link, lost, toMirror, pressed, news>>

Next ==
  \/ Save \/ Load \/ Restore \/ Initialize \/ Suspend
  \/ Process
  \/ (\E t \in Trigger : Press(t)) \/ Automate \/ Toggle \/ EditorMirror
  \/ Verdict \/ Chatter

\* An active plugin gets its buffers; the editor's thread goes on.
Fairness == WF_vars(Process) /\ WF_vars(EditorMirror)

Safety == Init /\ [][Next]_vars
Spec == Safety /\ Fairness

-----------------------------------------------------------------------------
(* Properties *)

\* Every variable holds what the code's field of that name can hold.
TypeOK ==
  /\ auto \in BOOLEAN /\ atom \in BOOLEAN
  /\ trig \in [Trigger -> BOOLEAN] /\ isConn \in BOOLEAN
  /\ session \in Params /\ active \in BOOLEAN
  /\ pc \in Stages \cup Trigger
  /\ seen \in BOOLEAN /\ left \subseteq Trigger /\ prev \in [Trigger -> BOOLEAN]
  /\ conn \in BOOLEAN /\ lastConn \in BOOLEAN /\ force \in BOOLEAN
  /\ statusq \in Seq(Message) /\ Len(statusq) <= StatusCap
  /\ link \in BOOLEAN /\ toMirror \in {"none", "on", "off"}
  /\ pressed \subseteq Trigger /\ news \in BOOLEAN /\ lost \in BOOLEAN

\* A command goes out only for a trigger pressed since the last activation: never for
\* one that was saved with the session, or pressed while the plugin was suspended.
NothingUnasked == \A t \in Trigger : active /\ Fires(t) => t \in pressed

\* Between buffers, from the first one on, the host sees the connection status that
\* process() acts on, whatever the session it restored said.
ReadoutsHonest == active /\ pc = "idle" /\ ~force => isConn = conn /\ lastConn = conn

\* An audit of the slots is asked for only when the worker has reported a connection
\* since the last one: suspending and activating a connected plugin is no news.
AuditOnNews == active /\ Edge => news

\* The worker does not report as fast as a buffer can read, for ever.
BuffersEnd == []<>(pc = "idle")

\* In an active plugin a trigger pressed at rest fires.
PressAnswered ==
  BuffersEnd => \A t \in Trigger : t \in pressed ~> (t \notin pressed \/ ~active)

\* In a plugin that stays active the host comes to see the worker's verdict, unless the
\* channel was too full for it and no heartbeat has repeated it since, and the worker
\* comes to see the host's auto_reconnect.
StatusSettles ==
  BuffersEnd =>
    \A v \in BOOLEAN :
      /\ <>[](active /\ ~lost /\ link = v) => <>[](isConn = v)
      /\ <>[](active /\ auto = v) => <>[](atom = v)
=============================================================================
