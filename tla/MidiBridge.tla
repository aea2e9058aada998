------------------------------- MODULE MidiBridge ------------------------------
(***************************************************************************)
(* The device side of the MIDI worker of src/midi_clock.rs: it keeps one    *)
(* output open, to the device the user selects in the editor, drops it when *)
(* a list of ports no longer has the device, and opens it again, with a     *)
(* back-off, when a list has it.  Lists come from its own timer and, later  *)
(* than they were taken, from the watcher of src/midi_watcher.rs.           *)
(*                                                                          *)
(* The thread selects among its channels and its timer, and handles one     *)
(* message at a time, so each handler is an action.  The editor's choice is *)
(* a shared variable and a message; a session that is loaded sets the       *)
(* variable alone.  What comes in over the passthrough input is left out,   *)
(* as is bridge_connecting, which is up only while a handler connects.      *)
(*                                                                          *)
(* Loopback ports are those of src/midi-loopback, as the sink of            *)
(* src/mock-suite registers and drains them: a registry that every scan     *)
(* reads, and a bounded queue each.  No list of the system has them.        *)
(***************************************************************************)
EXTENDS Integers, Sequences

CONSTANTS
  Device,     \* names of MIDI ports
  None,       \* no device
  Loopback,   \* those that are registered in the process
  ChangeCap,  \* capacity of the device-change channel (16)
  ListCap,    \* capacity of the watcher's channel to the worker (16)
  PortCap,    \* capacity of a loopback port (64)
  Restores    \* whether a session may be loaded into the plugin

ASSUME BridgeAssumption ==
  /\ None \notin Device /\ Loopback \subseteq Device
  /\ ChangeCap \in Nat \ {0} /\ ListCap \in Nat \ {0} /\ PortCap \in Nat \ {0}
  /\ Restores \in BOOLEAN

VARIABLES
  ports,      \* external: the devices that exist; the registry, for loopback ports
  live,       \* external: the device of phys_out has not been away since it was opened
  backlog,    \* messages in the queue of each loopback port
  selected,   \* midi_out_device, shared with the editor and persisted
  auto,       \* midi_auto_connect_atom
  changes,    \* the device-change channel
  lists,      \* the watcher's lists on their way to the worker
  current,    \* current_device
  out,        \* phys_out
  inp,        \* phys_in
  cooling,    \* the back-off is cooling down
  connected,  \* bridge_connected
  parted      \* history: the last selection did not go through the channel

user == <<selected, auto, changes, parted>>
conns == <<out, inp, live>>
vars == <<ports, conns, backlog, user, lists, current, cooling, connected>>

Selection == Device \cup {None}

\* The lists the system may give: without a service to ask there is an empty one.
Listed == {ports \ Loopback, {}}

\* Default::default(): the worker starts before the host restores anything, so
\* it reads the default of midi_out_device; the watcher's first list may be there already.
Init ==
  /\ ports \in SUBSET Device /\ live = FALSE
  /\ backlog = [d \in Loopback |-> 0]
  /\ selected = None /\ auto = FALSE
  /\ changes = <<>> /\ lists \in {<<>>} \cup {<<list>> : list \in Listed}
  /\ current = None /\ out = None /\ inp = None /\ cooling = FALSE
  /\ connected = FALSE
  /\ parted = FALSE

-----------------------------------------------------------------------------
(* The devices, the watcher, the host and the editor *)

\* A device is plugged in or taken away.  A connection does not outlive its port.
Plug ==
  /\ \E d \in Device \ Loopback :
       /\ ports' = IF d \in ports THEN ports \ {d} ELSE ports \cup {d}
       /\ live' = (live /\ out # d)
  /\ UNCHANGED <<backlog, user, lists, current, out, inp, cooling, connected>>

\* A sink registers its port, if the name is free.
Register(d) ==
  /\ d \notin ports /\ ports' = ports \cup {d}
  /\ UNCHANGED <<conns, backlog, user, lists, current, cooling, connected>>

\* It stops: the port is dropped with its queue, and the name is free again.  Those who
\* are connected hold the sending end of a queue that nobody reads.
Unregister(d) ==
  /\ d \in ports /\ ports' = ports \ {d}
  /\ live' = (live /\ out # d)
  /\ backlog' = [backlog EXCEPT ![d] = 0]
  /\ UNCHANGED <<user, lists, current, out, inp, cooling, connected>>

\* Its thread takes a message.
Drain(d) ==
  /\ d \in ports /\ backlog[d] > 0
  /\ backlog' = [backlog EXCEPT ![d] = @ - 1]
  /\ UNCHANGED <<ports, conns, user, lists, current, cooling, connected>>

\* The watcher takes a list, and sends it if there is room.
Watch ==
  /\ Len(lists) < ListCap
  /\ \E list \in Listed : lists' = Append(lists, list)
  /\ UNCHANGED <<ports, conns, backlog, user, current, cooling, connected>>

\* The editor: the shared variable first, then the message, lost on a full channel.
Select(d) ==
  /\ selected' = d
  /\ changes' = IF Len(changes) < ChangeCap THEN Append(changes, d) ELSE changes
  /\ parted' = (Len(changes) >= ChangeCap)
  /\ UNCHANGED <<ports, conns, backlog, auto, lists, current, cooling, connected>>

\* The host loads a session: it sets the persisted fields and tells no thread.
Restore(d) ==
  /\ Restores
  /\ selected' = d /\ parted' = TRUE
  /\ UNCHANGED <<ports, conns, backlog, auto, changes, lists, current, cooling, connected>>

ToggleAuto ==
  /\ auto' = ~auto
  /\ UNCHANGED <<ports, conns, backlog, selected, changes, parted, lists, current, cooling,
                 connected>>

-----------------------------------------------------------------------------
(* The worker *)

\* try_hw_out(): the system may refuse a port, and does refuse one that is not there.
HardwareOut(d) == {None} \cup (ports \cap {d})

\* try_connect_out(): a name in the registry is connected to, without fail.
Registered == ports \cap Loopback
OpenOut(d) == IF d \in Registered THEN {d} ELSE HardwareOut(d)

\* try_hw_in() and try_connect_in(): the passthrough; a loopback port has none.
HardwareIn(d) == {None} \cup (ports \cap {d})
OpenIn(d) == IF d \in Registered THEN {None} ELSE HardwareIn(d)

\* The input is tried once the output is open.
Connect(d) ==
  /\ out' \in OpenOut(d)
  /\ inp' \in IF out' = None THEN {None} ELSE OpenIn(d)
  /\ live' = (out' # None)

Drop == out' = None /\ inp' = None /\ live' = FALSE

\* The editor's selection: the old device is closed first, the back-off forgotten.
ChangeDevice ==
  /\ changes # <<>> /\ changes' = Tail(changes)
  /\ current' = Head(changes) /\ cooling' = FALSE
  /\ \/ Head(changes) # None /\ Connect(Head(changes))
     \/ Head(changes) = None /\ Drop
  /\ connected' = (out' # None)
  /\ UNCHANGED <<ports, backlog, selected, auto, parted, lists>>

\* Auto-connect: with no device selected, the first port of the list is taken.
Picked(known) ==
  IF auto /\ current = None /\ known # {} THEN known ELSE {current}

\* Mutant: the pick is not written through.
PickKeepsSelected(d) == UNCHANGED <<selected, parted>>
Pick(d) ==
  IF d = current THEN UNCHANGED <<selected, parted>>
  ELSE selected' = d /\ parted' = (changes # <<>>)

\* The device is there and not open.
Reopen(d) == Connect(d) /\ cooling' = (out' = None) /\ connected' = (out' # None)

\* The device is open and not there any more.
Close == Drop /\ connected' = FALSE /\ UNCHANGED cooling

Keep == UNCHANGED <<conns, cooling, connected>>

\* handle_port_scan(), with the list of the system it is given.
Scan(list) ==
  /\ ~cooling
  /\ LET known == list \cup Registered IN
     \E d \in Picked(known) :
       /\ current' = d /\ Pick(d)
       /\ \/ d \in known /\ out = None /\ Reopen(d)
          \/ d \notin known /\ out # None /\ Close
          \/ (d \in known <=> out # None) /\ Keep

\* A list of the watcher.
HearWatcher ==
  /\ lists # <<>> /\ lists' = Tail(lists)
  /\ \/ Scan(Head(lists))
     \/ cooling /\ UNCHANGED <<conns, current, selected, parted, cooling, connected>>
  /\ UNCHANGED <<ports, backlog, auto, changes>>

\* The timer.  When the system gives no list, the list is empty.
TimerScan(list) == Scan(list) /\ UNCHANGED <<ports, backlog, auto, changes, lists>>
CleanScan == TimerScan(ports \ Loopback)
EmptyScan == TimerScan({})

Cooled == cooling /\ cooling' = FALSE
          /\ UNCHANGED <<ports, conns, backlog, user, lists, current, connected>>

\* PhysOutput::send(): a loopback port fails when it is full or its sink has gone; the
\* system may fail any message, and may let one to dead hardware pass.
Takes == IF out \in Loopback THEN live /\ backlog[out] < PortCap ELSE TRUE
Passes ==
  /\ Takes /\ UNCHANGED conns
  /\ backlog' = IF out \in Loopback THEN [backlog EXCEPT ![out] = @ + 1] ELSE backlog
Breaks == (out \in Loopback => ~Takes) /\ Drop /\ UNCHANGED backlog

\* Mutant: the flag stays up when a send fails.
PulseKeepsFlag ==
  /\ out # None /\ (Passes \/ Breaks)
  /\ UNCHANGED <<ports, user, lists, current, cooling, connected>>

\* Mutant: an error of a send goes unnoticed.
PulseUnchecked == out # None /\ UNCHANGED vars

\* A pulse is sent.
Pulse ==
  /\ out # None /\ (Passes \/ Breaks)
  /\ connected' = (out' # None)
  /\ UNCHANGED <<ports, user, lists, current, cooling>>

Worker == ChangeDevice \/ HearWatcher \/ CleanScan \/ EmptyScan \/ Pulse

Next ==
  \/ Plug \/ Watch \/ ToggleAuto \/ Cooled
  \/ \E d \in Loopback : Register(d) \/ Unregister(d) \/ Drain(d)
  \/ \E d \in Selection : Select(d) \/ Restore(d)
  \/ Worker

\* The connection the code tries again and again is made at last.
Reconnect == CleanScan /\ out = None /\ out' # None

Spec ==
  /\ Init /\ [][Next]_vars
  /\ WF_vars(ChangeDevice) /\ WF_vars(HearWatcher) /\ WF_vars(Cooled)
  /\ SF_vars(Reconnect)

-----------------------------------------------------------------------------
(* Properties *)

\* Every variable is in its range.
TypeOK ==
  /\ ports \subseteq Device
  /\ live \in BOOLEAN /\ auto \in BOOLEAN /\ cooling \in BOOLEAN
  /\ connected \in BOOLEAN /\ parted \in BOOLEAN
  /\ selected \in Selection /\ current \in Selection
  /\ out \in Selection /\ inp \in Selection /\ backlog \in [Loopback -> 0..PortCap]
  /\ changes \in Seq(Selection) /\ Len(changes) <= ChangeCap
  /\ lists \in Seq(SUBSET Device) /\ Len(lists) <= ListCap

\* What is open is the device the worker works for, and the flag of the editor and
\* the host's read-out says so; the passthrough listens to that device and no other.
OutputIsHonest ==
  /\ out # None => out = current
  /\ inp # None => inp = out /\ inp \notin Loopback
  /\ connected = (out # None)

\* handle_port_scan() returns early while the back-off cools down.  No output is
\* open then, so that no device that goes away is missed.
CoolingIsIdle == cooling => out = None

\* The worker follows the editor: the selection the user sees is the one the worker
\* has, or will have once it has read its channel, unless the last selection was
\* lost on the full channel, came with a session, or is a pick that met a message.
Intended == IF changes = <<>> THEN current ELSE changes[Len(changes)]
SelectionFollows == ~parted => selected = Intended

\* A selected device that stays is open again and again, whatever was unplugged,
\* misread or stale before: provided that pulses are sent, and that one to a dead
\* port fails in the end, as nothing else tells the worker of a port that was away
\* between two scans.
Reconnects ==
  \A d \in Device :
    <>[](current = d /\ d \in ports) /\ WF_vars(~live /\ Pulse /\ out' = None)
      => []<>(out = d /\ live)

=============================================================================
