------------------------------ MODULE MidiWatcher ------------------------------
(***************************************************************************)
(* The thread of src/midi_watcher.rs that tells the editor and the MIDI     *)
(* worker which ports exist.  On macOS it listens for notifications, looks  *)
(* at the end of each slice of its run loop whether there was one, and      *)
(* polls now and then for the sake of those that never came; elsewhere it   *)
(* polls, and an enumeration that fails finds no device.  A list goes to     *)
(* both consumers over bounded channels, and a full channel loses it.        *)
(***************************************************************************)
EXTENDS Integers, Sequences

CONSTANTS
  Device,    \* names of MIDI ports
  ListCap    \* capacity of each channel (16)

ASSUME WatcherAssumption == ListCap \in Nat \ {0}

VARIABLES
  native,    \* the platform: notifications (macOS) or polling
  ports,     \* external: the devices that exist
  dirty,     \* a notification came in this slice
  lastSent,  \* BroadcastPlanner.last_sent
  channel,   \* the lists on their way to each consumer
  seen,      \* the list each consumer took last
  lost       \* history: the last list for a consumer was lost

\* The two that are given the lists, over a channel each.
Consumer == {"editor", "worker"}
vars == <<native, ports, dirty, lastSent, channel, seen, lost>>

\* The lists an enumeration may give; midir, without a service to ask, has an empty one.
Enumerated == IF native THEN {ports} ELSE {ports, {}}

\* The seed has been sent, and with notifications counts as the list sent last.
Seeded == channel \in [Consumer -> {<<list>> : list \in Enumerated}]
SeededNative == native /\ lastSent = ports /\ Seeded
SeededPolling ==
  ~native /\ lastSent = {} /\ Seeded /\ channel["editor"] = channel["worker"]

\* The consumers have not looked yet.
Init ==
  /\ ports \in SUBSET Device
  /\ native \in BOOLEAN /\ lastSent \in SUBSET Device
  /\ SeededNative \/ SeededPolling
  /\ dirty = FALSE
  /\ seen = [c \in Consumer |-> {}]
  /\ lost = [c \in Consumer |-> FALSE]

\* Devices come or go.  The system notifies, or forgets to.
Plug ==
  /\ ports' \in SUBSET Device /\ ports' # ports
  /\ dirty' \in {native, dirty}
  /\ UNCHANGED <<native, lastSent, channel, seen, lost>>

\* A notification of something else, or one that comes late.
Notify ==
  /\ native /\ ~dirty /\ dirty' = TRUE
  /\ UNCHANGED <<native, ports, lastSent, channel, seen, lost>>

Fits(c) == Len(channel[c]) < ListCap

\* try_send() of a list to each consumer.
Broadcast(list) ==
  /\ channel' = [c \in Consumer |->
                   IF Fits(c) THEN Append(channel[c], list) ELSE channel[c]]
  /\ lost' = [c \in Consumer |-> ~Fits(c)]

\* Mutant: the poll takes note of a new list without sending it.
DecideNewsOnly(news) ==
  /\ dirty' = FALSE /\ lastSent' = ports
  /\ IF news THEN Broadcast(ports) ELSE UNCHANGED <<channel, lost>>
  /\ UNCHANGED <<native, ports, seen>>

\* decide(): a notification always leads to a broadcast, a poll only if the list
\* is not the one sent last.  The list counts as sent whatever the channels do.
Decide(news) ==
  /\ dirty' = FALSE
  /\ IF news \/ ports # lastSent THEN lastSent' = ports /\ Broadcast(ports)
     ELSE UNCHANGED <<lastSent, channel, lost>>
  /\ UNCHANGED <<native, ports, seen>>

\* needs_enumeration(): an idle slice is not looked at.
NeedsEnumeration(due) == dirty \/ due

\* The end of a slice, at which the safety poll may be due.
Tick(due) == native /\ NeedsEnumeration(due) /\ Decide(dirty)
Slice == Tick(FALSE)
SafetyPoll == Tick(TRUE)

\* The timer of the other platforms.
Poll(list) ==
  /\ ~native /\ list \in Enumerated
  /\ Broadcast(list) /\ UNCHANGED <<native, ports, dirty, lastSent, seen>>

\* A frame of the editor, which takes all there is; the worker takes one list.
Newest(c) == IF channel[c] = <<>> THEN seen[c] ELSE channel[c][Len(channel[c])]

\* Mutant: a frame takes the first of the lists and throws the others away.
FrameTakesFirst ==
  /\ channel["editor"] # <<>>
  /\ seen' = [seen EXCEPT !["editor"] = Head(channel["editor"])]
  /\ channel' = [channel EXCEPT !["editor"] = <<>>]
  /\ UNCHANGED <<native, ports, dirty, lastSent, lost>>

Frame ==
  /\ channel["editor"] # <<>>
  /\ seen' = [seen EXCEPT !["editor"] = Newest("editor")]
  /\ channel' = [channel EXCEPT !["editor"] = <<>>]
  /\ UNCHANGED <<native, ports, dirty, lastSent, lost>>

WorkerTakes ==
  /\ channel["worker"] # <<>>
  /\ seen' = [seen EXCEPT !["worker"] = Head(channel["worker"])]
  /\ channel' = [channel EXCEPT !["worker"] = Tail(@)]
  /\ UNCHANGED <<native, ports, dirty, lastSent, lost>>

Next == Plug \/ Notify \/ Slice \/ SafetyPoll \/ (\E list \in SUBSET Device : Poll(list)) \/ Frame \/ WorkerTakes

Spec ==
  /\ Init /\ [][Next]_vars
  /\ WF_vars(Slice) /\ WF_vars(SafetyPoll) /\ WF_vars(Poll(ports)) /\ WF_vars(WorkerTakes)

-----------------------------------------------------------------------------
(* Properties *)

\* Every variable is in its range, and each channel within its capacity.
TypeOK ==
  /\ native \in BOOLEAN /\ dirty \in BOOLEAN
  /\ ports \subseteq Device /\ lastSent \subseteq Device
  /\ channel \in [Consumer -> Seq(SUBSET Device)]
  /\ \A c \in Consumer : Len(channel[c]) <= ListCap
  /\ seen \in [Consumer -> SUBSET Device]
  /\ lost \in [Consumer -> BOOLEAN]

\* With notifications, the list the planner holds for sent is the newest each consumer
\* has or will find in its channel, unless that one was lost: the comparison that
\* suppresses a broadcast never hides a list from a consumer that can still get it.
SentIsNewest == native => \A c \in Consumer : lost[c] \/ Newest(c) = lastSent

\* Once the devices stay and enumerations work, each consumer ends up with them, even if
\* no notification came; with notifications, unless the last list for it was lost.  The
\* editor takes lists only while its window is open.
ListArrives ==
  \A c \in Consumer, p \in SUBSET Device :
    /\ <>[](ports = p /\ (native => ~lost[c]))
    /\ <>[][Poll({}) => ports = {}]_vars
    /\ c = "editor" => WF_vars(Frame)
    => <>[](seen[c] = p)
=============================================================================
