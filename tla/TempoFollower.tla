---------------------------- MODULE TempoFollower ----------------------------
(***************************************************************************)
(* What the plugin promises of the tempo that settled last, without         *)
(* commands, packets, maps or mutes.  The slots that are to follow it come  *)
(* to be at it one after the other, and no others do; none leaves it again  *)
(* for an older one; and when nothing is owed any more all of them that can *)
(* hold a tempo are at it, unless there is an excuse.                       *)
(***************************************************************************)
CONSTANT Slot

VARIABLES
  wanted,    \* the slots that are to be at the tempo
  able,      \* the slots that can hold a tempo: their effect is a delay
  at,        \* the slots that are at the tempo
  owing,     \* something is still to be done about it
  excused    \* a part of it came to nothing

followerVars == <<wanted, able, at, owing, excused>>

Kept == owing \/ excused \/ wanted \cap able \subseteq at

Init ==
  /\ wanted = {} /\ able \subseteq Slot /\ at = {}
  /\ owing = FALSE /\ excused \in BOOLEAN

\* A new tempo settles: what is under way for an older one no longer counts.
NewTempo ==
  /\ at' = {} /\ wanted' \in SUBSET Slot
  /\ owing' \in BOOLEAN /\ excused' \in BOOLEAN /\ Kept'
  /\ UNCHANGED able

\* The same tempo once more, to the slots that are to follow it by now.
Again ==
  /\ ~owing
  /\ wanted' \in SUBSET Slot
  /\ owing' \in BOOLEAN /\ excused' \in BOOLEAN /\ Kept'
  /\ UNCHANGED <<able, at>>

\* Some slots come to be at the tempo, others may never.
Follow ==
  /\ owing
  /\ at \subseteq at' /\ at' \subseteq at \cup (wanted \cap able)
  /\ owing' \in BOOLEAN /\ excused' \in {excused, TRUE} /\ Kept'
  /\ UNCHANGED <<wanted, able>>

\* The operator loads other effects into some slots.
Replace(slots) ==
  /\ at' = at \ slots
  /\ able' \subseteq Slot /\ able' \ slots = able \ slots
  /\ excused' = TRUE
  /\ UNCHANGED <<wanted, owing>>

Next == NewTempo \/ Again \/ Follow \/ \E slots \in SUBSET Slot : Replace(slots)

Spec == Init /\ [][Next]_followerVars
=============================================================================
