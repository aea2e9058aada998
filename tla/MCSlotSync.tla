------------------------------ MODULE MCSlotSync ------------------------------
(* Values for the constants of SlotSync in its runs. *)
EXTENDS SlotSync

\* DLY and 3-Tap, whose times are different parameters, or a reverb in the first slot.
MCRacks == {<<10, 11>>, <<0, 11>>}

\* All slots: Hard Resets without the DLYs, and the second slot read back, or SyncNows for all
\* the types, and the first.
MCSettings ==
  {[all |-> TRUE, slot |-> 2, filter |-> Delays \ {10}, hard |-> TRUE],
   [all |-> TRUE, slot |-> 1, filter |-> Delays, hard |-> FALSE]}

\* Late answers, or a session, may give the map of the one rack for that of the other.
MCMaps == MCRacks
=============================================================================
