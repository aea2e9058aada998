------------------------------ MODULE MCSlotAudit ------------------------------
(* Values for the constants of SlotAudit in its run. *)
EXTENDS SlotAudit, TLC

CONSTANTS cA, cB

MCConsole == {cA, cB}

\* A has a delay on its bus and, as an insert, an effect whose type number is a
\* delay's on a bus; B has a reverb on the bus and no insert.
MCFx == cA :> <<10, 10>> @@ cB :> <<1, 99>>
=============================================================================
