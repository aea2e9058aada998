--------------------------- MODULE MCRetryCadence ---------------------------
(* Instances of RetryCadence for TLC: two addresses, two named consoles. *)
EXTENDS RetryCadence, TLC
CONSTANTS a1, a2, d1, d2

Nobody == {a1 :> Silent @@ a2 :> Silent}

\* Off, at home, or moved, with or without another console in its place.
Roaming == Nobody \cup {a1 :> d1 @@ a2 :> Silent, a1 :> Silent @@ a2 :> d1,
                        a1 :> d2 @@ a2 :> d1}
=============================================================================
