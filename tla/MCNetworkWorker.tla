--------------------------- MODULE MCNetworkWorker ---------------------------
(* Instances of NetworkWorker for TLC: two addresses, two named consoles.  *)
EXTENDS NetworkWorker, TLC
CONSTANTS a1, a2, d1, d2, n1

Nobody == a1 :> Silent @@ a2 :> Silent

\* The console d1 is off, at a1, or moved to a2 with d2 in its place.
Roaming == {Nobody, a1 :> d1 @@ a2 :> Silent, a1 :> d2 @@ a2 :> d1}

\* Two consoles that stay where they are, the second with a model but no name.
OneNameless == {a1 :> d1 @@ a2 :> n1}
=============================================================================
