----------------------------- MODULE MCDeviceScan -----------------------------
(* Values for the constants of DeviceScan in its runs. *)
EXTENDS DeviceScan

CONSTANTS lo, i2, i3, x, n

\* The console x is heard from outside by two paths, next to a local one that does not
\* say who it is; or without an interface, when x has the local one's place; or nobody
\* answers.
Nameless == [ip |-> lo, id |-> n, rank |-> 1, loop |-> TRUE]
Local  == [ip |-> lo, id |-> x, rank |-> 1, loop |-> TRUE]
Direct == [ip |-> i2, id |-> x, rank |-> 2, loop |-> FALSE]
Routed == [ip |-> i3, id |-> x, rank |-> 3, loop |-> FALSE]

MCNets ==
  {[up |-> TRUE, air |-> {Nameless, Direct, Routed}],
   [up |-> FALSE, air |-> {Local, Direct}],
   [up |-> TRUE, air |-> {}]}
=============================================================================
