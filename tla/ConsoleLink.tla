----------------------------- MODULE ConsoleLink -----------------------------
(***************************************************************************)
(* What the network worker promises about its link to a console, without   *)
(* sockets, timers or retries.  The link is off once the user has hung up, *)
(* idle without an address, being tried, or up.  Only the user brings it   *)
(* back from off.  While an address was chosen by the worker itself the    *)
(* link is vouched for: no named console other than the known one brings   *)
(* it up.                                                                   *)
(***************************************************************************)
CONSTANTS
  Named,      \* identities that have a name
  Nameless,   \* identities that have a model only
  Blank       \* no identity

VARIABLES
  link,       \* "off", "idle", "trying" or "up"
  vouched,    \* the address was chosen by the worker, not by the user
  known       \* the identity of the console the worker looks for

linkVars == <<link, vouched, known>>

Init == link = "idle" /\ vouched = FALSE /\ known \in Named \cup Nameless \cup {Blank}

\* The user asks for a connection: an address is tried, unless it is unusable.
\* A link that is up may stay up until the new address has answered or not.
UserConnect ==
  /\ link' \in {"trying"} \cup {link}
  /\ vouched' = FALSE
  /\ UNCHANGED known

HangUp == link' = "off" /\ UNCHANGED <<vouched, known>>

\* The worker tries an address of its own.
SelfConnect ==
  /\ link \in {"idle", "trying"}
  /\ link' \in {"trying"} \cup {link}
  /\ vouched' = TRUE
  /\ UNCHANGED known

\* A console answers and becomes the known one, unless it has no identity.
Up(d) ==
  /\ link \in {"trying", "up"}
  /\ vouched /\ known # Blank /\ d \in Named => d = known
  /\ link' = "up"
  /\ known' = IF d = Blank THEN known ELSE d
  /\ UNCHANGED vouched

Lost == link = "up" /\ link' = "trying" /\ UNCHANGED <<vouched, known>>

\* The wrong console answered an address the worker chose: the address is given up.
GiveUp ==
  /\ link \in {"trying", "up"} /\ vouched
  /\ link' = "idle"
  /\ UNCHANGED <<vouched, known>>

Next ==
  \/ UserConnect \/ HangUp \/ SelfConnect \/ Lost \/ GiveUp
  \/ \E d \in Named \cup Nameless \cup {Blank} : Up(d)

Spec == Init /\ [][Next]_linkVars
=============================================================================
