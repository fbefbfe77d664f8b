---------------------------- MODULE TickMailbox ----------------------------
(***************************************************************************)
(* What the global queues promise the backend (backend/backend.h, "Global  *)
(* event queues, swapped each tick"): an entry posted during one tick is   *)
(* delivered exactly once, in the next tick, before anything posted later  *)
(* is looked at.  Nothing is said about the order within a tick.           *)
(***************************************************************************)
EXTENDS FiniteSets

CONSTANT Entries \* everything that may be posted, each at most once

VARIABLES
    filling,   \* posted during this tick
    draining,  \* posted during the tick before, not delivered yet
    delivered

vars == <<filling, draining, delivered>>

TypeOK ==
    /\ filling \subseteq Entries
    /\ draining \subseteq Entries
    /\ delivered \subseteq Entries

Init == filling = {} /\ draining = {} /\ delivered = {}

Post(m) ==
    /\ m \notin filling \cup draining \cup delivered
    /\ filling' = filling \cup {m}
    /\ UNCHANGED <<draining, delivered>>

Turn ==
    /\ draining = {}
    /\ draining' = filling
    /\ filling' = {}
    /\ UNCHANGED delivered

Deliver(m) ==
    /\ m \in draining
    /\ draining' = draining \ {m}
    /\ delivered' = delivered \cup {m}
    /\ UNCHANGED filling

Next == Turn \/ \E m \in Entries : Post(m) \/ Deliver(m)

Spec == Init /\ [][Next]_vars

=============================================================================
