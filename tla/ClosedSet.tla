------------------------------ MODULE ClosedSet ------------------------------
(***************************************************************************)
(* What a ledger of closed subjects promises: a set of names that only     *)
(* grows until it is cleared.  A name that is to be closed gets into the   *)
(* set with the same step, or the ledger is full: then it says so until it *)
(* is cleared, and its users admit nothing more.                           *)
(***************************************************************************)
CONSTANT Names

VARIABLES
    asked,      \* the names that were to be closed
    closed,     \* the names that are refused
    full        \* there was no room for a name

vars == <<asked, closed, full>>

Init == asked = {} /\ closed = {} /\ full = FALSE

\* Every name that is to be closed is closed, or its loss is said.
Close(name) ==
    /\ asked' = asked \cup {name}
    /\ \/ closed' = closed \cup {name} /\ UNCHANGED full
       \/ full' = TRUE /\ UNCHANGED closed

\* A name finds no room before anyone asks to close it.
Fill == full' = TRUE /\ UNCHANGED <<asked, closed>>

Clear == asked' = {} /\ closed' = {} /\ full' = FALSE

Next == (\E name \in Names : Close(name)) \/ Fill \/ Clear

Spec == Init /\ [][Next]_vars
=============================================================================
