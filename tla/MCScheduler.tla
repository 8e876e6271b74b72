----------------------------- MODULE MCScheduler -----------------------------
(* Instances of Scheduler for TLC: threads with two permits, or a named pool whose calls
   have a deadline or none. *)
EXTENDS Scheduler

CONSTANTS a, b, c, j1, j2, j3, q1, q2

ThreadsOrPool == {<<2, FALSE, FALSE>>, <<1, TRUE, FALSE>>, <<1, TRUE, TRUE>>}
=============================================================================
