------------------------------ MODULE MCChannel ------------------------------
(* Instances of Channel for TLC. *)
EXTENDS Channel, TLC

CONSTANTS c1, c2, p1, p2, k1, k2, pipeline, global

\* One channel and the counter of its pipeline.
SoloOutput == [p \in Producers |-> c1]
SoloInput == [k \in Consumers |-> c1]
SoloSize == c1 :> 3
SoloCounters == c1 :> {pipeline}
SoloLimit == pipeline :> 1

\* A channel that two readers share and one that nobody reads, in two pipelines under a
\* global limit.
PairOutput == p1 :> c1 @@ p2 :> c2
PairInput == [k \in Consumers |-> c1]
PairSize == c1 :> 2 @@ c2 :> 1
PairCounters == c1 :> {pipeline, global} @@ c2 :> {global}
PairLimit == pipeline :> 2 @@ global :> 2

Readers == Permutations(Consumers)
=============================================================================
