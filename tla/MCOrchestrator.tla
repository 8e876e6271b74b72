--------------------------- MODULE MCOrchestrator ---------------------------
(* Small instances of the orchestrator for TLC. *)
EXTENDS Orchestrator

CONSTANTS l1, r1, r2, d1

Config(P, s, c) == [pipelines |-> P, settings |-> s, scene |-> c]
MCFirst == Config({l1, r1}, "s1", "c1")
\* An edit removes everything, or it changes the settings and the compositions.
MCConfigs == {MCFirst, Config({}, "s1", "c1"), Config({l1, r1}, "s2", "c2")}

\* A remote pipeline is edited away for a local one, and back.
MCPairFirst == Config({r1, r2}, "s1", "c1")
MCPairConfigs == {MCPairFirst, Config({l1, r2}, "s1", "c1")}
=============================================================================
