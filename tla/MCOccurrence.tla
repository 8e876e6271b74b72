---------------------------- MODULE MCOccurrence ----------------------------
(* Small instances of an occurrence's life for TLC. *)
EXTENDS Occurrence

CONSTANTS r1, r2

Of(sinks, b, w, c, e, x, r, a, o, f) == [sinks |-> sinks, browser |-> b, sweeps |-> w,
    captures |-> c, enrich |-> e, expires |-> x,
    records |-> r, asks |-> a, others |-> o, faults |-> f]
\* Two pipelines that hand over; captures and the expiry, two sweeps with a fault or one with
\* two; annotations; a browser with a revocation, with an erasure and notifications of others,
\* with the expiry and two sweeps, with lists of its own.
MCSetups ==
    {Of({r1, r2}, FALSE, {"sweep"}, TRUE, FALSE, FALSE, 3, {"erase"}, 0, 1),
     Of({r1}, FALSE, {"sweep"}, TRUE, FALSE, TRUE, 2, {"erase"}, 0, 2),
     Of({r1}, FALSE, {"sweep", "request"}, TRUE, FALSE, TRUE, 2, {"erase"}, 0, 1),
     Of({r1}, FALSE, {"sweep"}, FALSE, TRUE, FALSE, 2, {"erase", "revoke"}, 0, 1),
     Of({r1}, TRUE, {"sweep"}, FALSE, TRUE, FALSE, 1, {"revoke"}, 0, 1),
     Of({r1}, TRUE, {"sweep"}, FALSE, FALSE, FALSE, 1, {"erase"}, 2, 0),
     Of({r1}, TRUE, {"sweep", "request"}, FALSE, FALSE, TRUE, 1, {"erase"}, 0, 1),
     Of({r1}, TRUE, {"sweep"}, FALSE, FALSE, FALSE, 2, {}, 1, 0)}
=============================================================================
