-------------------------- MODULE MCSubjectLedger --------------------------
(* An instance of SubjectLedger for TLC: two subjects of one source, one of another. *)
EXTENDS SubjectLedger, TLC

CONSTANTS a, b, c, s, t, e

TwoSources == (a :> s) @@ (b :> s) @@ (c :> t)

Alike == Permutations({a, b})
=============================================================================
