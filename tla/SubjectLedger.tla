---------------------------- MODULE SubjectLedger ----------------------------
(***************************************************************************)
(* ClosedSubjectLedger of runtime/pipelines/subject_lifecycle.py: operators*)
(* ask it whether a subject was closed, so that a late packet does not     *)
(* bring it back.                                                          *)
(*                                                                         *)
(* A producer numbers the subjects of a source in each of its epochs; the  *)
(* numbers that were closed are kept as ranges, merged where they touch.   *)
(* Subjects without a number are kept by name (legacy).  Both are bounded: *)
(* what finds no room raises a flag, which the operators look at before    *)
(* they admit a subject.                                                   *)
(***************************************************************************)
EXTENDS Integers, Sequences, FiniteSets

CONSTANTS
    Subjects,   \* keys: a source and a subject of it
    Sources,    \* the first two parts of the keys
    SourceOf,   \* key -> its source
    Epochs,     \* lifecycle_epoch of the producers
    Capacity,   \* of the ledger
    MaxNumber,  \* bound: the largest lifecycle_sequence
    None        \* no descriptor

Scopes == Sources \X Epochs
Descriptors == Scopes \X (1..MaxNumber)

ASSUME LedgerAssumption ==
    /\ IsFiniteSet(Subjects) /\ IsFiniteSet(Sources) /\ IsFiniteSet(Epochs)
    /\ SourceOf \in [Subjects -> Sources]
    /\ Capacity \in Nat \ {0} /\ MaxNumber \in Nat
    /\ None \notin Descriptors
    /\ Subjects \cap Descriptors = {}

VARIABLES
    legacy,     \* _legacy
    intervals,  \* _intervals: scope -> ranges <<start, end>>
    active,     \* _active: key -> <<scope, number>>, or None
    sources,    \* _sources
    capacityReached,
    asked       \* what was to be closed since the last clear() (history)

vars == <<legacy, intervals, active, sources, capacityReached, asked>>

(***************************************************************************)
(* Ranges.                                                                 *)
(***************************************************************************)
Least(S) == CHOOSE i \in S : \A j \in S : i <= j
Largest(S) == CHOOSE i \in S : \A j \in S : j <= i

\* bisect_left: the first range that starts at x or later.
FirstFrom(r, x) == Least({i \in 1..(Len(r) + 1) : i > Len(r) \/ r[i][1] >= x})

\* n is in one of the ranges.
Inside(r, n) ==
    LET i == FirstFrom(r, n + 1) IN i > 1 /\ r[i - 1][2] >= n

\* The ranges with n: the range that ends at n - 1 or later and all that touch become one.
\* Mutant: a gap of one is closed.
MergeAcrossGap(r, n) ==
    LET i == FirstFrom(r, n)
        left == i > 1 /\ r[i - 1][2] >= n - 2
        first == IF left THEN i - 1 ELSE i
        start == IF left THEN r[i - 1][1] ELSE n
        reach(j) == Largest({n} \cup {r[m][2] : m \in first..(j - 1)})
        stop == Least({j \in first..(Len(r) + 1) : j > Len(r) \/ r[j][1] > reach(j) + 1})
    IN  SubSeq(r, 1, first - 1) \o <<<<start, reach(stop)>>>> \o SubSeq(r, stop, Len(r))
Merge(r, n) ==
    LET i == FirstFrom(r, n)
        left == i > 1 /\ r[i - 1][2] >= n - 1
        first == IF left THEN i - 1 ELSE i
        start == IF left THEN r[i - 1][1] ELSE n
        reach(j) == Largest({n} \cup {r[m][2] : m \in first..(j - 1)})
        stop == Least({j \in first..(Len(r) + 1) : j > Len(r) \/ r[j][1] > reach(j) + 1})
    IN  SubSeq(r, 1, first - 1) \o <<<<start, reach(stop)>>>> \o SubSeq(r, stop, Len(r))

\* len(self)
Places == {x \in Scopes \X (1..Capacity) : x[2] <= Len(intervals[x[1]])}
Size == Cardinality(legacy) + Cardinality(Places)

(***************************************************************************)
(* Operations.                                                             *)
(***************************************************************************)
DescriptorsOf(k) == {d \in Descriptors : d[1][1] = SourceOf[k]}
Ended(d) == Inside(intervals[d[1]], d[2])
Active == {k \in Subjects : active[k] # None}

\* observe() refuses a number that is closed, and a name that is active under another one.
Refused(k, d) == Ended(d) \/ active[k] \notin {None, d}
SourceFits(k) == SourceOf[k] \in sources \/ Cardinality(sources) < Capacity
ActiveFits(k) == active[k] # None \/ Cardinality(Active) < Capacity

\* observe() admits the subject.
Admit(k, d) ==
    /\ ~Refused(k, d) /\ SourceFits(k) /\ ActiveFits(k)
    /\ sources' = sources \cup {SourceOf[k]}
    /\ active' = [active EXCEPT ![k] = d]
    /\ UNCHANGED <<legacy, intervals, capacityReached, asked>>

\* observe(), or close() by way of it, finds no room for the source or the subject.
NoRoom(k, d) ==
    /\ ~Refused(k, d)
    /\ \/ ~SourceFits(k) /\ UNCHANGED sources
       \/ SourceFits(k) /\ ~ActiveFits(k) /\ sources' = sources \cup {SourceOf[k]}
    /\ capacityReached' = TRUE
    /\ asked' \in {asked, asked \cup {d}}
    /\ UNCHANGED <<legacy, intervals, active>>

\* add() of a number: it is merged, if the ranges then fit.
Remember(d) ==
    LET merged == Merge(intervals[d[1]], d[2])
    IN  IF Size + Len(merged) - Len(intervals[d[1]]) <= Capacity
        THEN intervals' = [intervals EXCEPT ![d[1]] = merged] /\ UNCHANGED capacityReached
        ELSE capacityReached' = TRUE /\ UNCHANGED intervals

\* close() with the descriptor of the packet.
Close(k, d) ==
    /\ ~Refused(k, d) /\ SourceFits(k) /\ ActiveFits(k)
    /\ sources' = sources \cup {SourceOf[k]}
    /\ Remember(d)
    /\ active' = [active EXCEPT ![k] = None]
    /\ asked' = asked \cup {d}
    /\ UNCHANGED legacy

\* add(), or close() without a descriptor, of a subject that is active.
Add(k) ==
    /\ active[k] # None
    /\ Remember(active[k])
    /\ active' = [active EXCEPT ![k] = None]
    /\ asked' = asked \cup {active[k]}
    /\ UNCHANGED <<legacy, sources>>

\* Of one that is not: its name is kept.
AddLegacy(k) ==
    /\ active[k] = None /\ k \notin legacy
    /\ IF Size >= Capacity
       THEN capacityReached' = TRUE /\ UNCHANGED legacy
       ELSE legacy' = legacy \cup {k} /\ UNCHANGED capacityReached
    /\ asked' = asked \cup {k}
    /\ UNCHANGED <<intervals, active, sources>>

\* forget_active() and retain_active(): an operator evicts subjects.
Forget(K) ==
    /\ K # {}
    /\ active' = [k \in Subjects |-> IF k \in K THEN None ELSE active[k]]
    /\ UNCHANGED <<legacy, intervals, sources, capacityReached, asked>>

\* Mutant: the ranges survive.
ClearNames ==
    /\ legacy' = {} /\ active' = [k \in Subjects |-> None] /\ sources' = {}
    /\ capacityReached' = FALSE /\ asked' = {}
    /\ UNCHANGED intervals
Clear ==
    /\ legacy' = {} /\ intervals' = [s \in Scopes |-> <<>>]
    /\ active' = [k \in Subjects |-> None] /\ sources' = {} /\ capacityReached' = FALSE
    /\ asked' = {}

Init ==
    /\ legacy = {} /\ intervals = [s \in Scopes |-> <<>>]
    /\ active = [k \in Subjects |-> None] /\ sources = {} /\ capacityReached = FALSE
    /\ asked = {}

Next ==
    \/ \E k \in Subjects : \E d \in DescriptorsOf(k) : Admit(k, d) \/ NoRoom(k, d) \/ Close(k, d)
    \/ \E k \in Subjects : Add(k) \/ AddLegacy(k)
    \/ \E K \in SUBSET Active : Forget(K)
    \/ Clear

Spec == Init /\ [][Next]_vars

(***************************************************************************)
(* Properties.                                                             *)
(***************************************************************************)
Interval == (1..MaxNumber) \X (1..MaxNumber)

TypeOK ==
    /\ legacy \in SUBSET Subjects
    /\ intervals \in [Scopes -> Seq(Interval)]
    /\ active \in [Subjects -> Descriptors \cup {None}]
    /\ sources \in SUBSET Sources
    /\ capacityReached \in BOOLEAN
    /\ asked \in SUBSET (Subjects \cup Descriptors)

\* The ranges of a scope are in order and do not touch, as bisect and the capacity rely
\* on: merging never leaves two that could be one.
IsNormal(r) ==
    /\ \A m \in 1..Len(r) : r[m][1] <= r[m][2]
    /\ \A m, n \in 1..Len(r) : m < n => r[m][2] + 1 < r[n][1]
RangesNormal == \A s \in Scopes : IsNormal(intervals[s])

\* No number is taken for closed that nobody closed, although ranges merge.
NothingElseRefused == \A d \in Descriptors : Ended(d) => d \in asked

\* A subject that was closed stays refused, whatever is merged around it, unless the
\* ledger says that it ran out of room.
ClosedIsRefused ==
    \A x \in asked :
        \/ capacityReached
        \/ x \in Descriptors /\ Ended(x)
        \/ x \in Subjects /\ x \in legacy

\* The ledger is a set that only grows until it is cleared: what is to be closed is in the
\* set from the same step on, or the ledger says from that step on that it ran out of room.
Refuses == legacy \cup {d \in Descriptors : Ended(d)}
Contract == INSTANCE ClosedSet
    WITH Names <- Subjects \cup Descriptors, closed <- Refuses, full <- capacityReached,
         asked <- asked
KeepsContract == Contract!Spec
=============================================================================
