------------------------ MODULE SubjectLedgerProofs ------------------------
(***************************************************************************)
(* Proofs about SubjectLedger, for any number of subjects, sources,        *)
(* epochs, numbers and any capacity.                                       *)
(*                                                                         *)
(* The centre is MergeIsUnion: merging a number into ranges that are in    *)
(* order and do not touch gives such ranges again, and they contain what   *)
(* they contained and the number, nothing else.  It rests on what bisect   *)
(* returns, and on a case analysis of the loop of add(): it absorbs at     *)
(* most the range on the left of the number and the one on its right.      *)
(***************************************************************************)
EXTENDS SubjectLedger, TLAPS, SequenceTheorems, WellFoundedInduction

\* A set of positions has a least one.
LEMMA LeastExists ==
    ASSUME NEW S \in SUBSET Nat, S # {}
    PROVE  Least(S) \in S /\ \A j \in S : Least(S) <= j
<1>1. IsWellFoundedOn(OpToRel(<, Nat), Nat)
  BY NatLessThanWellFounded
<1>2. \E i \in S : \A j \in S : ~(<<j, i>> \in OpToRel(<, Nat))
  BY <1>1, WFMin
<1>3. PICK i \in S : \A j \in S : ~(<<j, i>> \in OpToRel(<, Nat))
  BY <1>2
<1>4. \A j \in S : i <= j
  <2> SUFFICES ASSUME NEW j \in S, ~(i <= j) PROVE FALSE
    OBVIOUS
  <2>1. <<j, i>> \in Nat \X Nat /\ j < i
    OBVIOUS
  <2>2. <<j, i>> \in OpToRel(<, Nat)
    BY <2>1 DEF OpToRel
  <2> QED
    BY <1>3, <2>2
<1> QED
  BY <1>4 DEF Least

\* What bisect_left returns.
LEMMA FirstFromSplits ==
    ASSUME NEW r \in Seq(Interval), NEW x \in Int
    PROVE  /\ FirstFrom(r, x) \in 1..(Len(r) + 1)
           /\ FirstFrom(r, x) <= Len(r) => r[FirstFrom(r, x)][1] >= x
           /\ \A j \in 1..(FirstFrom(r, x) - 1) : j \in 1..Len(r) /\ r[j][1] < x
<1> DEFINE S == {i \in 1..(Len(r) + 1) : i > Len(r) \/ r[i][1] >= x}
<1>1. S \in SUBSET Nat /\ Len(r) + 1 \in S
  OBVIOUS
<1>2. FirstFrom(r, x) \in S /\ \A j \in S : FirstFrom(r, x) <= j
  BY <1>1, LeastExists DEF FirstFrom
<1>3. FirstFrom(r, x) \in 1..(Len(r) + 1)
  BY <1>2
<1>4. ASSUME NEW j \in 1..(FirstFrom(r, x) - 1)
      PROVE  j \in 1..Len(r) /\ r[j][1] < x
  <2>1. j \in 1..Len(r) /\ j \notin S
    BY <1>2, <1>3, <1>4
  <2>2. r[j][1] \in Int
    BY <2>1 DEF Interval
  <2> QED
    BY <2>1, <2>2
<1> QED
  BY <1>2, <1>3, <1>4

\* The lookup of observe() finds a number exactly if a range contains it.
LEMMA InsideMeansContained ==
    ASSUME NEW r \in Seq(Interval), IsNormal(r), NEW n \in 1..MaxNumber
    PROVE  Inside(r, n) <=> \E m \in 1..Len(r) : r[m][1] <= n /\ n <= r[m][2]
<1> DEFINE i == FirstFrom(r, n + 1)
<1>1. /\ i \in 1..(Len(r) + 1)
      /\ i <= Len(r) => r[i][1] >= n + 1
      /\ \A j \in 1..(i - 1) : j \in 1..Len(r) /\ r[j][1] < n + 1
  <2>1. n + 1 \in Int
    OBVIOUS
  <2> QED
    BY <2>1, FirstFromSplits
<1>2. \A m \in 1..Len(r) : r[m][1] \in Int /\ r[m][2] \in Int
  BY DEF Interval
<1> HIDE DEF i
<1>3. ASSUME i > 1, r[i - 1][2] >= n
      PROVE  \E m \in 1..Len(r) : r[m][1] <= n /\ n <= r[m][2]
  <2>1. i - 1 \in 1..Len(r) /\ r[i - 1][1] < n + 1
    BY <1>1, <1>3
  <2> QED
    BY <2>1, <1>2, <1>3
<1>4. ASSUME NEW m \in 1..Len(r), r[m][1] <= n, n <= r[m][2]
      PROVE  i > 1 /\ r[i - 1][2] >= n
  <2>1. m < i
    <3>1. CASE i > Len(r)
      BY <1>1, <3>1
    <3>2. CASE i <= Len(r) /\ m >= i
      <4>1. i \in 1..Len(r) /\ (m = i \/ (i < m /\ r[i][2] + 1 < r[m][1] /\ r[i][1] <= r[i][2]))
        BY <1>1, <3>2 DEF IsNormal
      <4> QED
        BY <1>1, <1>2, <1>4, <3>2, <4>1
    <3> QED
      BY <1>1, <3>1, <3>2
  <2>2. i - 1 \in 1..Len(r) /\ (m = i - 1 \/ m < i - 1)
    BY <1>1, <2>1
  <2>3. m < i - 1 => r[m][2] + 1 < r[i - 1][1] /\ r[i - 1][1] <= r[i - 1][2]
    BY <2>2 DEF IsNormal
  <2> QED
    BY <1>1, <1>2, <1>4, <2>1, <2>2, <2>3
<1> QED
  BY <1>3, <1>4 DEF Inside, i

\* The slice assignment of add(): p replaces the ranges from first to stop - 1.
Splice(r, first, stop, p) == SubSeq(r, 1, first - 1) \o <<p>> \o SubSeq(r, stop, Len(r))

\* What it gives: the ranges before, p, and the ranges after.
SpliceOf(q, r, first, stop, p) ==
    /\ q \in Seq(Interval)
    /\ Len(q) = Len(r) + 1 - (stop - first)
    /\ \A k \in 1..(first - 1) : q[k] = r[k]
    /\ q[first] = p
    /\ \A k \in (first + 1)..Len(q) : q[k] = r[k + stop - first - 1]

LEMMA Spliced ==
    ASSUME NEW r \in Seq(Interval), NEW p \in Interval,
           NEW first \in 1..(Len(r) + 1), NEW stop \in first..(Len(r) + 1),
           NEW q, q = Splice(r, first, stop, p)
    PROVE  SpliceOf(q, r, first, stop, p)
<1> DEFINE a == SubSeq(r, 1, first - 1)
           b == SubSeq(r, stop, Len(r))
<1>1. a \in Seq(Interval) /\ Len(a) = first - 1 /\ \A k \in 1..(first - 1) : a[k] = r[k]
  OBVIOUS
<1>2. /\ b \in Seq(Interval) /\ Len(b) = Len(r) + 1 - stop
      /\ \A k \in 1..(Len(r) + 1 - stop) : b[k] = r[stop + k - 1]
  OBVIOUS
<1>3. <<p>> \in Seq(Interval) /\ Len(<<p>>) = 1 /\ <<p>>[1] = p
  OBVIOUS
<1> DEFINE u == a \o <<p>>
<1> HIDE DEF a, b
<1>4. /\ u \in Seq(Interval) /\ Len(u) = first
      /\ \A k \in 1..(first - 1) : u[k] = r[k]
      /\ u[first] = p
  BY <1>1, <1>3
<1>5. q = u \o b
  BY DEF a, b, Splice
<1> HIDE DEF u
<1>0. Len(r) \in Nat /\ first \in Nat /\ stop \in Nat /\ Len(r) + 1 - stop \in Nat
  OBVIOUS
<1>6. /\ u \o b \in Seq(Interval) /\ Len(u \o b) = Len(u) + Len(b)
      /\ \A k \in 1..(Len(u) + Len(b)) :
            (u \o b)[k] = IF k <= Len(u) THEN u[k] ELSE b[k - Len(u)]
  BY <1>2, <1>4, ConcatProperties
<1>7. /\ q \in Seq(Interval) /\ Len(q) = first + (Len(r) + 1 - stop)
      /\ \A k \in 1..Len(q) : q[k] = IF k <= first THEN u[k] ELSE b[k - first]
  BY <1>2, <1>4, <1>5, <1>6
<1>8. Len(q) \in Nat /\ Len(q) = first + (Len(r) + 1 - stop)
  BY <1>0, <1>7
<1>9. ASSUME NEW k \in (first + 1)..Len(q) PROVE q[k] = r[k + stop - first - 1]
  <2>1. k - first \in 1..(Len(r) + 1 - stop) /\ stop + (k - first) - 1 = k + stop - first - 1
    BY <1>0, <1>8, <1>9
  <2>2. k \in 1..Len(q) /\ ~(k <= first)
    BY <1>0, <1>8, <1>9
  <2> QED
    BY <1>2, <1>7, <2>1, <2>2
<1>10. \A k \in 1..(first - 1) : k \in 1..Len(q) /\ k <= first
  BY <1>0, <1>8
<1>11. first \in 1..Len(q) /\ first <= first
  BY <1>0, <1>8
<1>12. Len(q) = Len(r) + 1 - (stop - first)
  BY <1>0, <1>8
<1>13. \A k \in 1..(first - 1) : q[k] = r[k]
  BY <1>4, <1>7, <1>10
<1>14. q[first] = p
  BY <1>4, <1>7, <1>11
<1> QED
  BY <1>7, <1>9, <1>12, <1>13, <1>14 DEF SpliceOf

\* n is one of the numbers of the ranges.
Has(r, n) == \E k \in 1..Len(r) : r[k][1] <= n /\ n <= r[k][2]

\* A slice assignment that joins n to what it replaces, and touches neither neighbour.
Joins(r, n, first, stop, p) ==
    /\ first \in 1..(Len(r) + 1) /\ stop \in first..(Len(r) + 1) /\ p \in Interval
    /\ p[1] <= p[2]
    /\ \A j \in 1..(first - 1) : r[j][2] + 1 < p[1]
    /\ \A j \in stop..Len(r) : p[2] + 1 < r[j][1]
    /\ \A m \in Int :
          p[1] <= m /\ m <= p[2] <=>
              m = n \/ \E j \in first..(stop - 1) : r[j][1] <= m /\ m <= r[j][2]

LEMMA JoinIsUnion ==
    ASSUME NEW r \in Seq(Interval), IsNormal(r), NEW n \in 1..MaxNumber,
           NEW first, NEW stop, NEW p, Joins(r, n, first, stop, p),
           NEW q, q = Splice(r, first, stop, p)
    PROVE  /\ q \in Seq(Interval) /\ IsNormal(q)
           /\ \A m \in Int : Has(q, m) <=> Has(r, m) \/ m = n
<1>1. /\ first \in 1..(Len(r) + 1) /\ stop \in first..(Len(r) + 1) /\ p \in Interval
      /\ first \in Nat /\ stop \in Nat /\ Len(r) \in Nat /\ first <= stop /\ 1 <= first
      /\ stop <= Len(r) + 1
  BY DEF Joins
<1> DEFINE d == stop - first - 1
<1>2. /\ q \in Seq(Interval)
      /\ Len(q) = Len(r) - d
      /\ \A k \in 1..(first - 1) : q[k] = r[k]
      /\ q[first] = p
      /\ \A k \in (first + 1)..Len(q) : q[k] = r[k + d]
  <2>1. /\ q \in Seq(Interval)
        /\ Len(q) = Len(r) + 1 - (stop - first)
        /\ \A k \in 1..(first - 1) : q[k] = r[k]
        /\ q[first] = p
        /\ \A k \in (first + 1)..Len(q) : q[k] = r[k + stop - first - 1]
    <3>1. /\ r \in Seq(Interval) /\ p \in Interval /\ q = Splice(r, first, stop, p)
          /\ first \in 1..(Len(r) + 1) /\ stop \in first..(Len(r) + 1)
      BY <1>1
    <3>2. SpliceOf(q, r, first, stop, p)
      BY <3>1, Spliced
    <3> QED
      BY <3>2 DEF SpliceOf
  <2>2. \A k \in (first + 1)..Len(q) : q[k] = r[k + d]
    <3> SUFFICES ASSUME NEW k \in (first + 1)..Len(q) PROVE q[k] = r[k + d]
      OBVIOUS
    <3>1. k + stop - first - 1 = k + d
      <4>1. k \in Int
        BY <1>1, <2>1
      <4> QED
        BY <1>1, <4>1
    <3>2. q[k] = r[k + stop - first - 1]
      BY <2>1
    <3> QED
      BY <3>1, <3>2, Zenon
  <2>3. Len(q) = Len(r) - d
    BY <1>1, <2>1
  <2> QED
    BY <2>1, <2>2, <2>3, Zenon
<1>3. d \in Int /\ d = stop - first - 1 /\ Len(q) \in Nat /\ first <= Len(q)
  BY <1>1, <1>2
<1> HIDE DEF d
<1>4. /\ \A j \in 1..Len(r) : r[j] \in Interval /\ r[j][1] \in Int /\ r[j][2] \in Int
      /\ p[1] \in Int /\ p[2] \in Int
  BY <1>1 DEF Interval
\* Where the ranges of q come from.
<1>5. \A k \in 1..Len(q) :
         \/ k < first /\ k \in 1..Len(r) /\ q[k] = r[k]
         \/ k = first /\ q[k] = p
         \/ k > first /\ k + d \in stop..Len(r) /\ k + d \in 1..Len(r) /\ q[k] = r[k + d]
  BY <1>1, <1>2, <1>3
<1>6. IsNormal(q)
  <2>1. \A k \in 1..Len(q) : q[k][1] <= q[k][2]
    BY <1>5 DEF IsNormal, Joins
  <2>2. ASSUME NEW k \in 1..Len(q), NEW l \in 1..Len(q), k < l
        PROVE  q[k][2] + 1 < q[l][1]
    <3>1. CASE l < first
      BY <1>1, <1>5, <2>2, <3>1 DEF IsNormal
    <3>2. CASE l = first
      <4>1. k \in 1..(first - 1) /\ q[k] = r[k] /\ q[l] = p
        BY <1>1, <1>5, <2>2, <3>2
      <4> QED
        BY <4>1 DEF Joins
    <3>3. CASE l > first /\ k = first
      <4>1. l + d \in stop..Len(r) /\ q[l] = r[l + d] /\ q[k] = p
        BY <1>1, <1>5, <2>2, <3>3
      <4> QED
        BY <4>1 DEF Joins
    <3>4. CASE l > first /\ k > first
      <4>1. /\ l + d \in 1..Len(r) /\ k + d \in 1..Len(r) /\ k + d < l + d
            /\ q[l] = r[l + d] /\ q[k] = r[k + d]
        BY <1>1, <1>3, <1>5, <2>2, <3>4
      <4> QED
        BY <4>1 DEF IsNormal
    <3>5. CASE l > first /\ k < first
      <4>1. k \in 1..Len(r) /\ q[k] = r[k]
        BY <1>1, <1>3, <1>5, <3>5
      <4>2. l + d \in stop..Len(r) /\ l + d \in 1..Len(r) /\ q[l] = r[l + d]
        BY <1>1, <1>3, <1>5, <3>5
      <4>3. k < l + d
        BY <1>1, <3>5, <4>1, <4>2
      <4> QED
        BY <4>1, <4>2, <4>3 DEF IsNormal
    <3> QED
      BY <1>1, <2>2, <3>1, <3>2, <3>3, <3>4, <3>5
  <2> QED
    BY <2>1, <2>2 DEF IsNormal
<1>7. ASSUME NEW m \in Int PROVE Has(q, m) <=> Has(r, m) \/ m = n
  <2>1. p[1] <= m /\ m <= p[2] <=>
            m = n \/ \E j \in first..(stop - 1) : r[j][1] <= m /\ m <= r[j][2]
    BY DEF Joins
  <2>2. ASSUME Has(q, m) PROVE Has(r, m) \/ m = n
    <3>1. PICK k \in 1..Len(q) : q[k][1] <= m /\ m <= q[k][2]
      BY <2>2 DEF Has
    <3>2. CASE k = first
      <4>1. p[1] <= m /\ m <= p[2]
        BY <1>2, <3>1, <3>2
      <4>2. \A j \in first..(stop - 1) : j \in 1..Len(r)
        BY <1>1
      <4> QED
        BY <2>1, <4>1, <4>2 DEF Has
    <3>3. CASE k # first
      <4>1. \E j \in 1..Len(r) : q[k] = r[j]
        BY <1>5, <3>3
      <4> QED
        BY <3>1, <4>1 DEF Has
    <3> QED
      BY <3>2, <3>3
  <2>3. ASSUME m = n PROVE Has(q, m)
    <3>1. first \in 1..Len(q) /\ q[first][1] <= m /\ m <= q[first][2]
      BY <1>1, <1>2, <1>3, <2>1, <2>3
    <3> QED
      BY <3>1 DEF Has
  <2>4. ASSUME Has(r, m) PROVE Has(q, m)
    <3>1. PICK j \in 1..Len(r) : r[j][1] <= m /\ m <= r[j][2]
      BY <2>4 DEF Has
    <3>2. CASE j < first
      <4>1. j \in 1..Len(q) /\ q[j] = r[j]
        BY <1>1, <1>2, <1>3, <3>2
      <4> QED
        BY <3>1, <4>1 DEF Has
    <3>3. CASE first <= j /\ j < stop
      <4>1. j \in first..(stop - 1)
        BY <1>1, <3>3
      <4>2. first \in 1..Len(q) /\ q[first][1] <= m /\ m <= q[first][2]
        BY <1>1, <1>2, <1>3, <2>1, <3>1, <4>1
      <4> QED
        BY <4>2 DEF Has
    <3>4. CASE stop <= j
      <4>1. j - d \in (first + 1)..Len(q) /\ j - d \in 1..Len(q) /\ (j - d) + d = j
        BY <1>1, <1>2, <1>3, <3>4
      <4>2. q[j - d] = r[j]
        BY <1>2, <4>1
      <4> QED
        BY <3>1, <4>1, <4>2 DEF Has
    <3> QED
      BY <1>1, <3>2, <3>3, <3>4
  <2> QED
    BY <2>2, <2>3, <2>4
<1> QED
  BY <1>2, <1>6, <1>7

\* The loop of add(): it absorbs the range on the left if it reaches n - 1, the range on
\* the right if it starts at n or n + 1, and no other.
LEMMA MergeJoins ==
    ASSUME NEW r \in Seq(Interval), IsNormal(r), NEW n \in 1..MaxNumber
    PROVE  \E first, stop, p : Joins(r, n, first, stop, p) /\ Merge(r, n) = Splice(r, first, stop, p)
<1> DEFINE i == FirstFrom(r, n)
           left == i > 1 /\ r[i - 1][2] >= n - 1
           first == IF left THEN i - 1 ELSE i
           start == IF left THEN r[i - 1][1] ELSE n
           reach(j) == Largest({n} \cup {r[m][2] : m \in first..(j - 1)})
           S == {j \in first..(Len(r) + 1) : j > Len(r) \/ r[j][1] > reach(j) + 1}
           stop == Least(S)
<1>1. Merge(r, n) = Splice(r, first, stop, <<start, reach(stop)>>)
  BY DEF Merge, Splice
<1>2. n \in Int /\ n \in Nat /\ 1 <= n /\ n <= MaxNumber /\ Len(r) \in Nat /\ MaxNumber \in Nat
  BY LedgerAssumption
<1>3. /\ i \in 1..(Len(r) + 1)
      /\ i <= Len(r) => r[i][1] >= n
      /\ \A j \in 1..(i - 1) : j \in 1..Len(r) /\ r[j][1] < n
  BY <1>2, FirstFromSplits
<1>4. /\ \A j \in 1..Len(r) : /\ r[j][1] \in 1..MaxNumber /\ r[j][2] \in 1..MaxNumber
                            /\ r[j][1] \in Int /\ r[j][2] \in Int
                            /\ r[j][1] <= r[j][2]
      /\ \A j, k \in 1..Len(r) : j < k => r[j][2] + 1 < r[k][1]
  BY <1>2 DEF Interval, IsNormal
<1> HIDE DEF i
<1>5. first \in 1..(Len(r) + 1) /\ (left => first = i - 1) /\ (~left => first = i) /\ i \in Nat
  BY <1>2, <1>3
<1>6. \A j : reach(j) = Largest({n} \cup {r[m][2] : m \in first..(j - 1)})
  OBVIOUS
<1>7. (left <=> i > 1 /\ r[i - 1][2] >= n - 1) /\ start = IF left THEN r[i - 1][1] ELSE n
  OBVIOUS
<1> HIDE DEF first, left, start, reach
\* What the tests of the loop see.
<1>8. reach(first) = n
  <2>1. {n} \cup {r[m][2] : m \in first..(first - 1)} = {n}
    BY <1>5
  <2>2. Largest({n}) = n
    BY <1>2 DEF Largest
  <2> QED
    BY <1>6, <2>1, <2>2
<1>9. ASSUME NEW x \in Int PROVE Largest({n} \cup {x}) = IF n <= x THEN x ELSE n
  BY <1>2 DEF Largest
<1>10. ASSUME first <= Len(r)
       PROVE  reach(first + 1) = IF n <= r[first][2] THEN r[first][2] ELSE n
  <2>1. {r[m][2] : m \in first..((first + 1) - 1)} = {r[first][2]}
    BY <1>2, <1>5
  <2>2. r[first][2] \in Int
    BY <1>4, <1>5, <1>10
  <2> QED
    BY <1>6, <1>9, <2>1, <2>2
<1>11. ASSUME first + 1 <= Len(r), r[first][2] <= n, n <= r[first + 1][2]
       PROVE  reach(first + 2) = r[first + 1][2]
  <2>1. {r[m][2] : m \in first..((first + 2) - 1)} = {r[first][2], r[first + 1][2]}
    <3>1. first..((first + 2) - 1) = {first, first + 1}
      BY <1>2, <1>5
    <3> QED
      BY <3>1
  <2>2. r[first][2] \in Int /\ r[first + 1][2] \in Int
    BY <1>4, <1>5, <1>11
  <2>3. Largest({n} \cup {r[first][2], r[first + 1][2]}) = r[first + 1][2]
    BY <1>2, <1>11, <2>2 DEF Largest
  <2> QED
    BY <1>6, <2>1, <2>3
\* Where the loop stops.
<1>12. ASSUME NEW j \in first..(Len(r) + 1), j > Len(r) \/ r[j][1] > reach(j) + 1,
              \A k \in first..(j - 1) : ~(r[k][1] > reach(k) + 1)
       PROVE  stop = j
  <2>1. S \in SUBSET Nat /\ j \in S
    BY <1>2, <1>5, <1>12
  <2>2. stop \in S /\ \A k \in S : stop <= k
    BY <2>1, LeastExists
  <2>3. stop \in first..(Len(r) + 1) /\ (stop > Len(r) \/ r[stop][1] > reach(stop) + 1) /\ stop <= j
    BY <2>1, <2>2
  <2> HIDE DEF stop
  <2>4. ~(stop < j)
    <3> SUFFICES ASSUME stop < j PROVE FALSE
      OBVIOUS
    <3>1. stop \in first..(j - 1) /\ stop \in 1..Len(r)
      BY <1>2, <1>5, <2>3
    <3>2. ~(r[stop][1] > reach(stop) + 1) /\ (stop > Len(r) \/ r[stop][1] > reach(stop) + 1)
      BY <1>12, <2>3, <3>1
    <3>3. ~(stop > Len(r))
      BY <1>2, <3>1
    <3> QED
      BY <3>2, <3>3
  <2>5. stop \in Int /\ j \in Int
    BY <1>2, <1>5, <2>3
  <2> QED
    BY <2>3, <2>4, <2>5
<1> HIDE DEF S, stop
\* The neighbours of the ranges that are absorbed.
<1>13. \A j \in 1..(first - 1) : j \in 1..Len(r) /\ r[j][2] + 1 < start
  <2>1. CASE left
    <3>1. i - 1 \in 1..Len(r) /\ first = i - 1 /\ start = r[i - 1][1]
      BY <1>2, <1>3, <1>5, <1>7, <2>1
    <3> QED
      BY <1>2, <1>4, <3>1
  <2>2. CASE ~left
    <3> SUFFICES ASSUME NEW j \in 1..(i - 1) PROVE j \in 1..Len(r) /\ r[j][2] + 1 < n
      BY <1>5, <1>7, <2>2
    <3>1. j \in 1..Len(r) /\ i - 1 \in 1..Len(r) /\ i > 1 /\ r[i - 1][2] < n - 1 /\ (j = i - 1 \/ j < i - 1)
      BY <1>2, <1>3, <1>4, <1>7, <2>2
    <3> QED
      BY <1>2, <1>4, <3>1
  <2> QED
    BY <2>1, <2>2
<1>14. start \in 1..MaxNumber /\ start <= n
  BY <1>2, <1>3, <1>4, <1>7
<1> SUFFICES \E t, e : t = stop /\ e = reach(stop) /\ Joins(r, n, first, t, <<start, e>>)
  BY <1>1
\* Nothing on the right touches.
<1>15. CASE ~left /\ (i > Len(r) \/ r[i][1] > n + 1)
  <2>1. first = i /\ start = n /\ first \in first..(Len(r) + 1)
    BY <1>2, <1>5, <1>7, <1>15
  <2>2. stop = first /\ reach(stop) = n
    <3>1. first > Len(r) \/ r[first][1] > reach(first) + 1
      BY <1>8, <1>15, <2>1
    <3>2. \A k \in first..(first - 1) : ~(r[k][1] > reach(k) + 1)
      BY <1>5
    <3>3. stop = first
      BY <1>12, <2>1, <3>1, <3>2
    <3> QED
      BY <1>8, <3>3
  <2>3. \A j \in first..Len(r) : n + 1 < r[j][1]
    BY <1>2, <1>3, <1>4, <1>15, <2>1
  <2>4. Joins(r, n, first, first, <<n, n>>)
    BY <1>2, <1>5, <1>13, <2>1, <2>3 DEF Joins, Interval
  <2> QED
    BY <2>1, <2>2, <2>4
\* The range on the right does.
<1>16. CASE ~left /\ i <= Len(r) /\ r[i][1] <= n + 1
  <2>1. first = i /\ start = n /\ first \in 1..Len(r) /\ first + 1 \in first..(Len(r) + 1)
    BY <1>2, <1>3, <1>5, <1>7, <1>16
  <2>2. n <= r[first][1] /\ r[first][1] <= n + 1 /\ n <= r[first][2]
    BY <1>2, <1>3, <1>4, <1>16, <2>1
  <2>3. reach(first + 1) = r[first][2]
    BY <1>10, <2>1, <2>2
  <2>4. \A j \in (first + 1)..Len(r) : r[first][2] + 1 < r[j][1]
    BY <1>2, <1>4, <2>1
  <2>5. stop = first + 1
    <3>1. first + 1 > Len(r) \/ r[first + 1][1] > reach(first + 1) + 1
      BY <1>2, <1>4, <2>1, <2>3, <2>4
    <3>2. \A k \in first..((first + 1) - 1) : k = first
      BY <2>1
    <3>3. \A k \in first..((first + 1) - 1) : ~(r[k][1] > reach(k) + 1)
      BY <1>2, <1>4, <1>8, <2>1, <2>2, <3>2
    <3> QED
      BY <1>12, <2>1, <3>1, <3>3
  <2>6. ASSUME NEW m \in Int
        PROVE  n <= m /\ m <= r[first][2] <=>
                 m = n \/ \E j \in first..((first + 1) - 1) : r[j][1] <= m /\ m <= r[j][2]
    <3>1. (\E j \in first..((first + 1) - 1) : r[j][1] <= m /\ m <= r[j][2])
             <=> r[first][1] <= m /\ m <= r[first][2]
      BY <2>1
    <3> QED
      BY <1>2, <1>4, <2>1, <2>2, <3>1
  <2>7. Joins(r, n, first, first + 1, <<n, r[first][2]>>)
    BY <1>2, <1>4, <1>5, <1>13, <2>1, <2>2, <2>4, <2>6 DEF Joins, Interval
  <2>8. reach(stop) = r[first][2]
    BY <2>3, <2>5
  <2> QED
    BY <2>1, <2>5, <2>7, <2>8
\* The range on the left reaches n - 1, or n and beyond; nothing on the right touches.
<1>17. CASE left /\ (i > Len(r) \/ r[i][1] > (IF n <= r[i - 1][2] THEN r[i - 1][2] ELSE n) + 1)
  <2> DEFINE e == IF n <= r[first][2] THEN r[first][2] ELSE n
  <2>1. /\ first = i - 1 /\ first \in 1..Len(r) /\ first + 1 = i /\ start = r[first][1]
        /\ first + 1 \in first..(Len(r) + 1) /\ r[first][2] >= n - 1 /\ r[first][1] < n
    BY <1>2, <1>3, <1>5, <1>7, <1>17
  <2>2. e \in 1..MaxNumber /\ n <= e /\ r[first][2] <= e /\ (e = n \/ e = r[first][2])
    BY <1>2, <1>4, <2>1
  <2>3. reach(first + 1) = e
    BY <1>10, <2>1
  <2>4. i > Len(r) \/ r[i][1] > e + 1
    BY <1>17, <2>1
  <2> HIDE DEF e
  <2>5. stop = first + 1
    <3>1. first + 1 > Len(r) \/ r[first + 1][1] > reach(first + 1) + 1
      BY <2>1, <2>3, <2>4
    <3>2. \A k \in first..((first + 1) - 1) : k = first
      BY <2>1
    <3>3. ~(r[first][1] > reach(first) + 1)
      BY <1>2, <1>4, <1>8, <2>1
    <3> QED
      BY <1>12, <2>1, <3>1, <3>2, <3>3
  <2>6. \A j \in (first + 1)..Len(r) : e + 1 < r[j][1]
    <3> SUFFICES ASSUME NEW j \in (first + 1)..Len(r) PROVE e + 1 < r[j][1]
      OBVIOUS
    <3>1. i \in 1..Len(r) /\ j \in 1..Len(r) /\ (j = i \/ i < j) /\ r[i][1] > e + 1
      BY <1>2, <2>1, <2>4
    <3> QED
      BY <1>4, <2>2, <3>1
  <2>7. ASSUME NEW m \in Int
        PROVE  r[first][1] <= m /\ m <= e <=>
                 m = n \/ \E j \in first..((first + 1) - 1) : r[j][1] <= m /\ m <= r[j][2]
    <3>1. (\E j \in first..((first + 1) - 1) : r[j][1] <= m /\ m <= r[j][2])
             <=> r[first][1] <= m /\ m <= r[first][2]
      BY <2>1
    <3> QED
      BY <1>2, <1>4, <2>1, <2>2, <3>1
  <2>8. Joins(r, n, first, first + 1, <<r[first][1], e>>)
    <3>1. <<r[first][1], e>> \in Interval /\ r[first][1] <= e
      BY <1>4, <2>1, <2>2 DEF Interval
    <3> QED
      BY <1>2, <1>5, <1>13, <2>1, <2>6, <2>7, <3>1 DEF Joins
  <2>9. reach(stop) = e
    BY <2>3, <2>5
  <2> QED
    BY <2>1, <2>5, <2>8, <2>9
\* n fills the gap between the range on the left and the one on the right, or starts the
\* latter.
<1>18. CASE left /\ i <= Len(r) /\ r[i][1] <= (IF n <= r[i - 1][2] THEN r[i - 1][2] ELSE n) + 1
  <2>1. /\ first = i - 1 /\ first \in 1..Len(r) /\ first + 1 = i /\ start = r[first][1]
        /\ first + 1 \in 1..Len(r) /\ first + 2 \in first..(Len(r) + 1)
        /\ r[first][2] >= n - 1 /\ r[first][1] < n /\ r[first + 1][1] >= n
    BY <1>2, <1>3, <1>5, <1>7, <1>18
  <2>2. r[first][2] + 1 < r[first + 1][1]
    BY <1>2, <1>4, <2>1
  <2>3. r[first][2] <= n /\ r[first + 1][1] <= n + 1 /\ n <= r[first + 1][2]
    <3>1. /\ r[first][2] \in Int /\ r[first + 1][1] \in Int /\ r[first + 1][2] \in Int
          /\ r[first + 1][1] <= r[first + 1][2]
      BY <1>4, <2>1
    <3>2. r[first + 1][1] <= (IF n <= r[first][2] THEN r[first][2] ELSE n) + 1
      BY <1>18, <2>1
    <3>3. r[first + 1][1] >= n /\ n \in Int
      BY <1>2, <2>1
    <3> QED
      BY <2>2, <3>1, <3>2, <3>3
  <2>4. reach(first + 2) = r[first + 1][2]
    BY <1>11, <2>1, <2>3
  <2>5. \A j \in (first + 2)..Len(r) : r[first + 1][2] + 1 < r[j][1]
    <3>1. \A j \in (first + 2)..Len(r) : j \in 1..Len(r) /\ first + 1 < j
      BY <1>2, <2>1
    <3> QED
      BY <1>4, <2>1, <3>1
  <2>6. reach(first + 1) = n
    <3>1. reach(first + 1) = IF n <= r[first][2] THEN r[first][2] ELSE n
      BY <1>10, <2>1
    <3>2. n \in Int /\ r[first][2] \in Int
      BY <1>2, <1>4, <2>1
    <3> QED
      BY <2>3, <3>1, <3>2
  <2>7. stop = first + 2
    <3>1. first + 2 > Len(r) \/ r[first + 2][1] > reach(first + 2) + 1
      <4> SUFFICES ASSUME ~(first + 2 > Len(r)) PROVE r[first + 2][1] > reach(first + 2) + 1
        OBVIOUS
      <4>1. first + 2 \in (first + 2)..Len(r) /\ first + 2 \in 1..Len(r)
        BY <1>2, <2>1
      <4>2. r[first + 1][2] + 1 < r[first + 2][1]
        BY <2>5, <4>1
      <4>3. r[first + 1][2] \in Int /\ r[first + 2][1] \in Int
        BY <1>4, <2>1, <4>1
      <4> QED
        BY <2>4, <4>2, <4>3
    <3>2. \A k \in first..((first + 2) - 1) : k = first \/ k = first + 1
      BY <2>1
    <3>3. ~(r[first][1] > reach(first) + 1) /\ ~(r[first + 1][1] > reach(first + 1) + 1)
      <4>1. n \in Int /\ r[first][1] \in Int /\ r[first + 1][1] \in Int
        BY <1>2, <1>4, <2>1
      <4>2. r[first][1] < n /\ r[first + 1][1] <= n + 1
        BY <2>1, <2>3
      <4> QED
        BY <1>8, <2>6, <4>1, <4>2
    <3> QED
      BY <1>12, <2>1, <3>1, <3>2, <3>3
  <2>8. ASSUME NEW m \in Int
        PROVE  r[first][1] <= m /\ m <= r[first + 1][2] <=>
                 m = n \/ \E j \in first..((first + 2) - 1) : r[j][1] <= m /\ m <= r[j][2]
    <3>1. (\E j \in first..((first + 2) - 1) : r[j][1] <= m /\ m <= r[j][2])
             <=> \/ r[first][1] <= m /\ m <= r[first][2]
                 \/ r[first + 1][1] <= m /\ m <= r[first + 1][2]
      <4>1. first..((first + 2) - 1) = {first, first + 1}
        <5>1. first \in Int
          BY <2>1
        <5> QED
          BY <5>1
      <4> QED
        BY <4>1, Zenon
    <3> DEFINE a == r[first][1]
               b == r[first][2]
               x == r[first + 1][1]
               y == r[first + 1][2]
    <3>2. a \in Int /\ b \in Int /\ x \in Int /\ y \in Int /\ a <= b /\ x <= y
      BY <1>4, <2>1
    <3>3. n \in Int /\ a < n /\ n - 1 <= b /\ b <= n /\ n <= x /\ x <= n + 1 /\ n <= y
      <4>1. a < n /\ b >= n - 1 /\ x >= n /\ b <= n /\ x <= n + 1 /\ n <= y
        BY <2>1, <2>3, Zenon
      <4>2. n \in Int
        BY <1>2
      <4> HIDE DEF a, b, x, y
      <4> QED
        BY <3>2, <4>1, <4>2
    <3>4. a <= m /\ m <= y <=> m = n \/ (a <= m /\ m <= b) \/ (x <= m /\ m <= y)
      <4> HIDE DEF a, b, x, y
      <4> QED
        BY <3>2, <3>3
    <3> QED
      BY <3>1, <3>4
  <2>9. Joins(r, n, first, first + 2, <<r[first][1], r[first + 1][2]>>)
    <3>1. /\ <<r[first][1], r[first + 1][2]>> \in Interval
          /\ r[first][1] <= r[first + 1][2]
      <4>1. r[first][1] \in 1..MaxNumber /\ r[first + 1][2] \in 1..MaxNumber
        BY <1>4, <2>1
      <4>2. r[first][1] <= r[first + 1][2]
        <5>1. r[first][1] < n /\ n <= r[first + 1][2]
          BY <2>1, <2>3
        <5>2. r[first][1] \in Int /\ r[first + 1][2] \in Int /\ n \in Int
          BY <1>2, <4>1
        <5> QED
          BY <5>1, <5>2
      <4> QED
        BY <4>1, <4>2 DEF Interval
    <3> QED
      BY <1>2, <1>5, <1>13, <2>1, <2>5, <2>8, <3>1 DEF Joins
  <2>10. reach(stop) = r[first + 1][2]
    BY <2>4, <2>7
  <2> QED
    BY <2>1, <2>7, <2>9, <2>10
<1>19. \/ ~left /\ (i > Len(r) \/ r[i][1] > n + 1)
       \/ ~left /\ i <= Len(r) /\ r[i][1] <= n + 1
       \/ left /\ (i > Len(r) \/ r[i][1] > (IF n <= r[i - 1][2] THEN r[i - 1][2] ELSE n) + 1)
       \/ left /\ i <= Len(r) /\ r[i][1] <= (IF n <= r[i - 1][2] THEN r[i - 1][2] ELSE n) + 1
  <2>1. CASE i > Len(r)
    BY <2>1
  <2>2. CASE ~(i > Len(r))
    <3>1. i \in 1..Len(r) /\ i <= Len(r) /\ r[i][1] \in Int
      BY <1>2, <1>3, <1>4, <2>2
    <3>2. left => r[i - 1][2] \in Int
      BY <1>2, <1>3, <1>4, <1>7
    <3> QED
      BY <1>2, <3>1, <3>2
  <2> QED
    BY <2>1, <2>2
<1> QED
  BY <1>15, <1>16, <1>17, <1>18, <1>19

\* Merging keeps the ranges in order and apart, and adds the number and nothing else.
LEMMA MergeIsUnion ==
    ASSUME NEW r \in Seq(Interval), IsNormal(r), NEW n \in 1..MaxNumber
    PROVE  /\ Merge(r, n) \in Seq(Interval) /\ IsNormal(Merge(r, n))
           /\ \A m \in 1..MaxNumber : Inside(Merge(r, n), m) <=> Inside(r, m) \/ m = n
<1>1. PICK first, stop, p : Joins(r, n, first, stop, p) /\ Merge(r, n) = Splice(r, first, stop, p)
  BY MergeJoins
<1> DEFINE q == Merge(r, n)
<1>2. q = Splice(r, first, stop, p)
  BY <1>1
<1> HIDE DEF q
<1>3. q \in Seq(Interval) /\ IsNormal(q) /\ \A m \in Int : Has(q, m) <=> Has(r, m) \/ m = n
  BY <1>1, <1>2, JoinIsUnion
<1>4. ASSUME NEW m \in 1..MaxNumber
      PROVE  Inside(q, m) <=> Inside(r, m) \/ m = n
  <2>1. Inside(q, m) <=> Has(q, m)
    BY <1>3, InsideMeansContained DEF Has
  <2>2. Inside(r, m) <=> Has(r, m)
    BY InsideMeansContained DEF Has
  <2> QED
    BY <1>3, <2>1, <2>2
<1> QED
  BY <1>3, <1>4 DEF q

\* An empty scope refuses nothing.
LEMMA NothingInside ==
    ASSUME NEW n \in 1..MaxNumber
    PROVE  <<>> \in Seq(Interval) /\ IsNormal(<<>>) /\ ~Inside(<<>>, n)
<1>1. <<>> \in Seq(Interval) /\ IsNormal(<<>>)
  BY DEF IsNormal
<1>2. Inside(<<>>, n) <=> \E m \in 1..Len(<<>>) : <<>>[m][1] <= n /\ n <= <<>>[m][2]
  BY <1>1, InsideMeansContained
<1> QED
  BY <1>1, <1>2

(***************************************************************************)
(* The invariant.                                                          *)
(***************************************************************************)
IInv == TypeOK /\ RangesNormal /\ NothingElseRefused /\ ClosedIsRefused

\* What add() of a number does to the set of the numbers that are refused.
Remembered(d) ==
    \/ /\ UNCHANGED capacityReached
       /\ \A e \in Descriptors : Ended(e)' <=> Ended(e) \/ e = d
    \/ capacityReached' = TRUE /\ UNCHANGED intervals

LEMMA RememberIsUnion ==
    ASSUME IInv, NEW d \in Descriptors, Remember(d)
    PROVE  /\ intervals' \in [Scopes -> Seq(Interval)] /\ RangesNormal'
           /\ capacityReached' \in BOOLEAN
           /\ Remembered(d)
<1> DEFINE m == Merge(intervals[d[1]], d[2])
<1>1. /\ d[1] \in Scopes /\ d[2] \in 1..MaxNumber
      /\ intervals[d[1]] \in Seq(Interval) /\ IsNormal(intervals[d[1]])
  BY DEF IInv, TypeOK, RangesNormal, Descriptors
<1>2. /\ m \in Seq(Interval) /\ IsNormal(m)
      /\ \A n \in 1..MaxNumber : Inside(m, n) <=> Inside(intervals[d[1]], n) \/ n = d[2]
  BY <1>1, MergeIsUnion
<1>3. \/ intervals' = [intervals EXCEPT ![d[1]] = m] /\ UNCHANGED capacityReached
      \/ capacityReached' = TRUE /\ UNCHANGED intervals
  BY DEF Remember
<1> HIDE DEF m
<1>4. CASE intervals' = [intervals EXCEPT ![d[1]] = m] /\ UNCHANGED capacityReached
  <2>1. \A s \in Scopes : intervals'[s] = IF s = d[1] THEN m ELSE intervals[s]
    BY <1>1, <1>4 DEF IInv, TypeOK
  <2>2. intervals' \in [Scopes -> Seq(Interval)]
    BY <1>1, <1>2, <1>4 DEF IInv, TypeOK
  <2>3. RangesNormal'
    BY <1>2, <2>1 DEF IInv, RangesNormal
  <2>4. ASSUME NEW e \in Descriptors PROVE Ended(e)' <=> Ended(e) \/ e = d
    <3>1. e[1] \in Scopes /\ e[2] \in 1..MaxNumber /\ (e = d <=> e[1] = d[1] /\ e[2] = d[2])
      BY DEF Descriptors
    <3>2. Ended(e)' <=> Inside(intervals'[e[1]], e[2])
      BY DEF Ended
    <3>3. Ended(e) <=> Inside(intervals[e[1]], e[2])
      BY DEF Ended
    <3>4. CASE e[1] = d[1]
      <4>1. intervals'[e[1]] = m
        BY <2>1, <3>1, <3>4
      <4>2. Inside(m, e[2]) <=> Inside(intervals[e[1]], e[2]) \/ e[2] = d[2]
        BY <1>2, <3>1, <3>4
      <4> QED
        BY <3>1, <3>2, <3>3, <3>4, <4>1, <4>2
    <3>5. CASE e[1] # d[1]
      <4>1. intervals'[e[1]] = intervals[e[1]]
        BY <2>1, <3>1, <3>5
      <4> QED
        BY <3>1, <3>2, <3>3, <3>5, <4>1
    <3> QED
      BY <3>4, <3>5
  <2> QED
    BY <1>4, <2>2, <2>3, <2>4 DEF IInv, TypeOK, Remembered
<1>5. CASE capacityReached' = TRUE /\ UNCHANGED intervals
  BY <1>5 DEF IInv, TypeOK, RangesNormal, Remembered
<1> QED
  BY <1>3, <1>4, <1>5

\* A step that asks for one number to be remembered.
LEMMA RememberKeeps ==
    ASSUME IInv, NEW d \in Descriptors, Remember(d),
           asked' = asked \cup {d}, UNCHANGED legacy
    PROVE  /\ RangesNormal' /\ NothingElseRefused' /\ ClosedIsRefused'
           /\ intervals' \in [Scopes -> Seq(Interval)] /\ capacityReached' \in BOOLEAN
<1>1. /\ intervals' \in [Scopes -> Seq(Interval)] /\ RangesNormal' /\ capacityReached' \in BOOLEAN
      /\ Remembered(d)
  BY RememberIsUnion
<1>2. UNCHANGED intervals => \A e \in Descriptors : Ended(e)' <=> Ended(e)
  BY DEF Ended
<1>3. NothingElseRefused'
  BY <1>1, <1>2 DEF NothingElseRefused, IInv, Remembered
<1>4. ClosedIsRefused'
  BY <1>1, <1>2 DEF ClosedIsRefused, IInv, Remembered
<1> QED
  BY <1>1, <1>3, <1>4

\* What only changes other state.
LEMMA LedgerKept ==
    ASSUME IInv, UNCHANGED <<legacy, intervals>>, asked \subseteq asked',
           capacityReached' = TRUE \/ UNCHANGED <<asked, capacityReached>>
    PROVE  RangesNormal' /\ NothingElseRefused' /\ ClosedIsRefused'
<1>1. \A e \in Descriptors : Ended(e)' <=> Ended(e)
  BY DEF Ended
<1>2. RangesNormal'
  BY DEF IInv, RangesNormal
<1>3. NothingElseRefused'
  BY <1>1 DEF IInv, NothingElseRefused
<1>4. ClosedIsRefused'
  BY <1>1 DEF IInv, ClosedIsRefused
<1> QED
  BY <1>2, <1>3, <1>4

LEMMA EmptyLedger ==
    ASSUME intervals = [s \in Scopes |-> <<>>]
    PROVE  /\ intervals \in [Scopes -> Seq(Interval)] /\ RangesNormal
           /\ \A d \in Descriptors : ~Ended(d)
<1>1. \A s \in Scopes : intervals[s] = <<>>
  OBVIOUS
<1>2. \A d \in Descriptors : d[1] \in Scopes /\ d[2] \in 1..MaxNumber
  BY DEF Descriptors
<1>3. RangesNormal
  BY <1>1 DEF RangesNormal, IsNormal
<1>4. \A d \in Descriptors : ~Ended(d)
  BY <1>1, <1>2, NothingInside DEF Ended
<1> QED
  BY <1>3, <1>4

LEMMA InitHolds == Init => IInv
<1> SUFFICES ASSUME Init PROVE IInv
  OBVIOUS
<1>1. /\ intervals \in [Scopes -> Seq(Interval)] /\ RangesNormal
      /\ \A d \in Descriptors : ~Ended(d)
  BY EmptyLedger DEF Init
<1>2. TypeOK
  BY <1>1 DEF Init, TypeOK
<1>3. NothingElseRefused /\ ClosedIsRefused
  BY <1>1 DEF Init, NothingElseRefused, ClosedIsRefused
<1> QED
  BY <1>1, <1>2, <1>3 DEF IInv

LEMMA StepHolds == IInv /\ [Next]_vars => IInv'
<1> SUFFICES ASSUME IInv, [Next]_vars PROVE IInv'
  OBVIOUS
<1>0. \A k \in Subjects : SourceOf[k] \in Sources
  BY LedgerAssumption
<1>1. ASSUME NEW k \in Subjects, NEW d \in DescriptorsOf(k), Admit(k, d) PROVE IInv'
  <2>1. TypeOK'
    BY <1>0, <1>1 DEF Admit, IInv, TypeOK, DescriptorsOf
  <2> QED
    BY <1>1, <2>1, LedgerKept DEF Admit, IInv
<1>2. ASSUME NEW k \in Subjects, NEW d \in DescriptorsOf(k), NoRoom(k, d) PROVE IInv'
  <2>1. TypeOK'
    BY <1>0, <1>2 DEF NoRoom, IInv, TypeOK, DescriptorsOf
  <2> QED
    BY <1>2, <2>1, LedgerKept DEF NoRoom, IInv
<1>3. ASSUME NEW k \in Subjects, NEW d \in DescriptorsOf(k), Close(k, d) PROVE IInv'
  <2>1. d \in Descriptors
    BY DEF DescriptorsOf
  <2>2. /\ RangesNormal' /\ NothingElseRefused' /\ ClosedIsRefused'
        /\ intervals' \in [Scopes -> Seq(Interval)] /\ capacityReached' \in BOOLEAN
    BY <1>3, <2>1, RememberKeeps DEF Close
  <2>3. TypeOK'
    BY <1>0, <1>3, <2>1, <2>2 DEF Close, IInv, TypeOK
  <2> QED
    BY <2>2, <2>3 DEF IInv
<1>4. ASSUME NEW k \in Subjects, Add(k) PROVE IInv'
  <2>1. active[k] \in Descriptors
    BY <1>4 DEF Add, IInv, TypeOK
  <2>2. /\ RangesNormal' /\ NothingElseRefused' /\ ClosedIsRefused'
        /\ intervals' \in [Scopes -> Seq(Interval)] /\ capacityReached' \in BOOLEAN
    BY <1>4, <2>1, RememberKeeps DEF Add
  <2>3. TypeOK'
    BY <1>4, <2>1, <2>2 DEF Add, IInv, TypeOK
  <2> QED
    BY <2>2, <2>3 DEF IInv
<1>5. ASSUME NEW k \in Subjects, AddLegacy(k) PROVE IInv'
  <2>1. /\ asked' = asked \cup {k} /\ UNCHANGED <<intervals, active, sources>>
        /\ \/ capacityReached' = TRUE /\ UNCHANGED legacy
           \/ legacy' = legacy \cup {k} /\ UNCHANGED capacityReached
    BY <1>5 DEF AddLegacy
  <2>2. \A e \in Descriptors : Ended(e)' <=> Ended(e)
    BY <2>1 DEF Ended
  <2>3. RangesNormal' /\ TypeOK'
    BY <2>1 DEF IInv, RangesNormal, TypeOK
  <2>4. NothingElseRefused'
    BY <2>1, <2>2 DEF IInv, NothingElseRefused
  <2>5. ClosedIsRefused'
    BY <2>1, <2>2 DEF IInv, ClosedIsRefused
  <2> QED
    BY <2>3, <2>4, <2>5 DEF IInv
<1>6. ASSUME NEW K \in SUBSET Active, Forget(K) PROVE IInv'
  <2>1. TypeOK'
    BY <1>6 DEF Forget, IInv, TypeOK
  <2> QED
    BY <1>6, <2>1, LedgerKept DEF Forget, IInv
<1>7. ASSUME Clear PROVE IInv'
  <2>1. /\ intervals' \in [Scopes -> Seq(Interval)] /\ RangesNormal'
        /\ \A d \in Descriptors : ~Ended(d)'
    <3>1. \A s \in Scopes : intervals'[s] = <<>>
      BY <1>7 DEF Clear
    <3>2. \A d \in Descriptors : d[1] \in Scopes /\ d[2] \in 1..MaxNumber
      BY DEF Descriptors
    <3>3. RangesNormal'
      BY <3>1 DEF RangesNormal, IsNormal
    <3>4. \A d \in Descriptors : ~Ended(d)'
      BY <3>1, <3>2, NothingInside DEF Ended
    <3> QED
      BY <1>7, <3>3, <3>4 DEF Clear
  <2>2. TypeOK'
    BY <1>7, <2>1 DEF Clear, TypeOK
  <2>3. NothingElseRefused' /\ ClosedIsRefused'
    BY <1>7, <2>1 DEF Clear, NothingElseRefused, ClosedIsRefused
  <2> QED
    BY <2>1, <2>2, <2>3 DEF IInv
<1>8. CASE UNCHANGED vars
  <2>1. TypeOK'
    BY <1>8 DEF vars, IInv, TypeOK
  <2> QED
    BY <1>8, <2>1, LedgerKept DEF vars, IInv
<1> QED
  BY <1>1, <1>2, <1>3, <1>4, <1>5, <1>6, <1>7, <1>8 DEF Next

\* Types, the shape of the ranges, and the ledger's set as what was to be closed, hold
\* together after every operation.
THEOREM Invariance == Spec => []IInv
<1> QED
  BY InitHolds, StepHolds, PTL DEF Spec

\* The state of the ledger has its type.
THEOREM TypeCorrect == Spec => []TypeOK
<1> QED
  BY Invariance, PTL DEF IInv

\* However the numbers of a scope are closed, its ranges stay in order and apart.
THEOREM RangesStayNormal == Spec => []RangesNormal
<1> QED
  BY Invariance, PTL DEF IInv

\* Merging ranges never closes a number that add() was not called for.
THEOREM NoNumberClosedByMerging == Spec => []NothingElseRefused
<1> QED
  BY Invariance, PTL DEF IInv

\* A subject that was closed is refused until the ledger is cleared, unless the ledger
\* says that it ran out of room.
THEOREM ClosedStaysRefused == Spec => []ClosedIsRefused
<1> QED
  BY Invariance, PTL DEF IInv

(***************************************************************************)
(* The ledger implements the set.                                          *)
(***************************************************************************)
LEMMA RememberRefines ==
    ASSUME IInv, NEW d \in Descriptors, Remember(d), UNCHANGED legacy,
           asked' = asked \cup {d}
    PROVE  Contract!Next
<1>1. Remembered(d)
  BY RememberIsUnion
<1>2. CASE UNCHANGED capacityReached /\ \A e \in Descriptors : Ended(e)' <=> Ended(e) \/ e = d
  <2>1. Refuses' = Refuses \cup {d}
    BY <1>2 DEF Refuses
  <2> QED
    BY <1>2, <2>1 DEF Contract!Next, Contract!Close
<1>3. CASE capacityReached' = TRUE /\ UNCHANGED intervals
  <2>1. Refuses' = Refuses
    BY <1>3 DEF Refuses, Ended
  <2> QED
    BY <1>3, <2>1 DEF Contract!Next, Contract!Close
<1> QED
  BY <1>1, <1>2, <1>3 DEF Remembered

LEMMA InitRefines == Init => Contract!Init
<1> SUFFICES ASSUME Init PROVE Contract!Init
  OBVIOUS
<1>1. \A d \in Descriptors : ~Ended(d)
  BY EmptyLedger DEF Init
<1> QED
  BY <1>1 DEF Init, Contract!Init, Refuses

LEMMA StepRefines == IInv /\ [Next]_vars => [Contract!Next]_(Contract!vars)
<1> SUFFICES ASSUME IInv, [Next]_vars PROVE Contract!Next \/ UNCHANGED <<asked, Refuses, capacityReached>>
  BY DEF Contract!vars
<1>0. UNCHANGED <<legacy, intervals>> => Refuses' = Refuses
  BY DEF Refuses, Ended
<1>1. ASSUME NEW k \in Subjects, NEW d \in DescriptorsOf(k), Admit(k, d) \/ NoRoom(k, d)
      PROVE  Contract!Next \/ UNCHANGED <<asked, Refuses, capacityReached>>
  <2>1. d \in Descriptors
    BY DEF DescriptorsOf
  <2>2. CASE Admit(k, d)
    BY <1>0, <2>2 DEF Admit
  <2>3. CASE NoRoom(k, d) /\ asked' = asked
    BY <1>0, <2>3 DEF NoRoom, Contract!Next, Contract!Fill
  <2>4. CASE NoRoom(k, d) /\ asked' = asked \cup {d}
    BY <1>0, <2>1, <2>4 DEF NoRoom, Contract!Next, Contract!Close
  <2> QED
    BY <1>1, <2>2, <2>3, <2>4 DEF NoRoom
<1>2. ASSUME NEW k \in Subjects, NEW d \in DescriptorsOf(k), Close(k, d) PROVE Contract!Next
  BY <1>2, RememberRefines DEF Close, DescriptorsOf
<1>3. ASSUME NEW k \in Subjects, Add(k) PROVE Contract!Next
  <2>1. active[k] \in Descriptors
    BY <1>3 DEF Add, IInv, TypeOK
  <2> QED
    BY <1>3, <2>1, RememberRefines DEF Add
<1>4. ASSUME NEW k \in Subjects, AddLegacy(k) PROVE Contract!Next
  <2>1. CASE capacityReached' = TRUE /\ UNCHANGED legacy
    BY <1>0, <1>4, <2>1 DEF AddLegacy, Contract!Next, Contract!Close
  <2>2. CASE legacy' = legacy \cup {k} /\ UNCHANGED capacityReached
    <3>1. Refuses' = Refuses \cup {k}
      BY <1>4, <2>2 DEF AddLegacy, Refuses, Ended
    <3> QED
      BY <1>4, <2>2, <3>1 DEF AddLegacy, Contract!Next, Contract!Close
  <2> QED
    BY <1>4, <2>1, <2>2 DEF AddLegacy
<1>5. ASSUME NEW K \in SUBSET Active, Forget(K) PROVE UNCHANGED <<asked, Refuses, capacityReached>>
  BY <1>0, <1>5 DEF Forget
<1>6. ASSUME Clear PROVE Contract!Next
  <2>1. \A d \in Descriptors : d[1] \in Scopes /\ d[2] \in 1..MaxNumber
    BY DEF Descriptors
  <2>2. \A s \in Scopes : intervals'[s] = <<>>
    BY <1>6 DEF Clear
  <2>3. \A d \in Descriptors : ~Ended(d)'
    BY <2>1, <2>2, NothingInside DEF Ended
  <2>4. Refuses' = {}
    BY <1>6, <2>3 DEF Clear, Refuses
  <2> QED
    BY <1>6, <2>4 DEF Clear, Contract!Next, Contract!Clear
<1>7. CASE UNCHANGED vars
  BY <1>0, <1>7 DEF vars
<1> QED
  BY <1>1, <1>2, <1>3, <1>4, <1>5, <1>6, <1>7 DEF Next

\* The ledger, with its ranges, its names and its bound, implements a set that only grows
\* until it is cleared, and that says so in the same step when it loses a name.
THEOREM ImplementsClosedSet == Spec => KeepsContract
<1> QED
  BY Invariance, InitRefines, StepRefines, PTL DEF Spec, KeepsContract, Contract!Spec
=============================================================================
