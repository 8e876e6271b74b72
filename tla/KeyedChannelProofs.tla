------------------------- MODULE KeyedChannelProofs -------------------------
(***************************************************************************)
(* What the keyed channel keeps in step by hand, for any policies, streams *)
(* and capacities: its four structures and three counters, the lossless    *)
(* edges, and the turn of each stream.                                     *)
(*                                                                         *)
(* The inductive invariant has two parts.  Contents is about what is       *)
(* queued: a change of it is a set of envelopes that leaves, one that      *)
(* enters, or both.  Producing is about whose each lifecycle edge is; what *)
(* a policy evicts is never owed.                                          *)
(***************************************************************************)
EXTENDS KeyedChannel, FiniteSetTheorems, WellFoundedInduction, TLAPS

-----------------------------------------------------------------------------
(* The inductive invariant.                                                *)

\* Arrivals and tickets are in the past.
Stamped ==
    /\ IsFiniteSet(queue)
    /\ \A e \in queue : e.arrival < clock
    /\ \A t \in ring : t[2] < clock

\* The places before the one of a stream.
Ahead(k, R) == {u \in R : \E t \in R : t[1] = k /\ u[2] < t[2]}

\* Those that have overtaken a stream and those that still can are other streams,
\* each counted once.
InTurn ==
    \A k \in Keys :
        /\ overtaken[k] < Cardinality(Keys)
        /\ k \in ready => overtaken[k] + Cardinality(Ahead(k, ring)) < Cardinality(Keys)

Contents ==
    /\ queue \in SUBSET Envelope
    /\ ring \in SUBSET (Keys \X Nat) /\ ready \in SUBSET Keys
    /\ depth <= MaxSize /\ others \in Nat /\ clock \in Nat
    /\ overtaken \in [Keys -> Nat]
    /\ Stamped /\ PlacesMatchItems /\ CountersExact /\ InTurn

\* Edges are owed from their put on, and nothing else is.
Numbered ==
    /\ owed \in SUBSET (1..sent)
    /\ \A e \in queue : e.id <= sent /\ (e.id \in owed => e.structural)
    /\ \A p \in Producers : putting[p] # None =>
          putting[p].id <= sent /\ (putting[p].id \in owed => putting[p].structural)

Producing ==
    /\ policy \in Policies /\ revoked \in BOOLEAN
    /\ sent \in 0..MaxPackets
    /\ putting \in [Producers -> Packet \cup {None}]
    /\ waiting \in SUBSET Producers /\ cancelled \in SUBSET Producers
    /\ \A p \in waiting : putting[p] # None
    /\ Numbered /\ EdgesKept

IInv == Contents /\ Producing

-----------------------------------------------------------------------------
(* Sets and counters.                                                      *)

\* A nonempty set of naturals has a least element.
LEMMA LeastNat ==
    ASSUME NEW T \in SUBSET Nat, T # {}
    PROVE  \E m \in T : \A n \in T : m <= n
<1>1. \E x \in T : \A y \in T : ~(<<y, x>> \in OpToRel(<, Nat))
  BY WFMin, NatLessThanWellFounded, Zenon
<1>2. PICK x \in T : \A y \in T : ~(<<y, x>> \in OpToRel(<, Nat))
  BY <1>1
<1>3. \A y \in T : ~(y < x)
  BY <1>2 DEF OpToRel
<1> QED
  BY <1>3

\* First is the envelope that arrived first.
LEMMA FirstIsThere ==
    ASSUME NEW S \in SUBSET Envelope, S # {} PROVE First(S) \in S
<1> DEFINE T == {e.arrival : e \in S}
<1>1. T \in SUBSET Nat /\ T # {}
  BY DEF Envelope
<1>2. PICK m \in T : \A n \in T : m <= n
  BY <1>1, LeastNat
<1>3. \E e \in S : \A f \in S : e.arrival <= f.arrival
  BY <1>2
<1> QED
  BY <1>3 DEF First

\* The bytes of a finite set of envelopes.
LEMMA BytesNat ==
    ASSUME NEW S, IsFiniteSet(S)
    PROVE  IsFiniteSet(ByteCells(S)) /\ BytesOf(S) \in Nat
<1>1. IsFiniteSet(1..MaxBytes)
  BY FS_Interval, KeyedAssumption
<1>2. IsFiniteSet(S \X (1..MaxBytes))
  BY <1>1, FS_Product
<1>3. ByteCells(S) \in SUBSET (S \X (1..MaxBytes))
  BY DEF ByteCells
<1>4. IsFiniteSet(ByteCells(S))
  BY <1>2, <1>3, FS_Subset
<1> QED
  BY <1>4, FS_CardinalityType DEF BytesOf

\* Both counters of a queue that V leaves.
LEMMA CountLeft ==
    ASSUME NEW S, IsFiniteSet(S), NEW V \in SUBSET S
    PROVE  /\ IsFiniteSet(S \ V) /\ IsFiniteSet(V)
           /\ Cardinality(V) \in Nat /\ Cardinality(S) \in Nat /\ Cardinality(V) <= Cardinality(S)
           /\ Cardinality(S \ V) = Cardinality(S) - Cardinality(V)
           /\ BytesOf(V) \in Nat /\ BytesOf(S) \in Nat /\ BytesOf(V) <= BytesOf(S)
           /\ BytesOf(S \ V) = BytesOf(S) - BytesOf(V)
<1>1. IsFiniteSet(V) /\ Cardinality(V) <= Cardinality(S) /\ V = S \cap V
  BY FS_Subset
<1>2. IsFiniteSet(S \ V) /\ Cardinality(S \ V) = Cardinality(S) - Cardinality(V)
  BY <1>1, FS_Difference
<1>3. ByteCells(V) \in SUBSET ByteCells(S) /\ ByteCells(S \ V) = ByteCells(S) \ ByteCells(V)
  BY DEF ByteCells
<1>4. IsFiniteSet(ByteCells(S)) /\ ByteCells(V) = ByteCells(S) \cap ByteCells(V)
  BY <1>3, BytesNat
<1>5. Cardinality(ByteCells(S) \ ByteCells(V))
        = Cardinality(ByteCells(S)) - Cardinality(ByteCells(V))
  BY <1>4, FS_Difference
<1>6. Cardinality(ByteCells(V)) <= Cardinality(ByteCells(S))
  BY <1>3, <1>4, FS_Subset
<1>7. BytesOf(S \ V) = BytesOf(S) - BytesOf(V) /\ BytesOf(V) <= BytesOf(S)
  BY <1>3, <1>5, <1>6 DEF BytesOf
<1>8. Cardinality(V) \in Nat /\ Cardinality(S) \in Nat /\ BytesOf(V) \in Nat /\ BytesOf(S) \in Nat
  BY <1>1, BytesNat, FS_CardinalityType
<1> QED
  BY <1>1, <1>2, <1>7, <1>8

\* Both counters of a queue that e enters.
LEMMA CountEntered ==
    ASSUME NEW S, IsFiniteSet(S), NEW e, e \notin S, e.bytes \in 0..MaxBytes
    PROVE  /\ IsFiniteSet(S \cup {e})
           /\ Cardinality(S \cup {e}) = Cardinality(S) + 1
           /\ BytesOf(S \cup {e}) = BytesOf(S) + e.bytes
<1>1. IsFiniteSet(S \cup {e}) /\ Cardinality(S \cup {e}) = Cardinality(S) + 1
  BY FS_AddElement
<1> DEFINE cells == {e} \X (1..e.bytes)
<1>2. ByteCells(S \cup {e}) = ByteCells(S) \cup cells
  BY KeyedAssumption DEF ByteCells
<1>3. ByteCells(S) \cap cells = {}
  BY DEF ByteCells
<1>4. IsFiniteSet(1..e.bytes) /\ Cardinality(1..e.bytes) = e.bytes
  BY FS_Interval
<1>5. IsFiniteSet({e}) /\ Cardinality({e}) = 1
  BY FS_Singleton
<1>6. IsFiniteSet(cells) /\ Cardinality(cells) = e.bytes
  <2>1. IsFiniteSet(cells) /\ Cardinality(cells) = Cardinality({e}) * Cardinality(1..e.bytes)
    BY <1>4, <1>5, FS_Product
  <2> QED
    BY <1>4, <1>5, <2>1
<1>7. IsFiniteSet(ByteCells(S)) /\ Cardinality(ByteCells(S)) \in Nat
  BY BytesNat DEF BytesOf
<1>8. Cardinality(ByteCells(S) \cup cells)
        = Cardinality(ByteCells(S)) + Cardinality(cells) - Cardinality(ByteCells(S) \cap cells)
  BY <1>6, <1>7, FS_Union
<1>9. Cardinality(ByteCells(S) \cup cells) = Cardinality(ByteCells(S)) + e.bytes
  <2>1. Cardinality(ByteCells(S) \cap cells) = 0
    BY <1>3, FS_EmptySet
  <2> HIDE DEF cells
  <2> QED
    BY <1>6, <1>7, <1>8, <2>1
<1> QED
  BY <1>1, <1>2, <1>9 DEF BytesOf

\* The streams of a ring that one more place is added to.
LEMMA StreamsOfOneMore ==
    ASSUME NEW R, NEW k, NEW n
    PROVE  {t[1] : t \in R \cup {<<k, n>>}} = {t[1] : t \in R} \cup {k}
<1> DEFINE place == <<k, n>>
<1>1. place[1] = k
  OBVIOUS
<1> HIDE DEF place
<1>2. {t[1] : t \in R \cup {place}} = {t[1] : t \in R} \cup {place[1]}
  OBVIOUS
<1> QED
  BY <1>1, <1>2 DEF place

\* A stream has fewer places before its own than there are streams.
LEMMA AheadIsBounded ==
    ASSUME NEW R \in SUBSET (Keys \X Nat), NEW k \in Keys,
           \A t, u \in R : t[1] = u[1] \/ t[2] = u[2] => t = u
    PROVE  /\ IsFiniteSet(Ahead(k, R)) /\ Cardinality(Ahead(k, R)) \in Nat
           /\ Cardinality(Ahead(k, R)) < Cardinality(Keys)
<1> DEFINE A == Ahead(k, R)
           f == [u \in A |-> u[1]]
           K == Keys \ {k}
<1>1. A \in SUBSET R /\ \A u \in A : u[1] # k
  BY DEF Ahead
<1> HIDE DEF A
<1>2. IsFiniteSet(K) /\ Cardinality(K) = Cardinality(Keys) - 1 /\ Cardinality(Keys) \in Nat
  BY KeyedAssumption, FS_RemoveElement, FS_CardinalityType
<1>3. f \in Injection(A, K)
  BY <1>1 DEF Injection, IsInjective
<1>4. IsFiniteSet(A) /\ Cardinality(A) <= Cardinality(K)
  BY <1>2, <1>3, FS_Injection
<1> QED
  BY <1>2, <1>4, FS_CardinalityType DEF A

-----------------------------------------------------------------------------
(* The contents.                                                           *)

\* What leaves the queue of a stream with its last envelope is its place.
LEMMA LeaveKeeps ==
    ASSUME Contents, NEW V \in SUBSET queue, Leave(V),
           UNCHANGED <<others, clock, overtaken>>
    PROVE  Contents'
<1> USE KeyedAssumption DEF Contents
<1>1. KeysOf(queue') = ready'
  BY DEF Leave, KeysOf, Emptied, PlacesMatchItems
<1>2. PlacesMatchItems'
  BY <1>1 DEF Leave, PlacesMatchItems, Emptied, KeysOf
<1>3. CountersExact' /\ depth' <= MaxSize
  <2>1. /\ Cardinality(V) \in Nat /\ Cardinality(queue) \in Nat
        /\ Cardinality(V) <= Cardinality(queue)
        /\ Cardinality(queue \ V) = Cardinality(queue) - Cardinality(V)
        /\ BytesOf(V) \in Nat /\ BytesOf(queue) \in Nat /\ BytesOf(V) <= BytesOf(queue)
        /\ BytesOf(queue \ V) = BytesOf(queue) - BytesOf(V)
    BY CountLeft DEF Stamped
  <2> QED
    BY <2>1 DEF Leave, CountersExact, Released, Monus
<1>4. Stamped'
  BY CountLeft DEF Leave, Stamped
<1>5. InTurn'
  <2> SUFFICES ASSUME NEW k \in Keys, k \in ready'
               PROVE  overtaken[k] + Cardinality(Ahead(k, ring')) < Cardinality(Keys)
    BY DEF InTurn
  <2>1. k \in ready /\ ring' \subseteq ring
    BY DEF Leave
  <2>2. Ahead(k, ring') \in SUBSET Ahead(k, ring)
    BY <2>1 DEF Ahead
  <2>3. IsFiniteSet(Ahead(k, ring)) /\ Cardinality(Ahead(k, ring)) \in Nat
    BY AheadIsBounded DEF PlacesMatchItems
  <2>4. /\ Cardinality(Ahead(k, ring')) <= Cardinality(Ahead(k, ring))
        /\ Cardinality(Ahead(k, ring')) \in Nat
    BY <2>2, <2>3, FS_Subset, FS_CardinalityType
  <2>5. Cardinality(Keys) \in Nat
    BY FS_CardinalityType
  <2> QED
    BY <2>1, <2>3, <2>4, <2>5 DEF InTurn
<1> QED
  BY <1>2, <1>3, <1>4, <1>5 DEF Leave

\* What enters is the youngest, and a stream that takes a place takes the last one.
LEMMA EnterKeeps ==
    ASSUME Contents, NEW V \in SUBSET queue, NEW packet \in Packet, HasRoom(V),
           LeaveAndEnter(V, packet), UNCHANGED others
    PROVE  Contents'
<1> USE KeyedAssumption DEF Contents
<1> DEFINE e == Enveloped(packet)
<1>1. e \in Envelope /\ e \notin queue /\ e.key = packet.key /\ e.bytes = packet.bytes
      /\ e.arrival = clock /\ packet.bytes \in 0..MaxBytes /\ packet.key \in Keys
  BY DEF Enveloped, Envelope, Packet, Stamped
<1> HIDE DEF e
<1>2. queue' = (queue \ V) \cup {e} /\ clock' = clock + 1
  BY DEF LeaveAndEnter, e
<1> DEFINE kept == ready \ Emptied(V)
           place == {t \in ring : t[1] \notin Emptied(V)}
<1>3. kept = KeysOf(queue \ V) /\ kept = {t[1] : t \in place}
  BY DEF KeysOf, Emptied, PlacesMatchItems
<1>4. /\ ready' = kept \cup {packet.key}
      /\ ring' = IF packet.key \in kept THEN place ELSE place \cup {<<packet.key, clock>>}
      /\ place \subseteq ring
  BY DEF LeaveAndEnter
<1>5. PlacesMatchItems'
  <2> HIDE DEF kept, place
  <2>1. KeysOf(queue') = KeysOf(queue \ V) \cup {packet.key}
    BY <1>1, <1>2 DEF KeysOf
  <2>2. {t[1] : t \in ring'} = {t[1] : t \in place} \cup {packet.key}
    <3>1. CASE packet.key \in kept
      BY <1>3, <1>4, <3>1
    <3>2. CASE packet.key \notin kept
      <4>1. ring' = place \cup {<<packet.key, clock>>}
        BY <1>4, <3>2
      <4> QED
        BY <4>1, StreamsOfOneMore
    <3> QED
      BY <3>1, <3>2
  <2>3. \A t, u \in ring' : t[1] = u[1] \/ t[2] = u[2] => t = u
    BY <1>3, <1>4 DEF PlacesMatchItems, Stamped
  <2> QED
    BY <1>3, <1>4, <2>1, <2>2, <2>3 DEF PlacesMatchItems
<1>6. CountersExact' /\ depth' <= MaxSize
  <2>1. /\ IsFiniteSet(queue \ V) /\ e \notin queue \ V
        /\ Cardinality(queue \ V) = Cardinality(queue) - Cardinality(V)
        /\ BytesOf(queue \ V) = BytesOf(queue) - BytesOf(V)
        /\ BytesOf(V) <= BytesOf(queue) /\ BytesOf(V) \in Nat /\ BytesOf(queue) \in Nat
        /\ Cardinality(V) \in Nat /\ Cardinality(queue) \in Nat
    BY <1>1, CountLeft DEF Stamped
  <2>2. /\ Cardinality(queue') = Cardinality(queue) - Cardinality(V) + 1
        /\ BytesOf(queue') = BytesOf(queue) - BytesOf(V) + packet.bytes
    BY <1>1, <1>2, <2>1, CountEntered
  <2> QED
    BY <1>1, <2>1, <2>2 DEF LeaveAndEnter, CountersExact, Released, Monus, HasRoom
<1>7. Stamped'
  <2>1. IsFiniteSet(queue \ V)
    BY CountLeft DEF Stamped
  <2>2. IsFiniteSet(queue')
    BY <1>2, <2>1, FS_AddElement
  <2>3. \A x \in queue' : x.arrival < clock'
    BY <1>1, <1>2 DEF Stamped, Envelope
  <2>4. \A t \in ring' : t[2] < clock'
    BY <1>2, <1>4 DEF Stamped
  <2> QED
    BY <2>2, <2>3, <2>4 DEF Stamped
<1>8. InTurn'
  <2>1. Cardinality(Keys) \in Nat /\ Cardinality(Keys) > 0
    BY <1>1, FS_CardinalityType, FS_EmptySet
  <2> SUFFICES ASSUME NEW k \in Keys
               PROVE  /\ overtaken'[k] < Cardinality(Keys)
                      /\ k \in ready' =>
                            overtaken'[k] + Cardinality(Ahead(k, ring')) < Cardinality(Keys)
    BY DEF InTurn
  <2>2. CASE k = packet.key /\ k \notin ready \ Emptied(V)
    <3>1. overtaken'[k] = 0
      BY <2>2 DEF LeaveAndEnter
    <3>2. ring' \in SUBSET (Keys \X Nat)
      BY <1>1 DEF LeaveAndEnter
    <3>3. Cardinality(Ahead(k, ring')) < Cardinality(Keys) /\ Cardinality(Ahead(k, ring')) \in Nat
      BY <1>5, <3>2, AheadIsBounded DEF PlacesMatchItems
    <3> QED
      BY <2>1, <3>1, <3>3
  <2>3. CASE k \in ready \ Emptied(V)
    <3>1. overtaken'[k] = overtaken[k]
      BY <2>3 DEF LeaveAndEnter
    <3>2. Ahead(k, ring') \in SUBSET Ahead(k, ring)
      BY <1>1, <2>3 DEF Ahead, LeaveAndEnter, Stamped
    <3>3. IsFiniteSet(Ahead(k, ring)) /\ Cardinality(Ahead(k, ring)) \in Nat
      BY AheadIsBounded DEF PlacesMatchItems
    <3>4. /\ Cardinality(Ahead(k, ring')) <= Cardinality(Ahead(k, ring))
          /\ Cardinality(Ahead(k, ring')) \in Nat
      BY <3>2, <3>3, FS_Subset, FS_CardinalityType
    <3> QED
      BY <2>1, <2>3, <3>1, <3>3, <3>4 DEF InTurn
  <2>4. CASE k # packet.key /\ k \notin ready \ Emptied(V)
    BY <2>4 DEF LeaveAndEnter, InTurn
  <2> QED
    BY <2>2, <2>3, <2>4
<1> QED
  BY <1>1, <1>2, <1>5, <1>6, <1>7, <1>8 DEF LeaveAndEnter

\* The turn of the stream whose place is the first.
LEMMA TurnHolds ==
    ASSUME Contents, Get
    PROVE  /\ Turn \in ring /\ Turn[1] \in Keys /\ Turn[1] \in KeysOf(queue)
           /\ \A u \in ring : u # Turn => Turn[2] < u[2]
<1> USE DEF Contents
<1> DEFINE held == {t \in ring : t[1] \in KeysOf(queue)}
           T == {t[2] : t \in held}
<1>1. T \in SUBSET Nat /\ T # {}
  BY DEF Get
<1>2. PICK m \in T : \A n \in T : m <= n
  BY <1>1, LeastNat
<1>3. \E t \in held : \A u \in held : t[2] <= u[2]
  BY <1>2
<1>4. Turn \in held /\ \A u \in held : Turn[2] <= u[2]
  BY <1>3 DEF Turn
<1>5. held = ring
  BY DEF PlacesMatchItems
<1> QED
  BY <1>4, <1>5 DEF PlacesMatchItems

\* Whoever is served goes to the end of the ring, or leaves it.
LEMMA GetKeeps ==
    ASSUME Contents, Get PROVE Contents'
<1> USE KeyedAssumption DEF Contents
<1> DEFINE k0 == Turn[1]
           e == First(Of(k0, queue))
           more == Of(k0, queue) # {e}
<1>1. /\ Turn \in ring /\ k0 \in Keys /\ k0 \in KeysOf(queue)
      /\ \A u \in ring : u # Turn => Turn[2] < u[2]
  BY TurnHolds
<1>2. e \in queue /\ e.key = k0 /\ e.bytes \in 0..MaxBytes
  BY <1>1, FirstIsThere DEF Of, KeysOf, Envelope
<1>3. /\ queue' = queue \ {e} /\ depth' = depth - 1
      /\ bytes' = Monus(bytes, e.bytes) /\ used' = Monus(used, e.bytes)
      /\ clock' = clock + 1 /\ others' = others
      /\ ring' = PlacesAfter(Turn, more)
      /\ ready' = {u[1] : u \in Behind(Turn)} \cup (IF more THEN {k0} ELSE {})
      /\ overtaken' = [k \in Keys |-> IF k = k0 THEN 0
                                      ELSE IF k \in KeysOf(queue) THEN overtaken[k] + 1 ELSE 0]
  BY <1>2 DEF Get
<1>4. Behind(Turn) = ring \ {Turn}
  BY <1>1 DEF Behind
<1>5. ring' = (ring \ {Turn}) \cup (IF more THEN {<<k0, clock>>} ELSE {})
  BY <1>3, <1>4 DEF PlacesAfter
<1>6. more <=> \E f \in queue' : f.key = k0
  BY <1>2, <1>3 DEF Of
<1> HIDE DEF more, e, k0
<1>7. ready' = KeysOf(queue')
  <2>1. {u[1] : u \in ring \ {Turn}} = KeysOf(queue) \ {k0}
    BY <1>1 DEF PlacesMatchItems, k0
  <2>2. KeysOf(queue') = (KeysOf(queue) \ {k0}) \cup (IF more THEN {k0} ELSE {})
    BY <1>2, <1>3, <1>6 DEF KeysOf
  <2> QED
    BY <1>3, <1>4, <2>1, <2>2
<1>8. PlacesMatchItems'
  <2>1. ready' = {t[1] : t \in ring'}
    <3> DEFINE rest == ring \ {Turn}
    <3>1. ready' = {u[1] : u \in rest} \cup (IF more THEN {k0} ELSE {})
      BY <1>3, <1>4
    <3>2. ring' = rest \cup (IF more THEN {<<k0, clock>>} ELSE {})
      BY <1>5
    <3> HIDE DEF rest
    <3>3. CASE more
      <4>1. ready' = {u[1] : u \in rest} \cup {k0} /\ ring' = rest \cup {<<k0, clock>>}
        BY <3>1, <3>2, <3>3
      <4> QED
        BY <4>1, StreamsOfOneMore
    <3>4. CASE ~more
      BY <3>1, <3>2, <3>4
    <3> QED
      BY <3>3, <3>4
  <2>2. \A t, u \in ring' : t[1] = u[1] \/ t[2] = u[2] => t = u
    BY <1>1, <1>5 DEF PlacesMatchItems, Stamped, k0
  <2> QED
    BY <1>7, <2>1, <2>2 DEF PlacesMatchItems
<1>9. CountersExact' /\ depth' <= MaxSize
  <2>1. BytesOf({e}) = e.bytes /\ Cardinality({e}) = 1
    <3>1. {e} = {} \cup {e} /\ IsFiniteSet({}) /\ Cardinality({}) = 0
      BY FS_EmptySet
    <3>2. BytesOf({}) = 0
      BY FS_EmptySet DEF BytesOf, ByteCells
    <3> QED
      BY <1>2, <3>1, <3>2, CountEntered
  <2>2. /\ Cardinality(queue') = Cardinality(queue) - 1
        /\ BytesOf(queue') = BytesOf(queue) - e.bytes
        /\ e.bytes <= BytesOf(queue) /\ BytesOf(queue) \in Nat /\ Cardinality(queue) \in Nat
    BY <1>2, <1>3, <2>1, CountLeft DEF Stamped
  <2> QED
    BY <1>2, <1>3, <2>2 DEF CountersExact, Monus
<1>10. Stamped'
  <2>1. IsFiniteSet(queue')
    BY <1>3, FS_RemoveElement DEF Stamped
  <2>2. \A f \in queue' : f.arrival < clock'
    BY <1>3 DEF Stamped, Envelope
  <2>3. \A t \in ring' : t[2] < clock'
    BY <1>3, <1>5 DEF Stamped
  <2> QED
    BY <2>1, <2>2, <2>3 DEF Stamped
<1>11. ring' \in SUBSET (Keys \X Nat) /\ ready' \in SUBSET Keys
  BY <1>1, <1>3, <1>4, <1>5
<1>12. InTurn'
  <2>1. Cardinality(Keys) \in Nat /\ Cardinality(Keys) > 0
    BY <1>1, FS_CardinalityType, FS_EmptySet
  <2> SUFFICES ASSUME NEW k \in Keys
               PROVE  /\ overtaken'[k] < Cardinality(Keys)
                      /\ k \in ready' =>
                            overtaken'[k] + Cardinality(Ahead(k, ring')) < Cardinality(Keys)
    BY DEF InTurn
  <2>2. CASE k = k0
    <3>1. overtaken'[k] = 0
      BY <1>3, <2>2
    <3>2. Cardinality(Ahead(k, ring')) < Cardinality(Keys) /\ Cardinality(Ahead(k, ring')) \in Nat
      BY <1>8, <1>11, AheadIsBounded DEF PlacesMatchItems
    <3> QED
      BY <2>1, <3>1, <3>2
  <2>3. CASE k # k0 /\ k \in ready
    <3>1. overtaken'[k] = overtaken[k] + 1
      BY <1>3, <2>3 DEF PlacesMatchItems
    <3>2. Turn \in Ahead(k, ring)
      BY <1>1, <2>3 DEF Ahead, PlacesMatchItems, k0
    <3>3. Ahead(k, ring') \in SUBSET (Ahead(k, ring) \ {Turn})
      BY <1>5, <1>11, <2>3 DEF Ahead, Stamped
    <3>4. IsFiniteSet(Ahead(k, ring)) /\ Cardinality(Ahead(k, ring)) \in Nat
      BY AheadIsBounded DEF PlacesMatchItems
    <3>5. /\ IsFiniteSet(Ahead(k, ring) \ {Turn})
          /\ Cardinality(Ahead(k, ring) \ {Turn}) = Cardinality(Ahead(k, ring)) - 1
      BY <3>2, <3>4, FS_RemoveElement
    <3>6. /\ Cardinality(Ahead(k, ring')) <= Cardinality(Ahead(k, ring)) - 1
          /\ Cardinality(Ahead(k, ring')) \in Nat
      BY <3>3, <3>5, FS_Subset, FS_CardinalityType
    <3> QED
      BY <2>1, <2>3, <3>1, <3>4, <3>6 DEF InTurn
  <2>4. CASE k # k0 /\ k \notin ready
    <3>1. overtaken'[k] = 0
      BY <1>3, <2>4 DEF PlacesMatchItems
    <3>2. k \notin ready'
      BY <1>3, <1>4, <2>4 DEF PlacesMatchItems
    <3> QED
      BY <2>1, <3>1, <3>2
  <2> QED
    BY <2>2, <2>3, <2>4
<1> QED
  BY <1>1, <1>3, <1>8, <1>9, <1>10, <1>11, <1>12

\* An empty channel.
LEMMA ClearKeeps ==
    ASSUME Contents, Clear PROVE Contents'
<1> USE KeyedAssumption DEF Contents, Clear
<1>1. PlacesMatchItems'
  BY DEF PlacesMatchItems, KeysOf
<1>2. CountersExact'
  <2>1. ByteCells({}) = {} /\ BytesOf(queue) \in Nat
    BY BytesNat DEF ByteCells, Stamped
  <2>2. BytesOf({}) = 0 /\ Cardinality({}) = 0
    BY <2>1, FS_EmptySet DEF BytesOf
  <2> QED
    BY <2>1, <2>2 DEF CountersExact, ClearedUsed, Monus
<1>3. Stamped' /\ InTurn'
  BY FS_EmptySet DEF Stamped, InTurn
<1> QED
  BY <1>1, <1>2, <1>3

-----------------------------------------------------------------------------
(* Whose the edges are.                                                    *)

\* What a policy evicts are updates.
LEMMA VictimsAreUpdates ==
    ASSUME NEW packet \in Packet, NEW S \in SUBSET Envelope
    PROVE  Victims(packet, S) \subseteq Droppable(S)
<1> SUFFICES ASSUME Droppable(S) # {} PROVE Victims(packet, S) \subseteq Droppable(S)
  BY DEF Victims
<1> DEFINE U == Droppable(S)
           first == {First(Of(k, U)) : k \in KeysOf(U)}
           k1 == IF Droppable(Of(packet.key, S)) # {} THEN packet.key ELSE OldestKey(S)
<1>1. U \in SUBSET Envelope /\ U # {}
  BY DEF Droppable
<1>2. \A k \in KeysOf(U) : First(Of(k, U)) \in Of(k, U)
  BY <1>1, FirstIsThere DEF Of, KeysOf
<1>3. first # {} /\ first \subseteq U
  <2>1. PICK x \in U : TRUE
    BY <1>1
  <2>2. x.key \in KeysOf(U)
    BY <2>1 DEF KeysOf
  <2>3. \A k \in KeysOf(U) : First(Of(k, U)) \in U
    BY <1>2 DEF Of
  <2> QED
    BY <2>2, <2>3
<1>4. OldestKey(S) \in KeysOf(U)
  <2> DEFINE T == {e.id : e \in first}
  <2>1. T \in SUBSET Nat /\ T # {}
    BY <1>1, <1>3 DEF Envelope
  <2>2. PICK m \in T : \A n \in T : m <= n
    BY <2>1, LeastNat
  <2>3. \E e \in first : \A f \in first : e.id <= f.id
    BY <2>2
  <2>4. (CHOOSE e \in first : \A f \in first : e.id <= f.id) \in U
    BY <1>3, <2>3
  <2> QED
    BY <2>4 DEF OldestKey, KeysOf
<1>5. Droppable(Of(k1, S)) # {} /\ Droppable(Of(k1, S)) \subseteq U
  BY <1>4 DEF Droppable, Of, KeysOf
<1>6. First(Droppable(Of(k1, S))) \in U
  BY <1>1, <1>5, FirstIsThere
<1> QED
  BY <1>5, <1>6 DEF Victims

\* What is superseded too.
LEMMA SupersededAreUpdates ==
    ASSUME NEW packet \in Packet PROVE Superseded(packet) \subseteq Droppable(queue)
BY DEF Superseded, Droppable, Of

\* Updates leave, and put() goes on.
LEMMA EvictionKeepsOwed ==
    ASSUME Contents, Producing, NEW V \in SUBSET Droppable(queue), queue' = queue \ V,
           UNCHANGED <<policy, revoked, sent, putting, cancelled, owed>>,
           waiting' \subseteq waiting
    PROVE  Producing'
<1> USE DEF Producing
<1>1. Numbered'
  BY DEF Numbered
<1>2. EdgesKept'
  BY DEF EdgesKept, Numbered, Droppable
<1> QED
  BY <1>1, <1>2

-----------------------------------------------------------------------------
(* The steps.                                                              *)

\* A put() at work carries a packet.
LEMMA TypeOfPut ==
    ASSUME Producing, NEW p \in Producers, putting[p] # None
    PROVE  putting[p] \in Packet
BY DEF Producing

\* Its edge is owed from then on.
LEMMA PutKeeps ==
    ASSUME IInv, NEW p \in Producers, NEW k \in Keys, NEW s \in BOOLEAN, NEW n \in 0..MaxBytes,
           Put(p, k, s, n)
    PROVE  IInv'
<1> USE KeyedAssumption DEF IInv, Put
<1> DEFINE new == [id |-> sent + 1, key |-> k, structural |-> s, bytes |-> n]
<1>1. new \in Packet /\ new # None /\ new.id = sent + 1 /\ new.structural = s
  BY NoPacketAssumption DEF Packet, Producing
<1>2. putting' = [putting EXCEPT ![p] = new] /\ sent' = sent + 1
  BY DEF new
<1> HIDE DEF new
<1>3. Contents'
  BY DEF Contents, contentVars, Stamped, PlacesMatchItems, CountersExact, InTurn
<1>4. putting' \in [Producers -> Packet \cup {None}] /\ \A q \in waiting' : putting'[q] # None
  BY <1>1, <1>2 DEF Producing
<1>5. Numbered'
  <2>1. owed' \in SUBSET (1..sent')
    BY DEF Producing, Numbered
  <2>2. \A e \in queue' : e.id <= sent' /\ (e.id \in owed' => e.structural)
    BY DEF Producing, Numbered, Contents, Envelope, contentVars
  <2>3. ASSUME NEW q \in Producers, putting'[q] # None
        PROVE  putting'[q].id <= sent' /\ (putting'[q].id \in owed' => putting'[q].structural)
    <3>1. CASE q = p
      <4>1. putting'[q] = new
        BY <1>2, <3>1 DEF Producing
      <4>2. sent + 1 \notin owed
        BY DEF Producing, Numbered
      <4> QED
        BY <1>1, <1>2, <4>1, <4>2 DEF Producing
    <3>2. CASE q # p
      <4>1. putting'[q] = putting[q] /\ putting[q] \in Packet
        BY <1>2, <2>3, <3>2 DEF Producing
      <4>2. putting[q].id <= sent /\ putting[q].id \in Nat
        BY <2>3, <4>1 DEF Producing, Numbered, Packet
      <4> QED
        BY <2>3, <4>1, <4>2 DEF Producing, Numbered
    <3> QED
      BY <3>1, <3>2
  <2> QED
    BY <2>1, <2>2, <2>3 DEF Numbered
<1>6. EdgesKept'
  <2> SUFFICES ASSUME NEW i \in owed'
               PROVE  \/ \E e \in queue' : e.id = i
                      \/ \E q \in Producers : putting'[q] # None /\ putting'[q].id = i
    BY DEF EdgesKept
  <2>1. CASE i = sent + 1
    BY <1>1, <1>2, <2>1 DEF Producing
  <2>2. CASE i \in owed
    BY <1>2, <2>2 DEF Producing, EdgesKept, contentVars
  <2> QED
    BY <2>1, <2>2
<1> QED
  BY <1>3, <1>4, <1>5, <1>6 DEF Producing

\* The packet passes from the put() to the queue.
LEMMA AcceptKeeps ==
    ASSUME IInv, NEW p \in Producers, Accept(p) PROVE IInv'
<1> USE DEF IInv
<1> DEFINE V == Superseded(putting[p])
           packet == putting[p]
           e == Enveloped(packet)
<1>1. packet \in Packet /\ packet # None
  BY TypeOfPut DEF Accept, InLoop
<1>2. V \subseteq Droppable(queue) /\ V \in SUBSET queue
  BY <1>1, SupersededAreUpdates DEF Droppable
<1>3. Contents'
  BY <1>1, <1>2, EnterKeeps DEF Accept
<1>4. /\ queue' = (queue \ V) \cup {e}
      /\ putting' = [putting EXCEPT ![p] = None] /\ waiting' = waiting \ {p}
      /\ owed' = owed /\ sent' = sent /\ policy' = policy /\ revoked' = revoked
      /\ cancelled' = cancelled
  BY DEF Accept, LeaveAndEnter, Returns
<1>5. e.id = packet.id /\ e.structural = packet.structural
  BY DEF Enveloped
<1> HIDE DEF V, e
<1>6. Numbered'
  BY <1>1, <1>4, <1>5 DEF Producing, Numbered
<1>7. EdgesKept'
  <2> SUFFICES ASSUME NEW i \in owed
               PROVE  \/ \E f \in queue' : f.id = i
                      \/ \E q \in Producers : putting'[q] # None /\ putting'[q].id = i
    BY <1>4 DEF EdgesKept
  <2>1. CASE \E f \in queue : f.id = i
    BY <1>2, <1>4, <2>1 DEF Producing, Numbered, Droppable
  <2>2. CASE \E q \in Producers : putting[q] # None /\ putting[q].id = i
    <3>1. PICK q \in Producers : putting[q] # None /\ putting[q].id = i
      BY <2>2
    <3>2. CASE q = p
      BY <1>4, <1>5, <3>1, <3>2
    <3>3. CASE q # p
      BY <1>4, <3>1, <3>3 DEF Producing
    <3> QED
      BY <3>2, <3>3
  <2> QED
    BY <2>1, <2>2 DEF Producing, EdgesKept
<1> QED
  BY <1>3, <1>4, <1>6, <1>7 DEF Producing

\* Only updates make way for it.
LEMMA EvictKeeps ==
    ASSUME IInv, NEW p \in Producers, Evict(p) PROVE IInv'
<1> USE DEF IInv
<1> DEFINE V == Superseded(putting[p])
           W == Victims(putting[p], queue \ V)
<1>1. putting[p] \in Packet
  BY TypeOfPut DEF Evict, InLoop
<1>2. V \subseteq Droppable(queue)
  BY <1>1, SupersededAreUpdates
<1>3. W \subseteq Droppable(queue \ V)
  BY <1>1, VictimsAreUpdates DEF Contents
<1>4. V \cup W \subseteq Droppable(queue) /\ V \cup W \in SUBSET queue
  BY <1>2, <1>3 DEF Droppable
<1>5. /\ Leave(V \cup W) /\ waiting' = waiting \ {p}
      /\ UNCHANGED <<policy, others, revoked, clock, sent, putting, cancelled, owed, overtaken>>
  BY DEF Evict
<1> HIDE DEF V, W
<1>6. Contents'
  BY <1>4, <1>5, LeaveKeeps
<1>7. Producing'
  BY <1>4, <1>5, EvictionKeepsOwed DEF Leave
<1> QED
  BY <1>6, <1>7

\* put() is over for a packet that nobody owes.
LEMMA ReturnKeeps ==
    ASSUME Producing, NEW p \in Producers, putting[p] # None,
           putting[p].id \notin owed', owed' \subseteq owed, Returns(p),
           UNCHANGED <<policy, revoked, sent, cancelled>>,
           \A e \in queue : e.id \in owed' => e \in queue', queue' \subseteq queue
    PROVE  Producing'
<1> USE DEF Producing, Returns
<1>1. Numbered'
  BY DEF Numbered
<1>2. EdgesKept'
  <2> SUFFICES ASSUME NEW i \in owed'
               PROVE  \/ \E f \in queue' : f.id = i
                      \/ \E q \in Producers : putting'[q] # None /\ putting'[q].id = i
    BY DEF EdgesKept
  <2>1. CASE \E f \in queue : f.id = i
    BY <2>1
  <2>2. CASE \E q \in Producers : putting[q] # None /\ putting[q].id = i
    BY <2>2
  <2> QED
    BY <2>1, <2>2 DEF EdgesKept
<1> QED
  BY <1>1, <1>2

\* The contents depend on nothing that only put() keeps.
LEMMA ContentsStand ==
    ASSUME Contents, UNCHANGED <<contentVars, others, clock, overtaken>>
    PROVE  Contents'
BY DEF Contents, contentVars, Stamped, PlacesMatchItems, CountersExact, InTurn

\* Only an update is dropped on arrival.
LEMMA DropKeeps ==
    ASSUME IInv, NEW p \in Producers, Drop(p) PROVE IInv'
<1> USE DEF IInv
<1> DEFINE V == Superseded(putting[p])
<1>1. putting[p] \in Packet /\ putting[p] # None /\ ~putting[p].structural
  BY TypeOfPut DEF Drop, InLoop
<1>2. V \subseteq Droppable(queue) /\ V \in SUBSET queue
  BY <1>1, SupersededAreUpdates DEF Droppable
<1>3. Leave(V) /\ UNCHANGED <<policy, others, revoked, clock, sent, cancelled, owed, overtaken>>
      /\ Returns(p)
  BY DEF Drop
<1> HIDE DEF V
<1>4. Contents'
  BY <1>2, <1>3, LeaveKeeps
<1>5. putting[p].id \notin owed'
  BY <1>1, <1>3 DEF Producing, Numbered
<1>6. \A e \in queue : e.id \in owed' => e \in queue'
  BY <1>2, <1>3 DEF Leave, Droppable, Producing, Numbered
<1>7. Producing'
  BY <1>1, <1>3, <1>5, <1>6, ReturnKeeps DEF Leave
<1> QED
  BY <1>4, <1>7

\* What changes a put() and not the contents.
LEMMA LeavesPutKeeps ==
    ASSUME IInv, NEW p \in Producers, PutTimeout(p) \/ PutCanceled(p) \/ Wait(p) \/ Cancel(p)
    PROVE  IInv'
<1> USE DEF IInv
<1>1. Contents'
  BY ContentsStand DEF PutTimeout, PutCanceled, Wait, Cancel
<1>2. CASE PutTimeout(p)
  <2>1. putting[p] # None /\ putting[p].id \notin owed
    BY <1>2 DEF PutTimeout, Producing, Numbered
  <2> QED
    BY <1>1, <1>2, <2>1, ReturnKeeps DEF PutTimeout, contentVars
<1>3. CASE PutCanceled(p)
  BY <1>1, <1>3, ReturnKeeps DEF PutCanceled, contentVars
<1>4. CASE Wait(p) \/ Cancel(p)
  BY <1>1, <1>4 DEF Wait, Cancel, InLoop, Producing, Numbered, EdgesKept, contentVars
<1> QED
  BY <1>2, <1>3, <1>4

\* What is delivered or thrown away is not owed any more.
LEMMA RemovalKeepsOwed ==
    ASSUME Producing, NEW V \in SUBSET queue, queue' = queue \ V,
           owed' = owed \ {e.id : e \in V}, UNCHANGED <<policy, producerVars>>,
           revoked' \in BOOLEAN
    PROVE  Producing'
<1> USE DEF Producing, producerVars
<1>1. Numbered'
  BY DEF Numbered
<1>2. EdgesKept'
  BY DEF EdgesKept
<1> QED
  BY <1>1, <1>2

\* get(), discard(), the stop and the revocation.
LEMMA RemovalsKeep ==
    ASSUME IInv, Get \/ (\E V \in SUBSET queue : Discard(V)) \/ StopClears \/ Revoke
    PROVE  IInv'
<1> USE DEF IInv
<1>1. CASE Get
  <2> DEFINE e == First(Of(Turn[1], queue))
  <2>1. queue' = queue \ {e} /\ owed' = owed \ {e.id} /\ revoked' = revoked
        /\ UNCHANGED <<policy, producerVars>>
    BY <1>1 DEF Get
  <2>2. {e} \cap queue \in SUBSET queue /\ Contents'
    BY <1>1, GetKeeps
  <2>3. e \in queue
    BY <1>1, TurnHolds, FirstIsThere DEF Of, KeysOf, Contents
  <2>4. Producing'
    <3> HIDE DEF e
    <3>1. {e} \in SUBSET queue /\ {f.id : f \in {e}} = {e.id}
      BY <2>3
    <3> QED
      BY <2>1, <3>1, RemovalKeepsOwed DEF Producing
  <2> QED
    BY <2>2, <2>4
<1>2. CASE \E V \in SUBSET queue : Discard(V)
  <2>1. PICK V \in SUBSET queue : Discard(V)
    BY <1>2
  <2> QED
    BY <2>1, LeaveKeeps, RemovalKeepsOwed DEF Discard, Leave, Producing
<1>3. CASE StopClears \/ Revoke
  <2>1. Clear /\ revoked' \in BOOLEAN
    BY <1>3 DEF StopClears, Revoke, Producing
  <2>2. queue' = queue \ queue /\ owed' = owed \ {e.id : e \in queue}
        /\ UNCHANGED <<policy, producerVars>>
    BY <2>1 DEF Clear
  <2>3. Producing'
    BY <2>1, <2>2, RemovalKeepsOwed
  <2> QED
    BY <2>1, <2>3, ClearKeeps
<1> QED
  BY <1>1, <1>2, <1>3

\* Other channels change what the counter holds for them.
LEMMA OthersKeep ==
    ASSUME IInv, OthersReserve \/ OthersRelease PROVE IInv'
<1>1. BytesOf(queue) \in Nat
  BY BytesNat DEF IInv, Contents, Stamped
<1>2. others' \in Nat /\ CountersExact'
  BY <1>1 DEF IInv, Contents, CountersExact, OthersReserve, OthersRelease, Monus
<1>3. Contents'
  BY <1>2 DEF IInv, Contents, Stamped, PlacesMatchItems, InTurn, OthersReserve, OthersRelease
<1>4. Producing'
  BY DEF IInv, Producing, Numbered, EdgesKept, OthersReserve, OthersRelease, producerVars
<1> QED
  BY <1>3, <1>4 DEF IInv

-----------------------------------------------------------------------------
(* The theorems.                                                           *)

\* The channel is built empty.
LEMMA Starts ==
    ASSUME Init PROVE IInv
<1> USE KeyedAssumption DEF Init
<1>1. ByteCells({}) = {}
  BY DEF ByteCells
<1>2. BytesOf({}) = 0 /\ Cardinality({}) = 0 /\ IsFiniteSet({})
  BY <1>1, FS_EmptySet DEF BytesOf
<1>3. \A k \in Keys : Cardinality(Keys) \in Nat /\ Cardinality(Keys) > 0
  BY FS_CardinalityType, FS_EmptySet
<1>4. Stamped /\ InTurn /\ PlacesMatchItems /\ CountersExact
  BY <1>2, <1>3 DEF Stamped, InTurn, PlacesMatchItems, CountersExact, KeysOf
<1>5. Contents
  BY <1>4 DEF Contents
<1>6. Numbered /\ EdgesKept
  BY DEF Numbered, EdgesKept
<1>7. sent \in 0..MaxPackets /\ putting \in [Producers -> Packet \cup {None}]
  OBVIOUS
<1>8. Producing
  BY <1>6, <1>7 DEF Producing
<1> QED
  BY <1>5, <1>8 DEF IInv

\* Every action keeps the invariant.
LEMMA StepsKeep ==
    ASSUME IInv, [Next]_vars PROVE IInv'
<1>1. CASE \E p \in Producers, k \in Keys, s \in BOOLEAN, n \in 0..MaxBytes : Put(p, k, s, n)
  BY <1>1, PutKeeps
<1>2. CASE \E p \in Producers : PutLoop(p) \/ PutTimeout(p) \/ Cancel(p)
  BY <1>2, AcceptKeeps, EvictKeeps, DropKeeps, LeavesPutKeeps DEF PutLoop
<1>3. CASE Get \/ (\E V \in SUBSET queue : Discard(V)) \/ StopClears \/ Revoke
  BY <1>3, RemovalsKeep
<1>4. CASE OthersReserve \/ OthersRelease
  BY <1>4, OthersKeep
<1>5. CASE UNCHANGED vars
  <2>1. Contents'
    BY <1>5, ContentsStand DEF vars, contentVars, IInv
  <2>2. Producing'
    BY <1>5 DEF IInv, Producing, Numbered, EdgesKept, vars, producerVars
  <2> QED
    BY <2>1, <2>2 DEF IInv
<1> QED
  BY <1>1, <1>2, <1>3, <1>4, <1>5 DEF Next

\* The invariant is inductive, whatever the policies, the streams and the capacity.
THEOREM Invariance == Spec => []IInv
<1>1. Init => IInv
  BY Starts
<1>2. IInv /\ [Next]_vars => IInv'
  BY StepsKeep
<1> QED
  BY <1>1, <1>2, PTL DEF Spec

\* The queue of each stream, the ring and the set of the ready streams agree after
\* every put(), get(), eviction, discard() and clear(): no stream with packets is
\* left without a turn, and get() finds something at every place.
THEOREM PlacesHold == Spec => []PlacesMatchItems
<1>1. IInv => PlacesMatchItems
  BY DEF IInv, Contents
<1> QED
  BY <1>1, Invariance, PTL

\* depth, the resident bytes and the counter of the pipeline equal what is queued,
\* though each is added to and subtracted from on its own.
THEOREM CountersHold == Spec => []CountersExact
<1>1. IInv => CountersExact
  BY DEF IInv, Contents
<1> QED
  BY <1>1, Invariance, PTL

\* No drop policy and no budget loses an OPEN or a CLOSE.
THEOREM EdgesHold == Spec => []EdgesKept
<1>1. IInv => EdgesKept
  BY DEF IInv, Producing
<1> QED
  BY <1>1, Invariance, PTL

\* get() serves the ring in turn: a stream that has a place is overtaken by fewer
\* deliveries than there are streams, for any number of streams.
THEOREM TurnsHold == Spec => []PlaceIsKept
<1>1. IInv => PlaceIsKept
  BY DEF IInv, Contents, InTurn, PlaceIsKept
<1> QED
  BY <1>1, Invariance, PTL
=============================================================================
