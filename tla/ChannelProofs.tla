---------------------------- MODULE ChannelProofs ----------------------------
(* Theorems about Channel, for every graph, policy, capacity and budget. *)
EXTENDS Channel, FiniteSetTheorems, WellFoundedInduction, TLAPS

(***************************************************************************)
(* Facts about the helpers.                                                *)
(***************************************************************************)
(* A nonempty set of naturals has a least element. *)
LEMMA LeastNat ==
    ASSUME NEW T \in SUBSET Nat, T # {}
    PROVE  \E m \in T : \A n \in T : m <= n
<1>1. \E x \in T : \A y \in T : ~(<<y, x>> \in OpToRel(<, Nat))
  BY WFMin, NatLessThanWellFounded, Zenon
<1>2. PICK x \in T : \A y \in T : ~(<<y, x>> \in OpToRel(<, Nat))
  BY <1>1
<1>3. \A y \in T : ~(y < x)
  BY <1>2 DEF OpToRel
<1> QED BY <1>3

(* The head of a channel is the envelope in it that arrived first. *)
LEMMA OldestIsFirst ==
    ASSUME NEW S \in SUBSET Envelope, S # {}
    PROVE  Oldest(S) \in S /\ \A f \in S : Oldest(S).seq <= f.seq
<1> DEFINE T == {e.seq : e \in S}
<1>1. T \in SUBSET Nat /\ T # {}
  BY DEF Envelope
<1>2. PICK m \in T : \A n \in T : m <= n
  BY <1>1, LeastNat
<1>3. \E e \in S : \A f \in S : e.seq <= f.seq
  BY <1>2
<1> QED BY <1>3 DEF Oldest

(* Artifact bytes are a natural number. *)
LEMMA BytesNat ==
    ASSUME NEW S, IsFiniteSet(S)
    PROVE  IsFiniteSet(ByteCells(S)) /\ BytesOf(S) \in Nat
<1>1. IsFiniteSet(1..MaxBytes)
  BY FS_Interval, ChannelAssumption
<1>2. IsFiniteSet(S \X (1..MaxBytes))
  BY <1>1, FS_Product
<1>3. ByteCells(S) \in SUBSET (S \X (1..MaxBytes))
  BY DEF ByteCells
<1>4. IsFiniteSet(ByteCells(S))
  BY <1>2, <1>3, FS_Subset
<1> QED BY <1>4, FS_CardinalityType DEF BytesOf

LEMMA ReleasedType ==
    ASSUME NEW u \in [Counters -> Nat], NEW c, NEW n \in Nat
    PROVE  ReleasedFrom(u, c, n) \in [Counters -> Nat]
BY DEF ReleasedFrom, Monus

LEMMA ReservedType ==
    ASSUME NEW u \in [Counters -> Nat], NEW c, NEW n \in Nat
    PROVE  ReservedIn(u, c, n) \in [Counters -> Nat]
BY DEF ReservedIn

(* A policy evicts nothing but updates. *)
LEMMA EvictsUpdates ==
    ASSUME NEW c \in Channels, NEW V \in Evictions(c)
    PROVE  V \subseteq Droppable(queue[c])
BY DEF Evictions

(* A finite set keeps its bound when elements leave it. *)
LEMMA DepthShrinks ==
    ASSUME NEW S, IsFiniteSet(S), NEW T, NEW n \in Nat, Cardinality(S) <= n
    PROVE  IsFiniteSet(S \ T) /\ Cardinality(S \ T) <= n
<1>1. S \ T \in SUBSET S
  OBVIOUS
<1>2. IsFiniteSet(S \ T) /\ Cardinality(S \ T) <= Cardinality(S)
  BY <1>1, FS_Subset
<1>3. Cardinality(S) \in Nat /\ Cardinality(S \ T) \in Nat
  BY <1>2, FS_CardinalityType
<1> QED BY <1>2, <1>3

LEMMA DepthGrows ==
    ASSUME NEW S, IsFiniteSet(S), NEW x, NEW n \in Nat, Cardinality(S) < n
    PROVE  IsFiniteSet(S \cup {x}) /\ Cardinality(S \cup {x}) <= n
<1>1. Cardinality(S) \in Nat
  BY FS_CardinalityType
<1>2. Cardinality(S \cup {x}) = IF x \in S THEN Cardinality(S) ELSE Cardinality(S) + 1
  BY FS_AddElement
<1> QED BY <1>1, <1>2, FS_AddElement

(* What put() may change keeps its type, whichever way the pass ends. *)
LEMMA PutType ==
    ASSUME TypeOK, NEW p \in Producers, NEW pkt \in Packet, pkt.from = p, Put(p, pkt)
    PROVE  /\ queue' \in [Channels -> SUBSET Envelope]
           /\ \A c \in Channels : IsFiniteSet(queue'[c]) /\ Cardinality(queue'[c]) <= MaxSize[c]
           /\ arrivals' \in [Channels -> Nat]
           /\ used' \in [Counters -> Nat]
           /\ available' \in [Channels -> BOOLEAN]
           /\ blocked' \in [Producers -> Packet \cup {None}]
           /\ \A q \in Producers : blocked'[q] # None => blocked'[q].from = q
           /\ waiter' \in [Consumers -> WaiterState]
<1> DEFINE c == OutputOf[p]
<1> USE DEF Depth
<1>0. c \in Channels /\ MaxSize[c] \in Nat
  BY ChannelAssumption
<1>a. /\ blocked' \in [Producers -> Packet \cup {None}]
      /\ \A q \in Producers : blocked'[q] # None => blocked'[q].from = q
  BY DEF Put, PutCanceled, Accept, Drop, Wait, TypeOK
<1>1. CASE PutCanceled(c, pkt)
  BY <1>a, <1>1 DEF PutCanceled, TypeOK
<1>2. CASE Accept(c, pkt)
  <2>1. PICK V \in Evictions(c) :
           /\ FirstFit(c, pkt, V)
           /\ queue' = [queue EXCEPT ![c] = (queue[c] \ V) \cup {Enveloped(c, pkt)}]
           /\ used' = ReservedIn(ReleasedFrom(used, c, BytesOf(V)), c, pkt.bytes)
    BY <1>2 DEF Accept
  <2>2. Enveloped(c, pkt) \in Envelope
    BY <1>0 DEF Enveloped, Envelope, Packet, TypeOK
  <2>3. IsFiniteSet(queue[c]) /\ V \in SUBSET queue[c]
    BY <1>0, <2>1, EvictsUpdates DEF TypeOK, Droppable
  <2>4. IsFiniteSet(V) /\ IsFiniteSet(queue[c] \ V)
    BY <2>3, FS_Subset
  <2>5. BytesOf(V) \in Nat /\ pkt.bytes \in Nat
    BY <2>4, BytesNat, ChannelAssumption DEF Packet
  <2>6. used' \in [Counters -> Nat]
    <3>1. ReleasedFrom(used, c, BytesOf(V)) \in [Counters -> Nat]
      BY <1>0, <2>5, ReleasedType DEF TypeOK
    <3> QED BY <1>0, <2>1, <2>5, <3>1, ReservedType
  <2>7. Cardinality(queue[c] \ V) \in Nat /\ Cardinality(queue[c] \ V) < MaxSize[c]
    BY <2>1, <2>4, FS_CardinalityType DEF FirstFit, Fits, HasRoom
  <2>8. /\ IsFiniteSet((queue[c] \ V) \cup {Enveloped(c, pkt)})
        /\ Cardinality((queue[c] \ V) \cup {Enveloped(c, pkt)}) <= MaxSize[c]
    BY <1>0, <2>4, <2>7, DepthGrows
  <2>9. queue' \in [Channels -> SUBSET Envelope]
    BY <1>0, <2>1, <2>2 DEF TypeOK
  <2>10. \A d \in Channels : IsFiniteSet(queue'[d]) /\ Cardinality(queue'[d]) <= MaxSize[d]
    BY <1>0, <2>1, <2>8 DEF TypeOK
  <2>11. waiter' \in [Consumers -> WaiterState]
    BY <1>2 DEF Accept, Woken, WaiterState, TypeOK
  <2>12. arrivals' \in [Channels -> Nat] /\ available' \in [Channels -> BOOLEAN]
    BY <1>0, <1>2 DEF Accept, TypeOK
  <2> QED BY <1>a, <2>6, <2>9, <2>10, <2>11, <2>12
<1>3. CASE Drop(c, pkt)
  <2> DEFINE V == IF Lossy(c) THEN Droppable(queue[c]) ELSE {}
  <2>1. queue' = [queue EXCEPT ![c] = queue[c] \ V] /\ used' = ReleasedFrom(used, c, BytesOf(V))
    BY <1>3 DEF Drop
  <2>2. IsFiniteSet(queue[c]) /\ V \in SUBSET queue[c]
    BY <1>0 DEF TypeOK, Droppable
  <2>3. IsFiniteSet(V)
    BY <2>2, FS_Subset
  <2>4. used' \in [Counters -> Nat]
    BY <1>0, <2>1, <2>3, BytesNat, ReleasedType DEF TypeOK
  <2>5. IsFiniteSet(queue[c] \ V) /\ Cardinality(queue[c] \ V) <= MaxSize[c]
    BY <1>0, DepthShrinks DEF TypeOK
  <2>6. queue' \in [Channels -> SUBSET Envelope]
    BY <1>0, <2>1 DEF TypeOK
  <2>7. \A d \in Channels : IsFiniteSet(queue'[d]) /\ Cardinality(queue'[d]) <= MaxSize[d]
    BY <1>0, <2>1, <2>5 DEF TypeOK
  <2> QED BY <1>a, <1>3, <2>4, <2>6, <2>7 DEF Drop, TypeOK
<1>4. CASE Wait(c, pkt)
  BY <1>a, <1>4 DEF Wait, TypeOK
<1> QED BY <1>1, <1>2, <1>3, <1>4 DEF Put

(* What discard(), clear() and revoke() take out of a channel. *)
LEMMA RemoveType ==
    ASSUME TypeOK, NEW c \in Channels, NEW D \in SUBSET queue[c], Remove(c, D)
    PROVE  /\ queue' \in [Channels -> SUBSET Envelope]
           /\ \A d \in Channels : IsFiniteSet(queue'[d]) /\ Cardinality(queue'[d]) <= MaxSize[d]
           /\ used' \in [Counters -> Nat]
           /\ discarded' \in [Channels -> SUBSET (Producers \X Nat)]
<1> USE DEF Depth
<1>0. MaxSize[c] \in Nat
  BY ChannelAssumption
<1>1. IsFiniteSet(D)
  BY FS_Subset DEF TypeOK
<1>2. used' \in [Counters -> Nat]
  BY <1>1, BytesNat, ReleasedType DEF Remove, TypeOK
<1>3. IsFiniteSet(queue[c] \ D) /\ Cardinality(queue[c] \ D) <= MaxSize[c]
  BY <1>0, DepthShrinks DEF TypeOK
<1>4. \A d \in Channels : IsFiniteSet(queue'[d]) /\ Cardinality(queue'[d]) <= MaxSize[d]
  BY <1>3 DEF Remove, TypeOK
<1>5. EdgesIn(D) \in SUBSET (Producers \X Nat)
  BY DEF EdgesIn, TypeOK, Envelope
<1> QED BY <1>2, <1>4, <1>5 DEF Remove, TypeOK

(***************************************************************************)
(* Type correctness.                                                       *)
(***************************************************************************)
LEMMA InitType == Init => TypeOK
<1> SUFFICES ASSUME Init PROVE TypeOK
  OBVIOUS
<1>1. \A c \in Channels : IsFiniteSet(queue[c]) /\ Depth(c) <= MaxSize[c]
  BY FS_EmptySet, ChannelAssumption DEF Init, Depth
<1>2. got \in [Channels -> [Producers -> Envelope]]
  BY ChannelAssumption DEF Init, NothingYet, Envelope
<1> QED BY <1>1, <1>2 DEF Init, TypeOK, WaiterState, Nodes

LEMMA EmitType ==
    ASSUME TypeOK, NEW p \in Producers, NEW structural \in BOOLEAN, NEW bytes \in 0..MaxBytes,
           Emit(p, structural, bytes)
    PROVE  TypeOK'
<1> DEFINE edge == IF structural THEN edges[p] + 1 ELSE edges[p]
           pkt == [from |-> p, edge |-> edge, structural |-> structural, bytes |-> bytes]
<1>1. edge \in Nat /\ pkt \in Packet /\ pkt.from = p
  BY DEF TypeOK, Packet
<1>2. Put(p, pkt) /\ edges' = [edges EXCEPT ![p] = edge] /\ sent' = [sent EXCEPT ![p] = @ + 1]
      /\ UNCHANGED <<policy, revoked, cancelled, got, discarded>>
  BY DEF Emit
<1>3. edges' \in [Producers -> Nat] /\ sent' \in [Producers -> Nat]
  BY <1>1, <1>2 DEF TypeOK
<1> HIDE DEF pkt, edge
<1> QED BY <1>1, <1>2, <1>3, PutType DEF TypeOK, Depth

LEMMA PollType ==
    ASSUME TypeOK, NEW p \in Producers, Poll(p)
    PROVE  TypeOK'
<1>1. blocked[p] \in Packet /\ blocked[p].from = p /\ Put(p, blocked[p])
      /\ UNCHANGED <<policy, revoked, cancelled, edges, sent, got, discarded>>
  BY DEF Poll, TypeOK
<1> QED BY <1>1, PutType DEF TypeOK, Depth

LEMMA DeliverType ==
    ASSUME TypeOK, NEW k \in Consumers, Deliver(k)
    PROVE  TypeOK'
<1> DEFINE c == InputOf[k]
           e == Oldest(queue[c])
<1>0. c \in Channels /\ MaxSize[c] \in Nat
  BY ChannelAssumption
<1>1. queue[c] \in SUBSET Envelope /\ queue[c] # {}
  BY <1>0 DEF Deliver, TypeOK
<1>2. e \in Envelope
  BY <1>1, OldestIsFirst
<1>3. e.from \in Producers /\ e.bytes \in Nat
  BY <1>2, ChannelAssumption DEF Envelope
<1>4. /\ queue' = [queue EXCEPT ![c] = @ \ {e}]
      /\ used' = ReleasedFrom(used, c, e.bytes)
      /\ got' = [got EXCEPT ![c][e.from] = e]
      /\ waiter' = [waiter EXCEPT ![k] = "idle"]
      /\ UNCHANGED <<policy, arrivals, revoked, available, cancelled, edges, sent, blocked, discarded>>
  BY DEF Deliver
<1>5. IsFiniteSet(queue[c] \ {e}) /\ Cardinality(queue[c] \ {e}) <= MaxSize[c]
  BY <1>0, DepthShrinks DEF TypeOK, Depth
<1> HIDE DEF c, e
<1>6. used' \in [Counters -> Nat]
  BY <1>3, <1>4, ReleasedType DEF TypeOK
<1>7. queue' \in [Channels -> SUBSET Envelope]
  BY <1>0, <1>4 DEF TypeOK
<1>8. \A d \in Channels : IsFiniteSet(queue'[d]) /\ Cardinality(queue'[d]) <= MaxSize[d]
  BY <1>0, <1>4, <1>5 DEF TypeOK, Depth
<1>9. got' \in [Channels -> [Producers -> Envelope]]
  BY <1>0, <1>2, <1>3, <1>4 DEF TypeOK
<1>10. waiter' \in [Consumers -> WaiterState]
  BY <1>4 DEF TypeOK, WaiterState
<1> QED BY <1>4, <1>6, <1>7, <1>8, <1>9, <1>10 DEF TypeOK, Depth

LEMMA ConsumerType ==
    ASSUME TypeOK, NEW k \in Consumers, ConsumerStep(k)
    PROVE  TypeOK'
<1>1. CASE Deliver(k)
  BY <1>1, DeliverType
<1>2. CASE ReadCanceled(k)
  BY <1>2 DEF ReadCanceled, chanVars, TypeOK, WaiterState, Nodes, Depth
<1>3. CASE Rearm(k)
  BY <1>3, ChannelAssumption DEF Rearm, TypeOK, WaiterState, Depth
<1>4. CASE Arm(k)
  BY <1>4 DEF Arm, chanVars, TypeOK, WaiterState, Depth
<1>5. CASE GetTimeout(k)
  BY <1>2, <1>5 DEF GetTimeout, chanVars, TypeOK, WaiterState, Depth
<1> QED BY <1>1, <1>2, <1>3, <1>4, <1>5 DEF ConsumerStep, Get, WakeUp

LEMMA RuntimeType ==
    ASSUME TypeOK, RuntimeStep
    PROVE  TypeOK'
<1>1. ASSUME NEW c \in Channels, NEW p \in Producers, NEW n \in 1..MaxPackets,
             DiscardOccurrence(c, p, n)
      PROVE  TypeOK'
  <2> DEFINE D == {e \in queue[c] : e.from = p /\ OccurrenceOf(e) = n}
  <2>1. Remove(c, D) /\ UNCHANGED <<policy, arrivals, revoked, nodeVars, got>>
        /\ available' = [available EXCEPT ![c] = queue[c] \ D # {} /\ @]
    BY <1>1 DEF DiscardOccurrence
  <2>2. D \in SUBSET queue[c]
    OBVIOUS
  <2>3. available' \in [Channels -> BOOLEAN]
    BY <2>1 DEF TypeOK
  <2> HIDE DEF D
  <2> QED BY <2>1, <2>2, <2>3, RemoveType DEF nodeVars, TypeOK, Depth
<1>2. ASSUME NEW c \in Channels, Clear(c)
      PROVE  TypeOK'
  BY <1>2, RemoveType DEF Clear, nodeVars, TypeOK, Depth
<1>3. ASSUME NEW c \in Channels, Revoke(c)
      PROVE  TypeOK'
  <2>1. waiter' \in [Consumers -> WaiterState]
    BY <1>3 DEF Revoke, Woken, TypeOK, WaiterState
  <2> QED BY <1>3, <2>1, RemoveType DEF Revoke, TypeOK, Depth
<1>4. ASSUME NEW n \in Nodes, Cancel(n)
      PROVE  TypeOK'
  BY <1>4 DEF Cancel, chanVars, TypeOK, Depth
<1>5. ASSUME NEW n \in Nodes, KillTask(n)
      PROVE  TypeOK'
  BY <1>5 DEF KillTask, chanVars, TypeOK, WaiterState, Depth
<1> QED BY <1>1, <1>2, <1>3, <1>4, <1>5 DEF RuntimeStep

LEMMA NextType == TypeOK /\ [Next]_vars => TypeOK'
<1> SUFFICES ASSUME TypeOK, [Next]_vars PROVE TypeOK'
  OBVIOUS
<1>1. ASSUME NEW p \in Producers, ProducerStep(p)
      PROVE  TypeOK'
  <2>1. ASSUME PutTimeout(p)
        PROVE  TypeOK'
    BY <2>1 DEF PutTimeout, chanVars, TypeOK, Depth
  <2> QED BY <1>1, <2>1, EmitType, PollType DEF ProducerStep
<1>2. CASE UNCHANGED vars
  BY <1>2 DEF vars, TypeOK, Depth
<1> QED BY <1>1, <1>2, ConsumerType, RuntimeType DEF Next

(* No reachable state has an ill-typed variable or a channel over capacity. *)
THEOREM TypeCorrect == Spec => []TypeOK
BY InitType, NextType, PTL DEF Spec

(***************************************************************************)
(* Revocation and wake-ups.                                                *)
(***************************************************************************)
(* A step of a producer deposits nothing in a revoked channel, and leaves no
   consumer parked on a channel it puts something in. *)
LEMMA PutWakes ==
    ASSUME TypeOK, NEW p \in Producers, NEW pkt, pkt.from = p, Put(p, pkt)
    PROVE  /\ RevokedStaysEmpty /\ revoked' = revoked => RevokedStaysEmpty'
           /\ NoLostWakeup => NoLostWakeup'
<1> DEFINE c == OutputOf[p]
<1>0. c \in Channels
  BY ChannelAssumption
<1>1. CASE PutCanceled(c, pkt)
  BY <1>1 DEF PutCanceled, RevokedStaysEmpty, NoLostWakeup
<1>2. CASE ~revoked[c] /\ Accept(c, pkt)
  <2>1. /\ ~revoked[c]
        /\ \A d \in Channels \ {c} : queue'[d] = queue[d] /\ available'[d] = available[d]
        /\ available'[c]
        /\ waiter' = Woken(c)
    BY <1>0, <1>2 DEF Accept, TypeOK
  <2>2. RevokedStaysEmpty /\ revoked' = revoked => RevokedStaysEmpty'
    BY <2>1 DEF RevokedStaysEmpty
  <2>3. \A k \in Consumers : InputOf[k] = c => waiter'[k] # "waiting"
    BY <2>1 DEF Woken
  <2>4. \A k \in Consumers : InputOf[k] # c => waiter'[k] = waiter[k]
    BY <2>1 DEF Woken
  <2> QED BY <2>1, <2>2, <2>3, <2>4 DEF NoLostWakeup
<1>3. CASE Drop(c, pkt)
  <2>1. /\ \A d \in Channels : queue'[d] \subseteq queue[d]
        /\ UNCHANGED <<available, waiter>>
    BY <1>0, <1>3 DEF Drop, TypeOK
  <2> QED BY <2>1 DEF RevokedStaysEmpty, NoLostWakeup
<1>4. CASE Wait(c, pkt)
  BY <1>4 DEF Wait, RevokedStaysEmpty, NoLostWakeup
<1> QED BY <1>1, <1>2, <1>3, <1>4 DEF Put, Gone

LEMMA ProducerWakes ==
    ASSUME TypeOK, NEW p \in Producers, ProducerStep(p)
    PROVE  (RevokedStaysEmpty => RevokedStaysEmpty') /\ (NoLostWakeup => NoLostWakeup')
<1>1. ASSUME NEW structural \in BOOLEAN, NEW bytes \in 0..MaxBytes, Emit(p, structural, bytes)
      PROVE  (RevokedStaysEmpty => RevokedStaysEmpty') /\ (NoLostWakeup => NoLostWakeup')
  <2> DEFINE pkt == [from |-> p, edge |-> IF structural THEN edges[p] + 1 ELSE edges[p],
                     structural |-> structural, bytes |-> bytes]
  <2>1. Put(p, pkt) /\ revoked' = revoked
    BY <1>1 DEF Emit
  <2> QED BY <2>1, PutWakes
<1>2. CASE Poll(p)
  BY <1>2, PutWakes DEF Poll, TypeOK
<1>3. CASE PutTimeout(p)
  BY <1>3 DEF PutTimeout, chanVars, RevokedStaysEmpty, NoLostWakeup
<1> QED BY <1>1, <1>2, <1>3 DEF ProducerStep

LEMMA ConsumerWakes ==
    ASSUME TypeOK, NEW k \in Consumers, ConsumerStep(k)
    PROVE  (RevokedStaysEmpty => RevokedStaysEmpty') /\ (NoLostWakeup => NoLostWakeup')
<1>0. InputOf[k] \in Channels
  BY ChannelAssumption
<1>1. CASE Deliver(k)
  <2>1. /\ \A d \in Channels : queue'[d] \subseteq queue[d]
        /\ \A j \in Consumers : waiter'[j] = waiter[j] \/ waiter'[j] = "idle"
        /\ UNCHANGED <<revoked, available>>
    BY <1>0, <1>1 DEF Deliver, TypeOK
  <2> QED BY <2>1 DEF RevokedStaysEmpty, NoLostWakeup
<1>2. CASE ReadCanceled(k)
  <2>1. /\ \A j \in Consumers : waiter'[j] = waiter[j] \/ waiter'[j] = "idle"
        /\ UNCHANGED chanVars
    BY <1>2 DEF ReadCanceled, TypeOK
  <2> QED BY <2>1 DEF chanVars, RevokedStaysEmpty, NoLostWakeup
<1>3. CASE Rearm(k)
  <2>1. /\ \A j \in Consumers : waiter'[j] = waiter[j] \/ waiter'[j] = "arming"
        /\ \A d \in Channels : d # InputOf[k] => available'[d] = available[d]
        /\ queue[InputOf[k]] = {}
        /\ UNCHANGED <<queue, revoked>>
    BY <1>0, <1>3 DEF Rearm, TypeOK
  <2> QED BY <2>1 DEF RevokedStaysEmpty, NoLostWakeup
<1>4. CASE Arm(k)
  <2>1. /\ \A j \in Consumers \ {k} : waiter'[j] = waiter[j]
        /\ waiter'[k] = IF available[InputOf[k]] THEN "woken" ELSE "waiting"
        /\ UNCHANGED chanVars
    BY <1>4 DEF Arm, TypeOK
  <2> QED BY <1>0, <2>1 DEF chanVars, RevokedStaysEmpty, NoLostWakeup
<1>5. CASE GetTimeout(k)
  <2>1. CASE waiter' = [waiter EXCEPT ![k] = "idle"] /\ UNCHANGED chanVars
    <3>1. \A j \in Consumers : waiter'[j] = waiter[j] \/ waiter'[j] = "idle"
      BY <2>1 DEF TypeOK
    <3> QED BY <2>1, <3>1 DEF chanVars, RevokedStaysEmpty, NoLostWakeup
  <2> QED BY <1>2, <1>5, <2>1 DEF GetTimeout
<1> QED BY <1>1, <1>2, <1>3, <1>4, <1>5 DEF ConsumerStep, Get, WakeUp

LEMMA RuntimeWakes ==
    ASSUME TypeOK, RuntimeStep
    PROVE  (RevokedStaysEmpty => RevokedStaysEmpty') /\ (NoLostWakeup => NoLostWakeup')
<1>1. ASSUME NEW c \in Channels, NEW p \in Producers, NEW n \in 1..MaxPackets,
             DiscardOccurrence(c, p, n)
      PROVE  (RevokedStaysEmpty => RevokedStaysEmpty') /\ (NoLostWakeup => NoLostWakeup')
  <2>1. /\ \A d \in Channels : queue'[d] \subseteq queue[d]
        /\ \A d \in Channels : queue'[d] # {} => available'[d] = available[d]
        /\ UNCHANGED <<revoked, waiter>>
    BY <1>1 DEF DiscardOccurrence, Remove, nodeVars, TypeOK
  <2> QED BY <2>1 DEF RevokedStaysEmpty, NoLostWakeup
<1>2. ASSUME NEW c \in Channels, Clear(c)
      PROVE  (RevokedStaysEmpty => RevokedStaysEmpty') /\ (NoLostWakeup => NoLostWakeup')
  <2>1. /\ \A d \in Channels : queue'[d] \subseteq queue[d]
        /\ \A d \in Channels : queue'[d] # {} => available'[d] = available[d]
        /\ UNCHANGED <<revoked, waiter>>
    BY <1>2 DEF Clear, Remove, nodeVars, TypeOK
  <2> QED BY <2>1 DEF RevokedStaysEmpty, NoLostWakeup
<1>3. ASSUME NEW c \in Channels, Revoke(c)
      PROVE  (RevokedStaysEmpty => RevokedStaysEmpty') /\ (NoLostWakeup => NoLostWakeup')
  <2>1. /\ \A d \in Channels \ {c} : /\ queue'[d] = queue[d]
                                     /\ available'[d] = available[d]
                                     /\ revoked'[d] = revoked[d]
        /\ queue'[c] = {}
        /\ \A j \in Consumers : waiter'[j] = waiter[j] \/ waiter'[j] = "woken"
    BY <1>3 DEF Revoke, Remove, Woken, TypeOK
  <2> QED BY <2>1 DEF RevokedStaysEmpty, NoLostWakeup
<1>4. ASSUME NEW n \in Nodes, Cancel(n)
      PROVE  (RevokedStaysEmpty => RevokedStaysEmpty') /\ (NoLostWakeup => NoLostWakeup')
  BY <1>4 DEF Cancel, chanVars, RevokedStaysEmpty, NoLostWakeup
<1>5. ASSUME NEW n \in Nodes, KillTask(n)
      PROVE  (RevokedStaysEmpty => RevokedStaysEmpty') /\ (NoLostWakeup => NoLostWakeup')
  <2>1. /\ \A j \in Consumers : waiter'[j] = waiter[j] \/ waiter'[j] = "idle"
        /\ UNCHANGED chanVars
    BY <1>5 DEF KillTask, TypeOK
  <2> QED BY <2>1 DEF chanVars, RevokedStaysEmpty, NoLostWakeup
<1> QED BY <1>1, <1>2, <1>3, <1>4, <1>5 DEF RuntimeStep

LEMMA NextWakes ==
    TypeOK /\ [Next]_vars => /\ RevokedStaysEmpty => RevokedStaysEmpty'
                             /\ NoLostWakeup => NoLostWakeup'
<1>1. ASSUME TypeOK, UNCHANGED vars
      PROVE  (RevokedStaysEmpty => RevokedStaysEmpty') /\ (NoLostWakeup => NoLostWakeup')
  BY <1>1 DEF vars, RevokedStaysEmpty, NoLostWakeup
<1> QED BY <1>1, ProducerWakes, ConsumerWakes, RuntimeWakes DEF Next

(* Nothing is deposited in a channel once it was revoked. *)
THEOREM RevocationHolds == Spec => []RevokedStaysEmpty
<1>1. Init => RevokedStaysEmpty
  BY DEF Init, RevokedStaysEmpty
<1> QED BY <1>1, NextWakes, TypeCorrect, PTL DEF Spec

(* No consumer stays parked on a channel that holds an item. *)
THEOREM WakeupsReachConsumers == Spec => []NoLostWakeup
<1>1. Init => NoLostWakeup
  BY DEF Init, NoLostWakeup
<1> QED BY <1>1, NextWakes, TypeCorrect, PTL DEF Spec

(***************************************************************************)
(* What each kind of step does to the edges on their way.                  *)
(***************************************************************************)
(* The steps that put nothing into a channel and deliver nothing: what leaves
   a queue is an update or is recorded as discarded, and a put() gives up a
   lifecycle edge only when it was canceled. *)
LEMMA NothingMoves ==
    ASSUME TypeOK, OrderInv,
           UNCHANGED <<got, arrivals, edges>>,
           \A c \in Channels : queue'[c] \subseteq queue[c],
           \A c \in Channels : \A e \in queue[c] \ queue'[c] :
               e.structural => <<e.from, e.edge>> \in discarded'[c],
           \A c \in Channels : discarded[c] \subseteq discarded'[c],
           cancelled \subseteq cancelled',
           \A c \in Channels : revoked[c] => revoked'[c],
           \A p \in Producers :
               \/ blocked'[p] = blocked[p]
               \/ /\ blocked'[p] = None
                  /\ \/ ~blocked[p].structural
                     \/ p \in cancelled'
                     \/ revoked'[OutputOf[p]]
    PROVE  OrderInv'
<1>1. ASSUME NEW c \in Channels
      PROVE  QueuedBetween(c)' /\ QueuedInOrder(c)'
  <2>1. QueuedBetween(c) /\ QueuedInOrder(c)
    BY DEF OrderInv
  <2> QED BY <2>1 DEF QueuedBetween, QueuedInOrder
<1>2. ASSUME NEW p \in Producers
      PROVE  EdgesAccountedFor(p)' /\ BlockedIsLast(p)' /\ GotBounded(p)'
  <2> DEFINE c == OutputOf[p]
  <2>0. c \in Channels
    BY ChannelAssumption
  <2>1. EdgesAccountedFor(p) /\ BlockedIsLast(p) /\ GotBounded(p)
    BY DEF OrderInv
  <2>2. BlockedIsLast(p)' /\ GotBounded(p)'
    BY <2>0, <2>1 DEF BlockedIsLast, GotBounded
  <2>3. ASSUME NEW n \in (got[c][p].edge + 1)..edges[p]
        PROVE  (EdgeQueued(c, p, n) \/ <<p, n>> \in discarded[c] \/ EdgePending(c, p, n))'
    <3>1. EdgeQueued(c, p, n) \/ <<p, n>> \in discarded[c] \/ EdgePending(c, p, n)
      BY <2>1 DEF EdgesAccountedFor
    <3>2. CASE EdgeQueued(c, p, n)
      <4>1. PICK e \in queue[c] : e.from = p /\ e.structural /\ e.edge = n
        BY <3>2 DEF EdgeQueued
      <4> QED BY <2>0, <4>1 DEF EdgeQueued
    <3>3. CASE EdgePending(c, p, n)
      BY <2>0, <3>3 DEF EdgePending
    <3> QED BY <2>0, <3>1, <3>2, <3>3
  <2> QED BY <2>2, <2>3 DEF EdgesAccountedFor
<1> QED BY <1>1, <1>2 DEF OrderInv

(* A packet leaves emit() and is not enqueued: it waits, or it is an update, or
   the channel was revoked. *)
LEMMA EmittedNotAccepted ==
    ASSUME TypeOK, OrderInv, NEW p \in Producers, NEW pkt \in Packet,
           pkt.from = p,
           pkt.edge = IF pkt.structural THEN edges[p] + 1 ELSE edges[p],
           blocked[p] = None,
           UNCHANGED <<got, arrivals, cancelled, revoked, discarded>>,
           edges' = [edges EXCEPT ![p] = pkt.edge],
           \A c \in Channels : queue'[c] \subseteq queue[c],
           \A c \in Channels : \A e \in queue[c] \ queue'[c] : ~e.structural,
           \/ blocked' = [blocked EXCEPT ![p] = pkt]
           \/ /\ blocked' = [blocked EXCEPT ![p] = None]
              /\ ~pkt.structural \/ revoked[OutputOf[p]]
    PROVE  OrderInv'
<1>0. edges \in [Producers -> Nat] /\ edges' \in [Producers -> Nat] /\ pkt.edge \in Nat
  BY DEF TypeOK, Packet
<1>a. pkt # None
  BY NoneAssumption
<1>1. ASSUME NEW c \in Channels
      PROVE  QueuedBetween(c)' /\ QueuedInOrder(c)'
  <2>1. QueuedBetween(c) /\ QueuedInOrder(c)
    BY DEF OrderInv
  <2>2. \A e \in queue[c] : e.from \in Producers /\ e.edge \in Nat
    BY DEF TypeOK, Envelope
  <2>3. \A q \in Producers : edges[q] <= edges'[q]
    BY <1>0
  <2> QED BY <1>0, <2>1, <2>2, <2>3 DEF QueuedBetween, QueuedInOrder
<1>2. ASSUME NEW q \in Producers, q # p
      PROVE  EdgesAccountedFor(q)' /\ BlockedIsLast(q)' /\ GotBounded(q)'
  <2> DEFINE c == OutputOf[q]
  <2>0. c \in Channels
    BY ChannelAssumption
  <2>1. EdgesAccountedFor(q) /\ BlockedIsLast(q) /\ GotBounded(q)
    BY DEF OrderInv
  <2>2. edges'[q] = edges[q] /\ blocked'[q] = blocked[q]
    BY <1>0, <1>2 DEF TypeOK
  <2>3. BlockedIsLast(q)' /\ GotBounded(q)'
    BY <2>0, <2>1, <2>2 DEF BlockedIsLast, GotBounded
  <2>4. ASSUME NEW n \in (got[c][q].edge + 1)..edges[q]
        PROVE  (EdgeQueued(c, q, n) \/ <<q, n>> \in discarded[c] \/ EdgePending(c, q, n))'
    <3>1. EdgeQueued(c, q, n) \/ <<q, n>> \in discarded[c] \/ EdgePending(c, q, n)
      BY <2>1 DEF EdgesAccountedFor
    <3> QED BY <2>0, <2>2, <3>1 DEF EdgeQueued, EdgePending
  <2> QED BY <2>2, <2>3, <2>4 DEF EdgesAccountedFor
<1>3. EdgesAccountedFor(p)' /\ BlockedIsLast(p)' /\ GotBounded(p)'
  <2> DEFINE c == OutputOf[p]
  <2>0. c \in Channels
    BY ChannelAssumption
  <2>1. EdgesAccountedFor(p) /\ GotBounded(p) /\ QueuedBetween(c)
    BY <2>0 DEF OrderInv
  <2>2. /\ edges'[p] = pkt.edge
        /\ \/ blocked'[p] = pkt
           \/ blocked'[p] = None /\ (~pkt.structural \/ revoked[c])
    BY DEF TypeOK
  <2>3. got[c][p].edge \in Nat /\ got[c][p].seq \in Nat /\ arrivals[c] \in Nat
    BY <2>0 DEF TypeOK, Envelope
  <2>4. \A e \in queue[c] : e.edge \in Nat /\ e.from \in Producers
    BY <2>0 DEF TypeOK, Envelope
  <2>5. \A e \in queue[c] : e.from = p => e.edge <= edges[p]
    BY <2>1 DEF QueuedBetween
  <2>6. GotBounded(p)'
    BY <1>0, <2>1, <2>2, <2>3 DEF GotBounded
  <2>7. BlockedIsLast(p)'
    BY <1>0, <2>0, <2>1, <2>2, <2>3, <2>4, <2>5 DEF BlockedIsLast, GotBounded
  <2>8. ASSUME NEW n \in (got[c][p].edge + 1)..pkt.edge
        PROVE  (EdgeQueued(c, p, n) \/ <<p, n>> \in discarded[c] \/ EdgePending(c, p, n))'
    <3>1. CASE n <= edges[p]
      <4>1. EdgeQueued(c, p, n) \/ <<p, n>> \in discarded[c] \/ EdgePending(c, p, n)
        BY <1>0, <2>1, <2>3, <3>1 DEF EdgesAccountedFor
      <4> QED BY <2>0, <4>1 DEF EdgeQueued, EdgePending
    <3>2. CASE ~(n <= edges[p])
      <4>1. pkt.structural /\ n = pkt.edge /\ n = edges[p] + 1
        BY <1>0, <2>3, <3>2
      <4>2. \A e \in queue[c] : e.from = p => e.edge < n
        BY <1>0, <2>4, <2>5, <4>1
      <4> QED BY <1>a, <2>0, <2>2, <4>1, <4>2 DEF EdgePending
    <3> QED BY <3>1, <3>2
  <2> QED BY <2>2, <2>6, <2>7, <2>8 DEF EdgesAccountedFor
<1> QED BY <1>1, <1>2, <1>3 DEF OrderInv

(* A packet is enqueued, by emit() or after a wait: everything its producer
   emitted before it is already in the channel or past it. *)
LEMMA AcceptedInOrder ==
    ASSUME TypeOK, OrderInv, NEW p \in Producers, NEW pkt \in Packet,
           pkt.from = p, p \notin cancelled,
           \/ /\ blocked[p] = None
              /\ pkt.edge = IF pkt.structural THEN edges[p] + 1 ELSE edges[p]
           \/ blocked[p] = pkt,
           Accept(OutputOf[p], pkt), ~revoked[OutputOf[p]],
           UNCHANGED <<got, cancelled, revoked, discarded>>,
           edges' = [edges EXCEPT ![p] = pkt.edge]
    PROVE  OrderInv'
<1> DEFINE c == OutputOf[p]
           env == Enveloped(c, pkt)
<1>0. c \in Channels /\ ~revoked[c]
  BY ChannelAssumption
<1>1. /\ edges \in [Producers -> Nat] /\ pkt.edge \in Nat
      /\ arrivals \in [Channels -> Nat]
      /\ \A d \in Channels, q \in Producers : got[d][q].edge \in Nat /\ got[d][q].seq \in Nat
      /\ \A d \in Channels : \A e \in queue[d] :
            e.from \in Producers /\ e.edge \in Nat /\ e.seq \in Nat /\ e.structural \in BOOLEAN
  BY DEF TypeOK, Packet, Envelope
<1>2. PICK V \in Evictions(c) : queue' = [queue EXCEPT ![c] = (queue[c] \ V) \cup {env}]
  BY DEF Accept
<1>3. \A e \in V : ~e.structural
  BY <1>0, <1>2, EvictsUpdates DEF Droppable
<1>4. /\ queue'[c] = (queue[c] \ V) \cup {env}
      /\ \A d \in Channels \ {c} : queue'[d] = queue[d]
  BY <1>0, <1>2 DEF TypeOK
<1>5. /\ env.from = p /\ env.edge = pkt.edge
      /\ env.structural = pkt.structural /\ env.seq = arrivals[c] + 1
  BY DEF Enveloped
<1>6. /\ arrivals'[c] = arrivals[c] + 1
      /\ \A d \in Channels \ {c} : arrivals'[d] = arrivals[d]
  BY <1>0, <1>1 DEF Accept
<1>7. blocked'[p] = None /\ \A q \in Producers \ {p} : blocked'[q] = blocked[q]
  BY DEF Accept, TypeOK
<1>8. edges'[p] = pkt.edge /\ edges[p] <= pkt.edge
      /\ \A q \in Producers \ {p} : edges'[q] = edges[q]
  <2>1. edges'[p] = pkt.edge /\ \A q \in Producers \ {p} : edges'[q] = edges[q]
    BY <1>1
  <2>2. blocked[p] = pkt => pkt.edge = edges[p]
    BY NoneAssumption DEF OrderInv, BlockedIsLast
  <2> QED BY <1>1, <2>1, <2>2
<1>9. pkt.structural => \A e \in queue[c] : e.from = p => e.edge < pkt.edge
  <2>1. QueuedBetween(c) /\ BlockedIsLast(p)
    BY <1>0 DEF OrderInv
  <2>2. CASE blocked[p] = None
    <3>1. pkt.structural => pkt.edge = edges[p] + 1
      BY <2>2, NoneAssumption
    <3>2. \A e \in queue[c] : e.from = p => e.edge <= edges[p]
      BY <2>1 DEF QueuedBetween
    <3> QED BY <1>0, <1>1, <3>1, <3>2
  <2>3. CASE blocked[p] = pkt
    BY <2>1, <2>3, NoneAssumption DEF BlockedIsLast
  <2> QED BY <2>2, <2>3, NoneAssumption
<1> HIDE DEF env
<1>10. ASSUME NEW d \in Channels
       PROVE  QueuedBetween(d)' /\ QueuedInOrder(d)'
  <2>1. QueuedBetween(d) /\ QueuedInOrder(d)
    BY DEF OrderInv
  <2>2. \A e \in queue[d] : /\ OutputOf[e.from] = d
                            /\ got[d][e.from].seq < e.seq /\ e.seq <= arrivals'[d]
                            /\ got[d][e.from].edge <= e.edge /\ e.edge <= edges'[e.from]
    <3> SUFFICES ASSUME NEW e \in queue[d]
                 PROVE  e.seq <= arrivals'[d] /\ e.edge <= edges'[e.from]
      BY <2>1 DEF QueuedBetween
    <3>1. e.seq <= arrivals[d] /\ e.edge <= edges[e.from]
      BY <2>1 DEF QueuedBetween
    <3>2. arrivals[d] \in Nat /\ (arrivals'[d] = arrivals[d] \/ arrivals'[d] = arrivals[d] + 1)
      BY <1>1, <1>6
    <3>3. edges[e.from] \in Nat /\ edges[e.from] <= edges'[e.from] /\ edges'[e.from] \in Nat
      BY <1>1, <1>8
    <3> QED BY <1>1, <3>1, <3>2, <3>3
  <2>3. CASE d # c
    <3>1. queue'[d] = queue[d]
      BY <1>4, <2>3
    <3> QED BY <2>1, <2>2, <3>1 DEF QueuedBetween, QueuedInOrder
  <2>4. CASE d = c
    <3>1. GotBounded(p)
      BY DEF OrderInv
    <3>2. got[c][p].seq < env.seq /\ got[c][p].edge <= env.edge
      BY <1>0, <1>1, <1>5, <1>8, <3>1 DEF GotBounded
    <3>3. QueuedBetween(c)'
      <4>1. ASSUME NEW e \in queue'[c]
            PROVE  /\ OutputOf[e.from] = c
                   /\ got[c][e.from].seq < e.seq /\ e.seq <= arrivals'[c]
                   /\ got[c][e.from].edge <= e.edge /\ e.edge <= edges'[e.from]
        <5>1. CASE e \in queue[c]
          BY <2>2, <2>4, <5>1
        <5>2. CASE e = env
          BY <1>1, <1>0, <1>5, <1>6, <1>8, <3>2, <5>2
        <5> QED BY <1>4, <5>1, <5>2
      <4> QED BY <4>1 DEF QueuedBetween
    <3>4. ASSUME NEW e \in queue[c]
          PROVE  /\ e.seq < env.seq
                 /\ e.from = env.from => e.edge <= env.edge /\ (env.structural => e.edge < env.edge)
      <4>1. e.seq <= arrivals[c] /\ (e.from = p => e.edge <= edges[p])
        BY <2>1, <2>4 DEF QueuedBetween
      <4> QED BY <1>0, <1>1, <1>5, <1>8, <1>9, <4>1
    <3>5. QueuedInOrder(c)'
      <4>1. ASSUME NEW e \in queue'[c], NEW f \in queue'[c]
            PROVE  /\ e.seq = f.seq => e = f
                   /\ e.from = f.from /\ e.seq < f.seq =>
                         e.edge <= f.edge /\ (f.structural => e.edge < f.edge)
        <5>1. CASE e \in queue[c] /\ f \in queue[c]
          BY <2>1, <2>4, <5>1 DEF QueuedInOrder
        <5>2. CASE e \in queue[c] /\ f = env
          BY <1>0, <1>1, <1>5, <3>4, <5>2
        <5>3. CASE e = env /\ f \in queue[c]
          BY <1>0, <1>1, <1>5, <3>4, <5>3
        <5>4. CASE e = env /\ f = env
          BY <1>0, <1>1, <1>5, <5>4
        <5> QED BY <1>4, <5>1, <5>2, <5>3, <5>4
      <4> QED BY <4>1 DEF QueuedInOrder
    <3> QED BY <2>4, <3>3, <3>5
  <2> QED BY <2>3, <2>4
<1>11. ASSUME NEW q \in Producers, q # p
       PROVE  EdgesAccountedFor(q)' /\ BlockedIsLast(q)' /\ GotBounded(q)'
  <2> DEFINE d == OutputOf[q]
  <2>0. d \in Channels
    BY ChannelAssumption
  <2>1. EdgesAccountedFor(q) /\ BlockedIsLast(q) /\ GotBounded(q)
    BY DEF OrderInv
  <2>2. edges'[q] = edges[q] /\ blocked'[q] = blocked[q]
    BY <1>7, <1>8, <1>11
  <2>3. /\ \A e \in queue[d] : e.structural => e \in queue'[d]
        /\ \A e \in queue'[d] : e.from = q => e \in queue[d]
    BY <1>3, <1>4, <1>5, <1>11, <2>0
  <2>4. BlockedIsLast(q)'
    BY <2>1, <2>2, <2>3 DEF BlockedIsLast
  <2>5. GotBounded(q)'
    BY <1>1, <1>6, <2>0, <2>1, <2>2 DEF GotBounded
  <2>6. ASSUME NEW n \in (got[d][q].edge + 1)..edges[q]
        PROVE  (EdgeQueued(d, q, n) \/ <<q, n>> \in discarded[d] \/ EdgePending(d, q, n))'
    <3>1. EdgeQueued(d, q, n) \/ <<q, n>> \in discarded[d] \/ EdgePending(d, q, n)
      BY <2>1 DEF EdgesAccountedFor
    <3> QED BY <2>2, <2>3, <3>1 DEF EdgeQueued, EdgePending
  <2> QED BY <2>2, <2>4, <2>5, <2>6 DEF EdgesAccountedFor
<1>12. EdgesAccountedFor(p)' /\ BlockedIsLast(p)' /\ GotBounded(p)'
  <2>1. EdgesAccountedFor(p) /\ GotBounded(p)
    BY DEF OrderInv
  <2>2. BlockedIsLast(p)'
    BY <1>7 DEF BlockedIsLast
  <2>3. GotBounded(p)'
    BY <1>0, <1>1, <1>6, <1>8, <2>1 DEF GotBounded
  <2>4. ASSUME NEW n \in (got[c][p].edge + 1)..pkt.edge
        PROVE  (EdgeQueued(c, p, n) \/ <<p, n>> \in discarded[c])'
    <3>1. CASE pkt.structural /\ n = pkt.edge
      BY <1>4, <1>5, <3>1 DEF EdgeQueued
    <3>2. CASE ~(pkt.structural /\ n = pkt.edge)
      <4>1. n <= edges[p] /\ ~EdgePending(c, p, n)
        <5>1. CASE blocked[p] = None
          <6>1. pkt.edge = IF pkt.structural THEN edges[p] + 1 ELSE edges[p]
            BY <5>1, NoneAssumption
          <6>2. ~EdgePending(c, p, n)
            BY <1>0, <5>1 DEF EdgePending
          <6>3. n \in Nat /\ n <= pkt.edge
            BY <1>0, <1>1
          <6> QED BY <1>1, <3>2, <6>1, <6>2, <6>3
        <5>2. CASE blocked[p] = pkt
          <6>1. pkt.edge = edges[p]
            BY <5>2, NoneAssumption DEF OrderInv, BlockedIsLast
          <6> QED BY <1>0, <1>1, <3>2, <5>2, <6>1 DEF EdgePending
        <5> QED BY <5>1, <5>2
      <4>2. EdgeQueued(c, p, n) \/ <<p, n>> \in discarded[c]
        BY <1>0, <1>1, <2>1, <4>1 DEF EdgesAccountedFor
      <4> QED BY <1>3, <1>4, <4>2 DEF EdgeQueued
    <3> QED BY <3>1, <3>2
  <2> QED BY <1>8, <2>2, <2>3, <2>4 DEF EdgesAccountedFor
<1> QED BY <1>10, <1>11, <1>12 DEF OrderInv

(* The head of a channel is delivered: every edge before it was delivered or
   discarded, and every edge after it is still on its way. *)
LEMMA HeadIsNext ==
    ASSUME TypeOK, OrderInv, NEW k \in Consumers, Deliver(k)
    PROVE  /\ OrderInv'
           /\ LET e == Oldest(queue[InputOf[k]])
              IN  InOrder(InputOf[k], e) /\ got' = [got EXCEPT ![InputOf[k]][e.from] = e]
<1> DEFINE c == InputOf[k]
<1>0. c \in Channels
  BY ChannelAssumption
<1>1. queue[c] \in SUBSET Envelope /\ queue[c] # {}
  BY <1>0 DEF Deliver, TypeOK
<1>2. PICK e \in queue[c] : e = Oldest(queue[c]) /\ \A f \in queue[c] : e.seq <= f.seq
  BY <1>1, OldestIsFirst
<1> DEFINE q == e.from
<1>3. /\ queue' = [queue EXCEPT ![c] = @ \ {e}]
      /\ got' = [got EXCEPT ![c][q] = e]
      /\ UNCHANGED <<arrivals, revoked, cancelled, edges, blocked, discarded>>
  BY <1>2 DEF Deliver
<1>4. /\ edges \in [Producers -> Nat]
      /\ arrivals \in [Channels -> Nat]
      /\ \A d \in Channels, p \in Producers : got[d][p].edge \in Nat /\ got[d][p].seq \in Nat
      /\ \A d \in Channels : \A f \in queue[d] :
            f.from \in Producers /\ f.edge \in Nat /\ f.seq \in Nat /\ f.structural \in BOOLEAN
  BY DEF TypeOK, Envelope
<1>5. QueuedBetween(c) /\ QueuedInOrder(c)
  BY <1>0 DEF OrderInv
<1>6. q \in Producers /\ OutputOf[q] = c
  BY <1>0, <1>2, <1>4, <1>5 DEF QueuedBetween
<1>7. /\ queue'[c] = queue[c] \ {e}
      /\ \A d \in Channels \ {c} : queue'[d] = queue[d]
      /\ got'[c][q] = e
      /\ \A d \in Channels, p \in Producers : d # c \/ p # q => got'[d][p] = got[d][p]
  BY <1>0, <1>3, <1>6 DEF TypeOK
<1>8. \A f \in queue[c] \ {e} :
         /\ e.seq < f.seq
         /\ f.from = q => e.edge <= f.edge /\ (f.structural => e.edge < f.edge)
  <2>1. ASSUME NEW f \in queue[c] \ {e}
        PROVE  e.seq < f.seq
    <3>1. e.seq <= f.seq /\ e.seq # f.seq
      BY <1>2, <1>5, <2>1 DEF QueuedInOrder
    <3>2. e.seq \in Nat /\ f.seq \in Nat
      BY <1>0, <1>4, <2>1
    <3> QED BY <3>1, <3>2
  <2> QED BY <1>5, <2>1 DEF QueuedInOrder
<1>9. /\ got[c][q].seq < e.seq /\ e.seq <= arrivals[c]
      /\ got[c][q].edge <= e.edge /\ e.edge <= edges[q]
  BY <1>2, <1>5 DEF QueuedBetween
<1>10. EdgesAccountedFor(q) /\ BlockedIsLast(q)
  BY <1>6 DEF OrderInv
<1>11. InOrder(c, e)
  <2>1. ASSUME NEW n \in (got[c][q].edge + 1)..e.edge
        PROVE  (n = e.edge /\ e.structural) \/ <<q, n>> \in discarded[c]
    <3>1. n \in (got[c][q].edge + 1)..edges[q]
      BY <1>0, <1>2, <1>4, <1>6, <1>9
    <3>2. EdgeQueued(c, q, n) \/ <<q, n>> \in discarded[c] \/ EdgePending(c, q, n)
      BY <1>6, <1>10, <3>1 DEF EdgesAccountedFor
    <3>3. ~EdgePending(c, q, n)
      BY <1>0, <1>2, <1>4, <2>1 DEF EdgePending
    <3>4. EdgeQueued(c, q, n) => n = e.edge /\ e.structural
      BY <1>0, <1>2, <1>4, <1>8, <2>1 DEF EdgeQueued
    <3> QED BY <3>2, <3>3, <3>4
  <2> QED BY <1>9, <2>1 DEF InOrder
<1>12. ASSUME NEW d \in Channels
       PROVE  QueuedBetween(d)' /\ QueuedInOrder(d)'
  <2>1. QueuedBetween(d) /\ QueuedInOrder(d)
    BY DEF OrderInv
  <2>2. CASE d # c
    <3>1. queue'[d] = queue[d] /\ \A p \in Producers : got'[d][p] = got[d][p]
      BY <1>7, <2>2
    <3> QED BY <1>3, <1>4, <2>1, <3>1 DEF QueuedBetween, QueuedInOrder
  <2>3. CASE d = c
    <3>1. QueuedInOrder(c)'
      BY <1>5, <1>7 DEF QueuedInOrder
    <3>2. ASSUME NEW f \in queue[c] \ {e}
          PROVE  /\ OutputOf[f.from] = c
                 /\ got'[c][f.from].seq < f.seq /\ f.seq <= arrivals[c]
                 /\ got'[c][f.from].edge <= f.edge /\ f.edge <= edges[f.from]
      <4>1. CASE f.from = q
        BY <1>5, <1>7, <1>8, <4>1 DEF QueuedBetween
      <4>2. CASE f.from # q
        BY <1>0, <1>4, <1>5, <1>7, <4>2 DEF QueuedBetween
      <4> QED BY <4>1, <4>2
    <3>3. QueuedBetween(c)'
      BY <1>3, <1>7, <3>2 DEF QueuedBetween
    <3> QED BY <2>3, <3>1, <3>3
  <2> QED BY <2>2, <2>3
<1>13. ASSUME NEW p \in Producers
       PROVE  EdgesAccountedFor(p)' /\ BlockedIsLast(p)' /\ GotBounded(p)'
  <2> DEFINE d == OutputOf[p]
  <2>0. d \in Channels
    BY ChannelAssumption
  <2>1. EdgesAccountedFor(p) /\ BlockedIsLast(p) /\ GotBounded(p)
    BY DEF OrderInv
  <2>2. CASE p # q
    <3>1. got'[d][p] = got[d][p]
      BY <1>7, <2>0, <2>2
    <3>2. /\ \A f \in queue[d] : f.from = p => f \in queue'[d]
          /\ queue'[d] \subseteq queue[d]
      BY <1>7, <2>0, <2>2
    <3>3. BlockedIsLast(p)' /\ GotBounded(p)'
      BY <1>3, <2>1, <3>1, <3>2 DEF BlockedIsLast, GotBounded
    <3>4. ASSUME NEW n \in (got[d][p].edge + 1)..edges[p]
          PROVE  (EdgeQueued(d, p, n) \/ <<p, n>> \in discarded[d] \/ EdgePending(d, p, n))'
      <4>1. EdgeQueued(d, p, n) \/ <<p, n>> \in discarded[d] \/ EdgePending(d, p, n)
        BY <2>1 DEF EdgesAccountedFor
      <4> QED BY <1>3, <3>2, <4>1 DEF EdgeQueued, EdgePending
    <3> QED BY <1>3, <3>1, <3>3, <3>4 DEF EdgesAccountedFor
  <2>3. CASE p = q
    <3>1. GotBounded(q)'
      BY <1>3, <1>6, <1>7, <1>9 DEF GotBounded
    <3>2. BlockedIsLast(q)'
      BY <1>2, <1>3, <1>6, <1>7, <1>10 DEF BlockedIsLast
    <3>3. ASSUME NEW n \in (e.edge + 1)..edges[q]
          PROVE  (EdgeQueued(c, q, n) \/ <<q, n>> \in discarded[c] \/ EdgePending(c, q, n))'
      <4>1. n \in (got[c][q].edge + 1)..edges[q]
        BY <1>0, <1>2, <1>4, <1>6, <1>9
      <4>2. EdgeQueued(c, q, n) \/ <<q, n>> \in discarded[c] \/ EdgePending(c, q, n)
        BY <1>6, <1>10, <4>1 DEF EdgesAccountedFor
      <4>3. n # e.edge
        BY <1>0, <1>2, <1>4
      <4> QED BY <1>3, <1>7, <4>2, <4>3 DEF EdgeQueued, EdgePending
    <3>4. EdgesAccountedFor(q)'
      BY <1>3, <1>6, <1>7, <3>3 DEF EdgesAccountedFor
    <3> QED BY <2>3, <3>1, <3>2, <3>4
  <2> QED BY <2>2, <2>3
<1>14. OrderInv'
  BY <1>12, <1>13 DEF OrderInv
<1> QED BY <1>2, <1>3, <1>11, <1>14

(***************************************************************************)
(* The invariant is inductive.                                             *)
(***************************************************************************)
LEMMA InitOrder == Init => OrderInv
<1> SUFFICES ASSUME Init PROVE OrderInv
  OBVIOUS
<1>1. \A c \in Channels : QueuedBetween(c) /\ QueuedInOrder(c)
  BY DEF Init, QueuedBetween, QueuedInOrder
<1>2. ASSUME NEW p \in Producers
      PROVE  EdgesAccountedFor(p) /\ BlockedIsLast(p) /\ GotBounded(p)
  <2>1. /\ got[OutputOf[p]][p].edge = 0 /\ got[OutputOf[p]][p].seq = 0
        /\ edges[p] = 0 /\ arrivals[OutputOf[p]] = 0 /\ blocked[p] = None
    BY ChannelAssumption DEF Init, NothingYet
  <2>2. EdgesAccountedFor(p)
    BY <2>1 DEF EdgesAccountedFor
  <2> QED BY <2>1, <2>2 DEF BlockedIsLast, GotBounded
<1> QED BY <1>1, <1>2 DEF OrderInv

LEMMA EmitOrder ==
    ASSUME TypeOK, OrderInv, NEW p \in Producers,
           NEW structural \in BOOLEAN, NEW bytes \in 0..MaxBytes, Emit(p, structural, bytes)
    PROVE  OrderInv'
<1> DEFINE c == OutputOf[p]
           edge == IF structural THEN edges[p] + 1 ELSE edges[p]
           pkt == [from |-> p, edge |-> edge, structural |-> structural, bytes |-> bytes]
<1>0. c \in Channels
  BY ChannelAssumption
<1>1. /\ pkt \in Packet /\ pkt.from = p
      /\ pkt.edge = IF pkt.structural THEN edges[p] + 1 ELSE edges[p]
  BY DEF TypeOK, Packet
<1>2. /\ p \notin cancelled /\ blocked[p] = None
      /\ edges' = [edges EXCEPT ![p] = pkt.edge]
      /\ Put(p, pkt)
      /\ UNCHANGED <<revoked, cancelled, got, discarded>>
  BY DEF Emit
<1> HIDE DEF pkt
<1>3. CASE ~Gone(c, p) /\ Accept(c, pkt)
  BY <1>1, <1>2, <1>3, AcceptedInOrder DEF Gone
<1>4. CASE Gone(c, p) /\ PutCanceled(c, pkt)
  BY <1>0, <1>1, <1>2, <1>4, EmittedNotAccepted DEF PutCanceled, Gone
<1>5. CASE Wait(c, pkt)
  BY <1>0, <1>1, <1>2, <1>5, EmittedNotAccepted DEF Wait
<1>6. CASE Drop(c, pkt)
  <2>1. /\ \A d \in Channels : queue'[d] \subseteq queue[d]
        /\ \A d \in Channels : \A e \in queue[d] \ queue'[d] : ~e.structural
    BY <1>0, <1>6 DEF Drop, Droppable, TypeOK
  <2>2. ~pkt.structural /\ blocked' = [blocked EXCEPT ![p] = None] /\ arrivals' = arrivals
    BY <1>1, <1>6 DEF Drop, MustWait
  <2> QED BY <1>1, <1>2, <2>1, <2>2, EmittedNotAccepted
<1> QED BY <1>2, <1>3, <1>4, <1>5, <1>6 DEF Put

LEMMA PollOrder ==
    ASSUME TypeOK, OrderInv, NEW p \in Producers, Poll(p)
    PROVE  OrderInv'
<1> DEFINE c == OutputOf[p]
           pkt == blocked[p]
<1>0. c \in Channels
  BY ChannelAssumption
<1>1. /\ pkt \in Packet /\ pkt.from = p /\ pkt.edge = edges[p]
      /\ UNCHANGED <<revoked, cancelled, edges, got, discarded>>
      /\ Put(p, pkt)
  BY DEF Poll, TypeOK, OrderInv, BlockedIsLast
<1>2. edges' = [edges EXCEPT ![p] = pkt.edge]
  BY <1>1 DEF TypeOK
<1>3. CASE ~Gone(c, p) /\ Accept(c, pkt)
  BY <1>1, <1>2, <1>3, AcceptedInOrder DEF Gone
<1>4. CASE Gone(c, p) /\ PutCanceled(c, pkt)
  <2>1. /\ p \in cancelled \/ revoked[c]
        /\ blocked'[p] = None
        /\ \A q \in Producers \ {p} : blocked'[q] = blocked[q]
        /\ UNCHANGED <<queue, arrivals>>
    BY <1>1, <1>4 DEF PutCanceled, Gone, TypeOK
  <2> QED BY <1>0, <1>1, <2>1, NothingMoves
<1>5. CASE Wait(c, pkt)
  <2>1. blocked' = blocked /\ UNCHANGED <<queue, arrivals>>
    BY <1>1, <1>5 DEF Wait, TypeOK
  <2> QED BY <1>1, <2>1, NothingMoves
<1>6. CASE Drop(c, pkt)
  <2>1. /\ \A d \in Channels : queue'[d] \subseteq queue[d]
        /\ \A d \in Channels : \A e \in queue[d] \ queue'[d] : ~e.structural
    BY <1>0, <1>6 DEF Drop, Droppable, TypeOK
  <2>2. /\ ~pkt.structural /\ arrivals' = arrivals
        /\ blocked'[p] = None
        /\ \A q \in Producers \ {p} : blocked'[q] = blocked[q]
    BY <1>1, <1>6 DEF Drop, MustWait, TypeOK
  <2> QED BY <1>1, <2>1, <2>2, NothingMoves
<1> QED BY <1>1, <1>3, <1>4, <1>5, <1>6 DEF Put

LEMMA ConsumerOrder ==
    ASSUME TypeOK, OrderInv, NEW k \in Consumers, ConsumerStep(k)
    PROVE  OrderInv'
<1>1. CASE Deliver(k)
  BY <1>1, HeadIsNext
<1>2. CASE /\ UNCHANGED <<queue, arrivals, revoked, edges, blocked, got, discarded>>
           /\ cancelled \subseteq cancelled'
  BY <1>2, NothingMoves
<1> QED
  BY <1>1, <1>2 DEF ConsumerStep, Get, WakeUp, Arm, GetTimeout, ReadCanceled, Rearm, chanVars

LEMMA RemoveOrder ==
    ASSUME TypeOK, OrderInv, NEW c \in Channels, NEW D \in SUBSET queue[c], Remove(c, D),
           UNCHANGED <<arrivals, cancelled, edges, blocked, got>>,
           \A d \in Channels : revoked[d] => revoked'[d]
    PROVE  OrderInv'
<1>1. /\ queue'[c] = queue[c] \ D
      /\ \A d \in Channels \ {c} : queue'[d] = queue[d]
      /\ \A d \in Channels : discarded[d] \subseteq discarded'[d]
      /\ EdgesIn(D) \subseteq discarded'[c]
  BY DEF Remove, TypeOK
<1>2. \A d \in Channels : \A e \in queue[d] \ queue'[d] :
         e.structural => <<e.from, e.edge>> \in discarded'[d]
  BY <1>1 DEF EdgesIn
<1> QED BY <1>1, <1>2, NothingMoves

LEMMA RuntimeOrder ==
    ASSUME TypeOK, OrderInv, RuntimeStep
    PROVE  OrderInv'
<1>1. ASSUME NEW c \in Channels, NEW p \in Producers, NEW n \in 1..MaxPackets,
             DiscardOccurrence(c, p, n)
      PROVE  OrderInv'
  <2> DEFINE D == {e \in queue[c] : e.from = p /\ OccurrenceOf(e) = n}
  <2>1. Remove(c, D) /\ UNCHANGED <<arrivals, revoked, nodeVars, got>>
    BY <1>1 DEF DiscardOccurrence
  <2>2. D \in SUBSET queue[c]
    OBVIOUS
  <2> HIDE DEF D
  <2> QED BY <2>1, <2>2, RemoveOrder DEF nodeVars
<1>2. ASSUME NEW c \in Channels, Clear(c)
      PROVE  OrderInv'
  BY <1>2, RemoveOrder DEF Clear, nodeVars
<1>3. ASSUME NEW c \in Channels, Revoke(c)
      PROVE  OrderInv'
  <2>1. \A d \in Channels : revoked[d] => revoked'[d]
    BY <1>3 DEF Revoke, TypeOK
  <2> QED BY <1>3, <2>1, RemoveOrder DEF Revoke
<1>4. ASSUME NEW n \in Nodes, Cancel(n)
      PROVE  OrderInv'
  BY <1>4, NothingMoves DEF Cancel, chanVars
<1>5. ASSUME NEW n \in Nodes, KillTask(n)
      PROVE  OrderInv'
  <2>1. /\ UNCHANGED <<queue, arrivals, revoked, cancelled, edges, got, discarded>>
        /\ \A p \in Producers :
              blocked'[p] = blocked[p] \/ (blocked'[p] = None /\ p \in cancelled')
    BY <1>5 DEF KillTask, chanVars, TypeOK
  <2> QED BY <2>1, NothingMoves
<1> QED BY <1>1, <1>2, <1>3, <1>4, <1>5 DEF RuntimeStep

LEMMA NextOrder == TypeOK /\ OrderInv /\ [Next]_vars => OrderInv'
<1> SUFFICES ASSUME TypeOK, OrderInv, [Next]_vars PROVE OrderInv'
  OBVIOUS
<1>1. ASSUME NEW p \in Producers, PutTimeout(p)
      PROVE  OrderInv'
  <2>1. /\ UNCHANGED <<queue, arrivals, revoked, cancelled, edges, got, discarded>>
        /\ ~blocked[p].structural /\ blocked'[p] = None
        /\ \A q \in Producers \ {p} : blocked'[q] = blocked[q]
    BY <1>1 DEF PutTimeout, chanVars, TypeOK
  <2> QED BY <2>1, NothingMoves
<1>2. CASE UNCHANGED vars
  BY <1>2, NothingMoves DEF vars
<1> QED BY <1>1, <1>2, EmitOrder, PollOrder, ConsumerOrder, RuntimeOrder DEF Next, ProducerStep

(* Between emit() and read() every lifecycle edge is accounted for. *)
THEOREM EdgesAreAccountedFor == Spec => []OrderInv
BY InitOrder, NextOrder, TypeCorrect, PTL DEF Spec

LEMMA StepInOrder ==
    TypeOK /\ OrderInv /\ [Next]_vars =>
        [\A c \in Channels, p \in Producers :
            got'[c][p] # got[c][p] => InOrder(c, got'[c][p])]_vars
<1> SUFFICES ASSUME TypeOK, OrderInv, Next,
                    NEW c \in Channels, NEW p \in Producers, got'[c][p] # got[c][p]
             PROVE  InOrder(c, got'[c][p])
  BY DEF vars
<1>1. PICK k \in Consumers : Deliver(k)
  <2>1. got' # got
    OBVIOUS
  <2> QED
    BY <2>1 DEF Next, ProducerStep, Emit, Poll, PutTimeout, ConsumerStep, Get, WakeUp, Arm,
                GetTimeout, ReadCanceled, Rearm, RuntimeStep, DiscardOccurrence, Clear, Revoke,
                Cancel, KillTask
<1> DEFINE e == Oldest(queue[InputOf[k]])
<1>2. InOrder(InputOf[k], e) /\ got' = [got EXCEPT ![InputOf[k]][e.from] = e]
  BY <1>1, HeadIsNext
<1> HIDE DEF e
<1>3. c = InputOf[k] /\ p = e.from /\ got'[c][p] = e
  BY <1>2, ChannelAssumption DEF TypeOK
<1> QED BY <1>2, <1>3

(* A delivery never skips a lifecycle edge that nobody discarded, and never
   goes back. *)
THEOREM EdgesDeliveredInOrder == Spec => DeliveredInOrder
BY StepInOrder, TypeCorrect, EdgesAreAccountedFor, PTL DEF Spec, DeliveredInOrder

(***************************************************************************)
(* The artifact counters.                                                  *)
(***************************************************************************)
(* The counters u are what the queues q hold. *)
Exact(q, u) ==
    \A k \in Counters : IsFiniteSet(ResidentCells(k, q)) /\ u[k] = Cardinality(ResidentCells(k, q))

LEMMA BytesOfOne ==
    ASSUME NEW e, e.bytes \in 0..MaxBytes
    PROVE  /\ IsFiniteSet(ByteCells({e})) /\ BytesOf({e}) = e.bytes
<1>1. ByteCells({e}) = {e} \X (1..e.bytes)
  BY ChannelAssumption DEF ByteCells
<1>2. IsFiniteSet(1..e.bytes) /\ Cardinality(1..e.bytes) = e.bytes
  BY FS_Interval
<1>3. IsFiniteSet({e}) /\ Cardinality({e}) = 1
  BY FS_Singleton
<1>4. IsFiniteSet({e} \X (1..e.bytes))
      /\ Cardinality({e} \X (1..e.bytes)) = Cardinality({e}) * Cardinality(1..e.bytes)
  BY <1>2, <1>3, FS_Product
<1>5. 1 * e.bytes = e.bytes
  OBVIOUS
<1>6. Cardinality({e} \X (1..e.bytes)) = e.bytes
  BY <1>2, <1>3, <1>4, <1>5
<1> QED BY <1>1, <1>4, <1>6 DEF BytesOf

(* A channel's share of what a counter counts. *)
LEMMA ShareOf ==
    ASSUME NEW c, NEW B, IsFiniteSet(B)
    PROVE  IsFiniteSet({c} \X B) /\ Cardinality({c} \X B) = Cardinality(B)
                                 /\ Cardinality(B) \in Nat
<1>1. IsFiniteSet({c}) /\ Cardinality({c}) = 1 /\ Cardinality(B) \in Nat
  BY FS_Singleton, FS_CardinalityType
<1>2. IsFiniteSet({c} \X B) /\ Cardinality({c} \X B) = Cardinality({c}) * Cardinality(B)
  BY <1>1, FS_Product
<1> QED BY <1>1, <1>2

(* What leaves a queue is released, and the clamp at zero does not show. *)
LEMMA LeavesExact ==
    ASSUME NEW q \in [Channels -> SUBSET Envelope], NEW u \in [Counters -> Nat], Exact(q, u),
           NEW c \in Channels, IsFiniteSet(q[c]), NEW V \in SUBSET q[c],
           NEW after, after = [q EXCEPT ![c] = q[c] \ V]
    PROVE  Exact(after, ReleasedFrom(u, c, BytesOf(V)))
<1>1. IsFiniteSet(ByteCells(V))
  BY FS_Subset, BytesNat
<1>2. /\ after \in [Channels -> SUBSET Envelope] /\ after[c] = q[c] \ V
      /\ \A d \in Channels \ {c} : after[d] = q[d]
  OBVIOUS
<1> SUFFICES ASSUME NEW k \in Counters
             PROVE  /\ IsFiniteSet(ResidentCells(k, after))
                    /\ ReleasedFrom(u, c, BytesOf(V))[k] = Cardinality(ResidentCells(k, after))
  BY DEF Exact
<1>3. CASE k \in CountersOf[c]
  <2> DEFINE R == ResidentCells(k, q)
             S == {c} \X ByteCells(V)
  <2>1. IsFiniteSet(S) /\ Cardinality(S) = BytesOf(V) /\ BytesOf(V) \in Nat
    BY <1>1, ShareOf DEF BytesOf
  <2>2. IsFiniteSet(R) /\ u[k] = Cardinality(R)
    BY DEF Exact
  <2>3. S \subseteq R
    BY <1>3 DEF ResidentCells, ByteCells
  <2>4. ResidentCells(k, after) = R \ S
    <3>1. ByteCells(q[c] \ V) = ByteCells(q[c]) \ ByteCells(V)
      BY DEF ByteCells
    <3>2. ASSUME NEW x PROVE x \in ResidentCells(k, after) <=> x \in R \ S
      <4>1. x \in ResidentCells(k, after) <=>
               \E d \in Channels : k \in CountersOf[d] /\ x \in {d} \X ByteCells(after[d])
        BY DEF ResidentCells
      <4>2. x \in R <=>
               \E d \in Channels : k \in CountersOf[d] /\ x \in {d} \X ByteCells(q[d])
        BY DEF ResidentCells
      <4> QED BY <1>2, <1>3, <3>1, <4>1, <4>2
    <3> QED BY <3>2
  <2>5. R \cap S = S
    BY <2>3
  <2> HIDE DEF R, S
  <2>6. IsFiniteSet(R \ S) /\ Cardinality(R \ S) = Cardinality(R) - Cardinality(R \cap S)
    BY <2>2, FS_Difference
  <2>7. Cardinality(S) <= Cardinality(R) /\ Cardinality(R) \in Nat
    BY <2>2, <2>3, FS_Subset, FS_CardinalityType
  <2>8. ReleasedFrom(u, c, BytesOf(V))[k] = u[k] - BytesOf(V)
    BY <1>3, <2>1, <2>2, <2>7 DEF ReleasedFrom, Monus
  <2> QED BY <2>1, <2>2, <2>4, <2>5, <2>6, <2>8
<1>4. CASE k \notin CountersOf[c]
  <2>1. ResidentCells(k, after) = ResidentCells(k, q)
    BY <1>2, <1>4 DEF ResidentCells
  <2> QED BY <1>4, <2>1 DEF Exact, ReleasedFrom
<1> QED BY <1>3, <1>4

(* What enters a queue is reserved. *)
LEMMA EntersExact ==
    ASSUME NEW q \in [Channels -> SUBSET Envelope], NEW u \in [Counters -> Nat], Exact(q, u),
           NEW c \in Channels, NEW e \in Envelope, e \notin q[c],
           NEW after, after = [q EXCEPT ![c] = q[c] \cup {e}]
    PROVE  Exact(after, ReservedIn(u, c, e.bytes))
<1>1. e.bytes \in 0..MaxBytes /\ IsFiniteSet(ByteCells({e})) /\ BytesOf({e}) = e.bytes
  BY BytesOfOne DEF Envelope
<1>2. /\ after[c] = q[c] \cup {e}
      /\ \A d \in Channels \ {c} : after[d] = q[d]
  OBVIOUS
<1> SUFFICES ASSUME NEW k \in Counters
             PROVE  /\ IsFiniteSet(ResidentCells(k, after))
                    /\ ReservedIn(u, c, e.bytes)[k] = Cardinality(ResidentCells(k, after))
  BY DEF Exact
<1>3. CASE k \in CountersOf[c]
  <2> DEFINE R == ResidentCells(k, q)
             S == {c} \X ByteCells({e})
  <2>1. IsFiniteSet(S) /\ Cardinality(S) = e.bytes /\ e.bytes \in Nat
    BY <1>1, ShareOf, ChannelAssumption DEF BytesOf
  <2>2. IsFiniteSet(R) /\ u[k] = Cardinality(R) /\ Cardinality(R) \in Nat
    BY FS_CardinalityType DEF Exact
  <2>3. R \cap S = {}
    BY DEF ResidentCells, ByteCells
  <2>4. ResidentCells(k, after) = R \cup S
    <3>1. ByteCells(q[c] \cup {e}) = ByteCells(q[c]) \cup ByteCells({e})
      BY DEF ByteCells
    <3>2. ASSUME NEW x PROVE x \in ResidentCells(k, after) <=> x \in R \cup S
      <4>1. x \in ResidentCells(k, after) <=>
               \E d \in Channels : k \in CountersOf[d] /\ x \in {d} \X ByteCells(after[d])
        BY DEF ResidentCells
      <4>2. x \in R <=>
               \E d \in Channels : k \in CountersOf[d] /\ x \in {d} \X ByteCells(q[d])
        BY DEF ResidentCells
      <4> QED BY <1>2, <1>3, <3>1, <4>1, <4>2
    <3> QED BY <3>2
  <2> HIDE DEF R, S
  <2>5. IsFiniteSet(R \cup S)
        /\ Cardinality(R \cup S) = Cardinality(R) + Cardinality(S) - Cardinality(R \cap S)
    BY <2>1, <2>2, FS_Union
  <2>6. Cardinality(R \cap S) = 0
    BY <2>3, FS_EmptySet
  <2>7. ReservedIn(u, c, e.bytes)[k] = u[k] + e.bytes
    BY <1>3 DEF ReservedIn
  <2>8. Cardinality(R \cup S) = u[k] + e.bytes
    BY <2>1, <2>2, <2>5, <2>6
  <2> QED BY <2>4, <2>5, <2>7, <2>8
<1>4. CASE k \notin CountersOf[c]
  <2>1. ResidentCells(k, after) = ResidentCells(k, q)
    BY <1>2, <1>4 DEF ResidentCells
  <2> QED BY <1>4, <2>1 DEF Exact, ReservedIn
<1> QED BY <1>3, <1>4

LEMMA PutExact ==
    ASSUME TypeOK, OrderInv, Exact(queue, used),
           NEW p \in Producers, NEW pkt \in Packet, pkt.from = p, Put(p, pkt)
    PROVE  Exact(queue', used')
<1> DEFINE c == OutputOf[p]
<1>0. /\ c \in Channels /\ queue \in [Channels -> SUBSET Envelope] /\ used \in [Counters -> Nat]
      /\ IsFiniteSet(queue[c])
  BY ChannelAssumption DEF TypeOK
<1>1. CASE Accept(c, pkt)
  <2>1. PICK V \in Evictions(c) :
           /\ queue' = [queue EXCEPT ![c] = (queue[c] \ V) \cup {Enveloped(c, pkt)}]
           /\ used' = ReservedIn(ReleasedFrom(used, c, BytesOf(V)), c, pkt.bytes)
    BY <1>1 DEF Accept
  <2> DEFINE q == [queue EXCEPT ![c] = queue[c] \ V]
             e == Enveloped(c, pkt)
             u == ReleasedFrom(used, c, BytesOf(V))
  <2>2. V \in SUBSET queue[c] /\ IsFiniteSet(V)
    BY <1>0, <2>1, EvictsUpdates, FS_Subset DEF Droppable
  <2>3. e \in Envelope /\ e.bytes = pkt.bytes /\ e.seq = arrivals[c] + 1
    BY <1>0 DEF Enveloped, Envelope, Packet, TypeOK
  <2>4. e \notin queue[c]
    <3>1. arrivals[c] \in Nat
      BY <1>0 DEF TypeOK
    <3>2. \A f \in queue[c] : f.seq <= arrivals[c]
      BY <1>0 DEF OrderInv, QueuedBetween
    <3> QED BY <2>3, <3>1, <3>2
  <2>5. Exact(q, u)
    BY <1>0, <2>2, LeavesExact
  <2>6. q \in [Channels -> SUBSET Envelope] /\ u \in [Counters -> Nat] /\ q[c] = queue[c] \ V
    BY <1>0, <2>2, BytesNat, ReleasedType
  <2>7. queue' = [q EXCEPT ![c] = q[c] \cup {e}]
    BY <1>0, <2>1, <2>6
  <2>8. used' = ReservedIn(u, c, e.bytes)
    BY <2>1, <2>3
  <2> HIDE DEF q, e, u
  <2> QED BY <1>0, <2>3, <2>4, <2>5, <2>6, <2>7, <2>8, EntersExact
<1>2. CASE Drop(c, pkt)
  <2> DEFINE V == IF Lossy(c) THEN Droppable(queue[c]) ELSE {}
  <2>1. V \in SUBSET queue[c]
    BY DEF Droppable
  <2>2. queue' = [queue EXCEPT ![c] = queue[c] \ V] /\ used' = ReleasedFrom(used, c, BytesOf(V))
    BY <1>2 DEF Drop
  <2> HIDE DEF V
  <2> QED BY <1>0, <2>1, <2>2, LeavesExact
<1>3. CASE UNCHANGED <<queue, used>>
  BY <1>3
<1> QED BY <1>1, <1>2, <1>3 DEF Put, PutCanceled, Wait

LEMMA DeliverExact ==
    ASSUME TypeOK, Exact(queue, used), NEW k \in Consumers, Deliver(k)
    PROVE  Exact(queue', used')
<1> DEFINE c == InputOf[k]
           e == Oldest(queue[c])
<1>0. /\ c \in Channels /\ queue \in [Channels -> SUBSET Envelope] /\ used \in [Counters -> Nat]
      /\ IsFiniteSet(queue[c])
  BY ChannelAssumption DEF TypeOK
<1>1. e \in queue[c] /\ e.bytes \in 0..MaxBytes
  BY <1>0, OldestIsFirst DEF Deliver, Envelope
<1>2. queue' = [queue EXCEPT ![c] = queue[c] \ {e}] /\ used' = ReleasedFrom(used, c, BytesOf({e}))
  BY <1>1, BytesOfOne DEF Deliver
<1> HIDE DEF c, e
<1> QED BY <1>0, <1>1, <1>2, LeavesExact

LEMMA RemoveExact ==
    ASSUME TypeOK, Exact(queue, used), NEW c \in Channels, NEW D \in SUBSET queue[c], Remove(c, D)
    PROVE  Exact(queue', used')
BY LeavesExact DEF Remove, TypeOK

LEMMA NextExact == TypeOK /\ OrderInv /\ Exact(queue, used) /\ [Next]_vars => Exact(queue', used')
<1> SUFFICES ASSUME TypeOK, OrderInv, Exact(queue, used), [Next]_vars PROVE Exact(queue', used')
  OBVIOUS
<1>0. CASE UNCHANGED <<queue, used>>
  BY <1>0
<1>1. ASSUME NEW p \in Producers, ProducerStep(p) PROVE Exact(queue', used')
  <2>1. ASSUME NEW structural \in BOOLEAN, NEW bytes \in 0..MaxBytes, Emit(p, structural, bytes)
        PROVE  Exact(queue', used')
    <3> DEFINE pkt == [from |-> p, edge |-> IF structural THEN edges[p] + 1 ELSE edges[p],
                       structural |-> structural, bytes |-> bytes]
    <3>1. pkt \in Packet /\ pkt.from = p
      BY DEF TypeOK, Packet
    <3>2. Put(p, pkt)
      BY <2>1 DEF Emit
    <3> HIDE DEF pkt
    <3> QED BY <3>1, <3>2, PutExact
  <2>2. CASE Poll(p)
    BY <2>2, PutExact DEF Poll, TypeOK
  <2> QED BY <1>0, <1>1, <2>1, <2>2 DEF ProducerStep, PutTimeout, chanVars
<1>2. ASSUME NEW k \in Consumers, ConsumerStep(k) PROVE Exact(queue', used')
  <2>1. CASE Deliver(k)
    BY <2>1, DeliverExact
  <2> QED BY <1>0, <1>2, <2>1
          DEF ConsumerStep, Get, Arm, WakeUp, GetTimeout, ReadCanceled, Rearm, chanVars
<1>3. CASE RuntimeStep
  <2>1. ASSUME NEW c \in Channels, NEW D \in SUBSET queue[c], Remove(c, D) PROVE Exact(queue', used')
    BY <2>1, RemoveExact
  <2>2. ASSUME NEW c \in Channels, NEW p \in Producers, NEW n \in 1..MaxPackets,
               DiscardOccurrence(c, p, n)
        PROVE  Exact(queue', used')
    <3> DEFINE D == {e \in queue[c] : e.from = p /\ OccurrenceOf(e) = n}
    <3>1. Remove(c, D) /\ D \in SUBSET queue[c]
      BY <2>2 DEF DiscardOccurrence
    <3> QED BY <2>1, <3>1
  <2>3. ASSUME NEW c \in Channels, Clear(c) \/ Revoke(c) PROVE Exact(queue', used')
    BY <2>1, <2>3 DEF Clear, Revoke
  <2> QED BY <1>0, <1>3, <2>2, <2>3 DEF RuntimeStep, Cancel, KillTask, chanVars
<1> QED BY <1>0, <1>1, <1>2, <1>3 DEF Next, vars

(* The artifact counters are exact: no byte leaks, and release() never clamps
   a counter that was given back twice, however many channels share it. *)
THEOREM CountersHold == Spec => []CountersExact
<1>1. Init => Exact(queue, used)
  <2> SUFFICES ASSUME Init, NEW k \in Counters PROVE ResidentCells(k, queue) = {} /\ used[k] = 0
    BY FS_EmptySet DEF Exact
  <2> QED BY DEF Init, ResidentCells, ByteCells
<1>2. TypeOK /\ OrderInv /\ Exact(queue, used) /\ [Next]_vars => Exact(queue, used)'
  BY NextExact DEF Exact, ResidentCells
<1>3. Exact(queue, used) => CountersExact
  BY DEF Exact, CountersExact
<1> QED BY <1>1, <1>2, <1>3, TypeCorrect, EdgesAreAccountedFor, PTL DEF Spec
=============================================================================
