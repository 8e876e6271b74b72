---------------------------- MODULE KeyedChannel ----------------------------
(***************************************************************************)
(* The channel of an edge behind an operator that splits a stream:         *)
(* KeyedBoundedChannel of runtime/pipelines/runtime.py.  It holds a queue  *)
(* per stream and serves the streams in turn.                              *)
(*                                                                         *)
(* As in Channel, the contents are the set of the envelopes, ordered by    *)
(* arrival.  The ring of the ready keys is a set of places, ordered by     *)
(* ticket: what is appended takes the next ticket, the left end is the     *)
(* lowest one.  A packet is known by the number of the put() that carries  *)
(* it, which also orders the time stamps of the envelopes.                 *)
(*                                                                         *)
(* put() takes the lock of the condition on each pass of its loop, so the  *)
(* passes are separate steps.  Waiting is a poll: a put wakes when there   *)
(* is room, a get when there is an item.                                   *)
(***************************************************************************)
EXTENDS Naturals, FiniteSets

CONSTANTS
    Producers,    \* the tasks that emit to the edge
    Keys,         \* the streams of the packets
    Policies,     \* the drop policies the channel may be built with
    MaxSize,      \* capacity, in packets of all keys
    Limit,        \* limit of the artifact counter of the pipeline
    MaxBytes,     \* the largest artifact payload of a packet
    MaxPackets,   \* bound: packets emitted
    None          \* no packet

AllPolicies == {"block", "drop_updates", "drop_oldest", "drop_newest",
                "latest_only", "keyed_latest_only"}

ASSUME KeyedAssumption ==
    /\ Policies \subseteq AllPolicies
    /\ IsFiniteSet(Keys)
    /\ MaxSize \in Nat \ {0}
    /\ Limit \in Nat /\ MaxBytes \in Nat /\ MaxPackets \in Nat

Packet == [id : 1..MaxPackets, key : Keys, structural : BOOLEAN,
           bytes : 0..MaxBytes]

ASSUME NoPacketAssumption == None \notin Packet

VARIABLES
    policy,     \* the drop policy, fixed when the channel is built
    queue,      \* the envelopes of _queues_by_key, each with its arrival
    ring,       \* _ready_keys: <<key, ticket>>
    ready,      \* _ready_set
    depth,      \* _depth
    bytes,      \* in_memory_artifact_bytes of the metrics
    used,       \* what the counter of the pipeline believes is resident
    others,     \* what other channels of the pipeline hold of it
    revoked,    \* revoke() was called
    clock,      \* arrivals and tickets so far
    sent,       \* packets emitted
    putting,    \* producer -> the packet of its put(), or None
    waiting,    \* the producers whose put() waits for a slot
    cancelled,  \* the producers whose cancel_event is set
    owed,       \* the OPENs and CLOSEs that are neither delivered nor given up (history)
    overtaken   \* key -> deliveries of others since it took its place (history)

contentVars == <<queue, ring, ready, depth, bytes, used>>
producerVars == <<sent, putting, waiting, cancelled>>
vars == <<policy, queue, ring, ready, depth, bytes, used, others, revoked, clock, sent, putting,
          waiting, cancelled, owed, overtaken>>

Of(k, S) == {e \in S : e.key = k}
KeysOf(S) == {e.key : e \in S}
First(S) == CHOOSE e \in S : \A f \in S : e.arrival <= f.arrival
ByteCells(S) == {x \in S \X (1..MaxBytes) : x[2] <= x[1].bytes}
BytesOf(S) == Cardinality(ByteCells(S))
Monus(a, b) == IF b <= a THEN a - b ELSE 0

(***************************************************************************)
(* What leaves and what enters.                                            *)
(***************************************************************************)
\* V leaves the queues: a key without items gives up its place.
\* Mutant: it keeps it.
EmptiedNever(V) == {}
Emptied(V) == KeysOf(V) \ KeysOf(queue \ V)
Released(V) == Monus(used, BytesOf(V))

Leave(V) ==
    /\ queue' = queue \ V
    /\ ready' = ready \ Emptied(V)
    /\ ring' = {t \in ring : t[1] \notin Emptied(V)}
    /\ depth' = depth - Cardinality(V)
    /\ bytes' = Monus(bytes, BytesOf(V))
    /\ used' = Released(V)

\* V leaves and the packet enters: a key that is not ready takes the last place.
Enveloped(packet) ==
    [id |-> packet.id, key |-> packet.key,
     structural |-> packet.structural, bytes |-> packet.bytes, arrival |-> clock]
LeaveAndEnter(V, packet) ==
    /\ queue' = (queue \ V) \cup {Enveloped(packet)}
    /\ LET place == {t \in ring : t[1] \notin Emptied(V)}
           keys == ready \ Emptied(V)
       IN  /\ ready' = keys \cup {packet.key}
           /\ ring' = IF packet.key \in keys THEN place ELSE place \cup {<<packet.key, clock>>}
           /\ overtaken' = IF packet.key \in keys THEN overtaken
                           ELSE [overtaken EXCEPT ![packet.key] = 0]
    /\ depth' = depth - Cardinality(V) + 1
    /\ bytes' = Monus(bytes, BytesOf(V)) + packet.bytes
    /\ used' = Released(V) + packet.bytes
    /\ clock' = clock + 1

(***************************************************************************)
(* put()                                                                   *)
(***************************************************************************)
Lossy == policy \notin {"block", "drop_newest"}
EvictsAll == policy \in {"latest_only", "keyed_latest_only"}

\* Mutant: lifecycle edges are dropped like updates.
DroppableAny(S) == S
Droppable(S) == {e \in S : ~e.structural}

\* KEYED_LATEST_ONLY drops the updates of the key before it looks further.
Superseded(packet) ==
    IF policy = "keyed_latest_only" /\ ~packet.structural
    THEN Droppable(Of(packet.key, queue)) ELSE {}

\* The key whose first update began its put() first.
OldestKey(S) ==
    LET first == {First(Of(k, Droppable(S))) : k \in KeysOf(Droppable(S))}
    IN  (CHOOSE e \in first : \A f \in first : e.id <= f.id).key

\* What one pass evicts: updates of the key, else of the key with the oldest one.
Victims(packet, S) ==
    LET k == IF Droppable(Of(packet.key, S)) # {} THEN packet.key ELSE OldestKey(S)
    IN  IF ~Lossy \/ Droppable(S) = {} THEN {}
        ELSE IF EvictsAll THEN Droppable(Of(k, S))
        ELSE {First(Droppable(Of(k, S)))}

HasRoom(V) == depth - Cardinality(V) < MaxSize
InBudget(packet, V) ==
    packet.structural \/ packet.bytes = 0 \/ Released(V) + packet.bytes <= Limit

Returns(p) == putting' = [putting EXCEPT ![p] = None] /\ waiting' = waiting \ {p}

Put(p, k, structural, size) ==
    /\ putting[p] = None /\ sent < MaxPackets /\ p \notin cancelled
    /\ sent' = sent + 1
    /\ putting' = [putting EXCEPT ![p] =
          [id |-> sent + 1, key |-> k, structural |-> structural, bytes |-> size]]
    /\ owed' = IF structural THEN owed \cup {sent + 1} ELSE owed
    /\ UNCHANGED <<policy, contentVars, others, revoked, clock, waiting, cancelled, overtaken>>

\* The loop runs: at once, or when a slot is free.
\* Mutant: a slot too few wakes it.
InLoopBelow(p) ==
    /\ putting[p] # None
    /\ p \in waiting => depth + 1 < MaxSize
    /\ ~revoked /\ p \notin cancelled
InLoop(p) ==
    /\ putting[p] # None
    /\ p \in waiting => depth < MaxSize
    /\ ~revoked /\ p \notin cancelled

Accept(p) ==
    /\ InLoop(p)
    /\ LET V == Superseded(putting[p])
       IN  InBudget(putting[p], V) /\ HasRoom(V) /\ LeaveAndEnter(V, putting[p])
    /\ Returns(p)
    /\ UNCHANGED <<policy, others, revoked, sent, cancelled, owed>>

\* Something is evicted for the packet, and the loop runs again.
Evict(p) ==
    /\ InLoop(p)
    /\ LET V == Superseded(putting[p])
           W == Victims(putting[p], queue \ V)
       IN  /\ ~InBudget(putting[p], V) \/ ~HasRoom(V)
           /\ W # {}
           /\ Leave(V \cup W)
    /\ waiting' = waiting \ {p}
    /\ UNCHANGED <<policy, others, revoked, clock, sent, putting, cancelled, owed, overtaken>>

\* Nothing can be evicted: an update is dropped, except that BLOCK waits for a slot.
Drop(p) ==
    /\ InLoop(p)
    /\ ~putting[p].structural
    /\ LET V == Superseded(putting[p])
       IN  /\ ~InBudget(putting[p], V) \/ (~HasRoom(V) /\ policy # "block")
           /\ Victims(putting[p], queue \ V) = {}
           /\ Leave(V)
    /\ Returns(p)
    /\ UNCHANGED <<policy, others, revoked, clock, sent, cancelled, owed, overtaken>>

Wait(p) ==
    /\ InLoop(p)
    /\ InBudget(putting[p], {}) /\ ~HasRoom({})
    /\ putting[p].structural \/ policy = "block"
    /\ Victims(putting[p], queue) = {}
    /\ waiting' = waiting \cup {p}
    /\ UNCHANGED <<policy, contentVars, others, revoked, clock, sent, putting, cancelled, owed,
                   overtaken>>

\* Only an update has a deadline.
PutTimeout(p) ==
    /\ p \in waiting /\ ~putting[p].structural
    /\ Returns(p)
    /\ UNCHANGED <<policy, contentVars, others, revoked, clock, sent, cancelled, owed, overtaken>>

PutCanceled(p) ==
    /\ putting[p] # None
    /\ revoked \/ p \in cancelled
    /\ owed' = owed \ {putting[p].id}
    /\ Returns(p)
    /\ UNCHANGED <<policy, contentVars, others, revoked, clock, sent, cancelled, overtaken>>

(***************************************************************************)
(* get()                                                                   *)
(***************************************************************************)
\* The first place whose key holds something: the others are passed by.
Turn ==
    LET held == {t \in ring : t[1] \in KeysOf(queue)}
    IN  CHOOSE t \in held : \A u \in held : t[2] <= u[2]
Behind(t) == {u \in ring : t[2] < u[2]}

\* A key that still holds something goes to the end of the ring.
\* Mutant: it stays at the front.
PlacesAtFront(t, more) == IF more THEN Behind(t) \cup {t} ELSE Behind(t)
PlacesAfter(t, more) == IF more THEN Behind(t) \cup {<<t[1], clock>>} ELSE Behind(t)

Get ==
    /\ ~revoked /\ depth > 0
    /\ \E t \in ring : t[1] \in KeysOf(queue)
    /\ LET e == First(Of(Turn[1], queue))
           more == Of(Turn[1], queue) # {e}
       IN  /\ queue' = queue \ {e}
           /\ ring' = PlacesAfter(Turn, more)
           /\ ready' = {u[1] : u \in Behind(Turn)} \cup (IF more THEN {e.key} ELSE {})
           /\ depth' = depth - 1
           /\ bytes' = Monus(bytes, e.bytes)
           /\ used' = Monus(used, e.bytes)
           /\ owed' = owed \ {e.id}
           /\ overtaken' = [k \in Keys |-> IF k = e.key THEN 0
                                          ELSE IF k \in KeysOf(queue) THEN overtaken[k] + 1 ELSE 0]
    /\ clock' = clock + 1
    /\ UNCHANGED <<policy, others, revoked, producerVars>>

(***************************************************************************)
(* discard(), clear(), revoke(), cancellation and the rest of the budget.  *)
(***************************************************************************)
\* The packets of an occurrence, whichever they are.
Discard(V) ==
    /\ V # {}
    /\ Leave(V)
    /\ owed' = owed \ {e.id : e \in V}
    /\ UNCHANGED <<policy, others, revoked, clock, producerVars, overtaken>>

\* Mutant: the counter is left alone.
KeepUsed == used
ClearedUsed == Monus(used, bytes)
Clear ==
    /\ queue' = {} /\ ring' = {} /\ ready' = {} /\ depth' = 0 /\ bytes' = 0
    /\ used' = ClearedUsed
    /\ owed' = owed \ {e.id : e \in queue}
    /\ UNCHANGED <<policy, others, clock, producerVars, overtaken>>

\* The runtime stops: it clears its channels after it set the cancel events.
StopClears == cancelled = Producers /\ Clear /\ UNCHANGED revoked
Revoke == ~revoked /\ revoked' = TRUE /\ Clear

Cancel(p) ==
    /\ p \notin cancelled /\ cancelled' = cancelled \cup {p}
    /\ UNCHANGED <<policy, contentVars, others, revoked, clock, sent, putting, waiting, owed, overtaken>>

\* Other channels of the pipeline.
OthersReserve ==
    /\ used < Limit
    /\ others' = others + 1 /\ used' = used + 1
    /\ UNCHANGED <<policy, queue, ring, ready, depth, bytes, revoked, clock, producerVars, owed,
                   overtaken>>
OthersRelease ==
    /\ others > 0
    /\ others' = others - 1 /\ used' = Monus(used, 1)
    /\ UNCHANGED <<policy, queue, ring, ready, depth, bytes, revoked, clock, producerVars, owed,
                   overtaken>>

(***************************************************************************)
(* The specification.                                                      *)
(***************************************************************************)
Init ==
    /\ policy \in Policies
    /\ queue = {} /\ ring = {} /\ ready = {} /\ depth = 0 /\ bytes = 0
    /\ used = 0 /\ others = 0 /\ revoked = FALSE /\ clock = 0 /\ sent = 0
    /\ putting = [p \in Producers |-> None] /\ waiting = {} /\ cancelled = {}
    /\ owed = {}
    /\ overtaken = [k \in Keys |-> 0]

PutLoop(p) == Accept(p) \/ Evict(p) \/ Drop(p) \/ Wait(p) \/ PutCanceled(p)

Next ==
    \/ \E p \in Producers, k \in Keys, s \in BOOLEAN, n \in 0..MaxBytes : Put(p, k, s, n)
    \/ \E p \in Producers : PutLoop(p) \/ PutTimeout(p) \/ Cancel(p)
    \/ Get
    \/ \E V \in SUBSET queue : Discard(V)
    \/ StopClears \/ Revoke \/ OthersReserve \/ OthersRelease

Spec == Init /\ [][Next]_vars

\* The event loop runs the puts, and the node behind the edge reads.
FairSpec == Spec /\ WF_vars(Get) /\ \A p \in Producers : WF_vars(PutLoop(p))

(***************************************************************************)
(* Properties.                                                             *)
(***************************************************************************)
Envelope == [id : 1..MaxPackets, key : Keys, structural : BOOLEAN,
             bytes : 0..MaxBytes, arrival : Nat]

\* All keys together never hold more than the capacity.
TypeOK ==
    /\ policy \in Policies
    /\ queue \in SUBSET Envelope
    /\ ring \in SUBSET (Keys \X Nat) /\ ready \in SUBSET Keys
    /\ depth \in 0..MaxSize /\ bytes \in Nat /\ used \in Nat /\ others \in Nat
    /\ revoked \in BOOLEAN /\ clock \in Nat /\ sent \in 0..MaxPackets
    /\ putting \in [Producers -> Packet \cup {None}]
    /\ waiting \in SUBSET Producers /\ cancelled \in SUBSET Producers
    /\ \A p \in waiting : putting[p] # None
    /\ owed \in SUBSET (1..MaxPackets)
    /\ overtaken \in [Keys -> Nat]

\* Exactly the keys that hold something have a place in the ring, one each: a key
\* without one is never served again, one without items makes get() fail.
PlacesMatchItems ==
    /\ ready = KeysOf(queue)
    /\ ready = {t[1] : t \in ring}
    /\ \A t, u \in ring : t[1] = u[1] \/ t[2] = u[2] => t = u

\* The three counters equal what the queues hold.
CountersExact ==
    /\ depth = Cardinality(queue)
    /\ bytes = BytesOf(queue)
    /\ used = others + bytes

\* An OPEN or a CLOSE that was emitted is queued, or its put() is at work, until it is
\* delivered or given up by an invalidation, a stop, or a revocation: no policy and no
\* budget drops it.
EdgesKept ==
    owed \subseteq {e.id : e \in queue} \cup
                   {putting[p].id : p \in {q \in Producers : putting[q] # None}}


\* From when a key takes its place until it is served or gives the place up, the others
\* together are served less often than there are keys: it has its turn in the round.
PlaceIsKept == \A k \in Keys : overtaken[k] < Cardinality(Keys)

\* Every edge is delivered or given up, whatever the other streams send.
EdgesGetThrough == \A i \in 1..MaxPackets : i \in owed ~> i \notin owed
=============================================================================
