------------------------------- MODULE Channel -------------------------------
(***************************************************************************)
(* The bounded edge channel of a pipeline: BoundedChannel and the artifact *)
(* budget of runtime/pipelines/runtime.py, driven the way a node context   *)
(* (execution.py, read and emit) drives it.                                *)
(*                                                                         *)
(* Everything runs on one event loop, so a step is what the code does      *)
(* between two awaits.  put() has one await, the poll in _wait_for_slot;   *)
(* get() has one, the wait in _wait_for_item.                              *)
(*                                                                         *)
(* The contents of a channel are the set of its envelopes, ordered by      *)
(* arrival number: taking everything out and putting the kept envelopes    *)
(* back, as discard() and _drop_droppable() do, leaves the numbers alone.  *)
(*                                                                         *)
(* A producer's packets alternate OPEN and CLOSE with updates in between,  *)
(* so a packet is identified by how many lifecycle edges its producer had  *)
(* emitted: edge 2n-1 is the OPEN of occurrence n, edge 2n its CLOSE, and  *)
(* an update carries the number of the last edge before it.                *)
(***************************************************************************)
EXTENDS Naturals, FiniteSets

CONSTANTS
    Channels,     \* the edges of the graph
    Producers,    \* the nodes that emit
    Consumers,    \* the nodes that read
    OutputOf,     \* the channel each producer emits to
    InputOf,      \* the channel each consumer reads from
    MaxSize,      \* channel -> capacity, in packets
    Counters,     \* the artifact counters, one per pipeline and a global one
    CountersOf,   \* channel -> the counters its bytes are charged to
    Limit,        \* counter -> its limit in bytes
    MaxBytes,     \* the largest artifact payload of a packet
    Policies,     \* the drop policies a channel may be built with
    MaxPackets,   \* bound: how many packets a producer emits
    None          \* no packet

AllPolicies == {"block", "drop_updates", "drop_oldest", "drop_newest",
                "latest_only", "keyed_latest_only"}

(* What the constructor and the compiler guarantee: capacities of at least *)
(* one, known policies, finitely many nodes.                               *)
ASSUME ChannelAssumption ==
    /\ OutputOf \in [Producers -> Channels]
    /\ InputOf \in [Consumers -> Channels]
    /\ MaxSize \in [Channels -> Nat \ {0}]
    /\ CountersOf \in [Channels -> SUBSET Counters]
    /\ Limit \in [Counters -> Nat]
    /\ MaxBytes \in Nat
    /\ MaxPackets \in Nat
    /\ Policies \subseteq AllPolicies
    /\ Producers \cap Consumers = {}

Nodes == Producers \cup Consumers

Packet == [from: Producers, edge: Nat, structural: BOOLEAN, bytes: 0..MaxBytes]
Envelope == [from: Producers, edge: Nat, structural: BOOLEAN, bytes: 0..MaxBytes,
             seq: Nat]

ASSUME NoneAssumption == None \notin Packet

VARIABLES
    policy,     \* channel -> its drop policy, fixed when it is built
    queue,      \* channel -> the envelopes it holds
    arrivals,   \* channel -> how many envelopes it ever accepted
    used,       \* counter -> bytes it believes are resident
    revoked,    \* channel -> revoke() was called
    available,  \* channel -> the _item_available event is set
    cancelled,  \* the nodes whose cancel_event is set
    edges,      \* producer -> lifecycle edges it has emitted
    sent,       \* producer -> packets it has emitted
    blocked,    \* producer -> the packet its put() waits to enqueue, or None
    waiter,     \* consumer -> where its get() is
    got,        \* channel -> producer -> last envelope delivered (history)
    discarded   \* channel -> the edges removed by discard/clear (history)

chanVars == <<policy, queue, arrivals, used, revoked, available>>
nodeVars == <<cancelled, edges, sent, blocked, waiter>>
vars == <<policy, queue, arrivals, used, revoked, available,
          cancelled, edges, sent, blocked, waiter, got, discarded>>

WaiterState == {"idle", "arming", "waiting", "woken"}

(***************************************************************************)
(* The envelopes of a channel.                                             *)
(***************************************************************************)
Oldest(S) == CHOOSE e \in S : \A f \in S : e.seq <= f.seq
Droppable(S) == {e \in S : ~e.structural}
Depth(c) == Cardinality(queue[c])

\* The artifact bytes of a set of envelopes: one pair per envelope and byte.
ByteCells(S) == {x \in S \X (1..MaxBytes) : x[2] <= x[1].bytes}
BytesOf(S) == Cardinality(ByteCells(S))

(***************************************************************************)
(* The artifact budget, ArtifactMemoryCounter.                             *)
(***************************************************************************)
Monus(a, b) == IF b <= a THEN a - b ELSE 0
\* Mutant: the bytes of what leaves a queue are never given back.
ReleasedNever(u, c, n) == u
ReleasedFrom(u, c, n) ==
    [k \in Counters |-> IF k \in CountersOf[c] THEN Monus(u[k], n) ELSE u[k]]
ReservedIn(u, c, n) ==
    [k \in Counters |-> IF k \in CountersOf[c] THEN u[k] + n ELSE u[k]]
CanReserve(u, c, n) == n = 0 \/ \A k \in CountersOf[c] : u[k] + n <= Limit[k]

(***************************************************************************)
(* One pass of the loop in put(), from the wake-up of the coroutine to its *)
(* return or its next sleep.  A lossy policy evicts updates, oldest first  *)
(* or all of them at once, until the packet fits.                          *)
(***************************************************************************)
Lossy(c) == policy[c] \notin {"block", "drop_newest"}
EvictsAll(c) == policy[c] \in {"latest_only", "keyed_latest_only"}

Evictions(c) ==
    IF ~Lossy(c) THEN {{}}
    ELSE IF EvictsAll(c) THEN {{}, Droppable(queue[c])}
    ELSE {V \in SUBSET Droppable(queue[c]) :
             \A v \in V, d \in Droppable(queue[c]) \ V : v.seq < d.seq}

BudgetAdmits(c, pkt, V) ==
    pkt.structural \/ CanReserve(ReleasedFrom(used, c, BytesOf(V)), c, pkt.bytes)
HasRoom(c, V) == Cardinality(queue[c] \ V) < MaxSize[c]
Fits(c, pkt, V) == BudgetAdmits(c, pkt, V) /\ HasRoom(c, V)
FirstFit(c, pkt, V) ==
    /\ Fits(c, pkt, V)
    /\ \A W \in Evictions(c) : W \subseteq V /\ W # V => ~Fits(c, pkt, W)

\* The put waits: a lifecycle edge under any policy, an update only under
\* BLOCK and only for a slot, never for the budget.
\* Mutant: DROP_NEWEST and the others drop lifecycle edges as well.
MustWaitByPolicy(c, pkt) ==
    /\ \A V \in Evictions(c) : ~Fits(c, pkt, V)
    /\ policy[c] = "block"
    /\ BudgetAdmits(c, pkt, {})
MustWait(c, pkt) ==
    /\ \A V \in Evictions(c) : ~Fits(c, pkt, V)
    /\ pkt.structural \/ (policy[c] = "block" /\ BudgetAdmits(c, pkt, {}))

Enveloped(c, pkt) ==
    [from |-> pkt.from, edge |-> pkt.edge, structural |-> pkt.structural,
     bytes |-> pkt.bytes, seq |-> arrivals[c] + 1]

\* _item_available.set(): every consumer that waits on the event is woken.
\* Mutant: nobody is.
WokenNobody(c) == waiter
Woken(c) ==
    [k \in Consumers |->
        IF InputOf[k] = c /\ waiter[k] = "waiting" THEN "woken" ELSE waiter[k]]

Accept(c, pkt) ==
    /\ \E V \in Evictions(c) :
          /\ FirstFit(c, pkt, V)
          /\ queue' = [queue EXCEPT ![c] = (queue[c] \ V) \cup {Enveloped(c, pkt)}]
          /\ used' = ReservedIn(ReleasedFrom(used, c, BytesOf(V)), c, pkt.bytes)
    /\ arrivals' = [arrivals EXCEPT ![c] = @ + 1]
    /\ available' = [available EXCEPT ![c] = TRUE]
    /\ waiter' = Woken(c)
    /\ blocked' = [blocked EXCEPT ![pkt.from] = None]

\* DROPPED: the budget or the capacity cannot be met even after every update
\* the policy may evict was evicted.
Drop(c, pkt) ==
    /\ \A V \in Evictions(c) : ~Fits(c, pkt, V)
    /\ ~MustWait(c, pkt)
    /\ LET V == IF Lossy(c) THEN Droppable(queue[c]) ELSE {}
       IN  /\ queue' = [queue EXCEPT ![c] = queue[c] \ V]
           /\ used' = ReleasedFrom(used, c, BytesOf(V))
    /\ blocked' = [blocked EXCEPT ![pkt.from] = None]
    /\ UNCHANGED <<arrivals, available, waiter>>

Wait(c, pkt) ==
    /\ MustWait(c, pkt)
    /\ blocked' = [blocked EXCEPT ![pkt.from] = pkt]
    /\ UNCHANGED <<queue, used, arrivals, available, waiter>>

\* The check at the head of the loop: the channel was revoked or the node's
\* cancel_event is set.
\* Mutant: only the cancel_event is looked at.
GoneIfCancelled(c, p) == p \in cancelled
Gone(c, p) == revoked[c] \/ p \in cancelled

PutCanceled(c, pkt) ==
    /\ blocked' = [blocked EXCEPT ![pkt.from] = None]
    /\ UNCHANGED <<queue, used, arrivals, available, waiter>>

Put(p, pkt) ==
    LET c == OutputOf[p]
    IN  \/ Gone(c, p) /\ PutCanceled(c, pkt)
        \/ ~Gone(c, p) /\ (Accept(c, pkt) \/ Drop(c, pkt) \/ Wait(c, pkt))

(***************************************************************************)
(* The steps of a producer.                                                *)
(***************************************************************************)
\* NodeExecutionContext.emit: nothing once cancel_event is set.
Emit(p, structural, bytes) ==
    /\ p \notin cancelled
    /\ blocked[p] = None
    /\ sent[p] < MaxPackets
    /\ LET edge == IF structural THEN edges[p] + 1 ELSE edges[p]
           pkt == [from |-> p, edge |-> edge, structural |-> structural, bytes |-> bytes]
       IN  /\ edges' = [edges EXCEPT ![p] = edge]
           /\ Put(p, pkt)
    /\ sent' = [sent EXCEPT ![p] = @ + 1]
    /\ UNCHANGED <<policy, revoked, cancelled, got, discarded>>

\* A blocked put() wakes from its poll and finds a reason to go on.
Poll(p) ==
    /\ blocked[p] # None
    /\ Gone(OutputOf[p], p) \/ Depth(OutputOf[p]) < MaxSize[OutputOf[p]]
    /\ Put(p, blocked[p])
    /\ UNCHANGED <<policy, revoked, cancelled, edges, sent, got, discarded>>

\* The timeout of emit() runs out; lifecycle edges have none.
PutTimeout(p) ==
    /\ blocked[p] # None
    /\ ~blocked[p].structural
    /\ ~Gone(OutputOf[p], p)
    /\ Depth(OutputOf[p]) >= MaxSize[OutputOf[p]]
    /\ blocked' = [blocked EXCEPT ![p] = None]
    /\ UNCHANGED <<chanVars, cancelled, edges, sent, waiter, got, discarded>>

(***************************************************************************)
(* The steps of a consumer.                                                *)
(***************************************************************************)
Deliver(k) ==
    LET c == InputOf[k]
        e == Oldest(queue[c])
    IN  /\ queue[c] # {}
        /\ queue' = [queue EXCEPT ![c] = @ \ {e}]
        /\ used' = ReleasedFrom(used, c, e.bytes)
        /\ got' = [got EXCEPT ![c][e.from] = e]
        /\ waiter' = [waiter EXCEPT ![k] = "idle"]
        /\ UNCHANGED <<policy, arrivals, revoked, available,
                       cancelled, edges, sent, blocked, discarded>>

\* NodeExecutionContext.read on a CANCELED get() sets the node's cancel_event.
ReadCanceled(k) ==
    /\ waiter' = [waiter EXCEPT ![k] = "idle"]
    /\ cancelled' = cancelled \cup {k}
    /\ UNCHANGED <<chanVars, edges, sent, blocked, got, discarded>>

\* Found nothing: clear the event and create the task that waits on it.
Rearm(k) ==
    /\ queue[InputOf[k]] = {}
    /\ available' = [available EXCEPT ![InputOf[k]] = FALSE]
    /\ waiter' = [waiter EXCEPT ![k] = "arming"]
    /\ UNCHANGED <<policy, queue, arrivals, used, revoked,
                   cancelled, edges, sent, blocked, got, discarded>>

\* read() is called by the node's run loop until it is cancelled.
Get(k) ==
    /\ waiter[k] = "idle"
    /\ k \notin cancelled
    /\ \/ revoked[InputOf[k]] /\ ReadCanceled(k)
       \/ ~revoked[InputOf[k]] /\ (Deliver(k) \/ Rearm(k))

\* The auxiliary task runs for the first time: Event.wait() returns at once
\* if the event was set meanwhile.
Arm(k) ==
    /\ waiter[k] = "arming"
    /\ waiter' = [waiter EXCEPT ![k] = IF available[InputOf[k]] THEN "woken" ELSE "waiting"]
    /\ UNCHANGED <<chanVars, cancelled, edges, sent, blocked, got, discarded>>

\* The event was set.  An item wins over the node's cancel_event; if another
\* consumer took it, wait again.
WakeUp(k) ==
    /\ waiter[k] = "woken"
    /\ \/ revoked[InputOf[k]] /\ ReadCanceled(k)
       \/ ~revoked[InputOf[k]] /\ Deliver(k)
       \/ /\ ~revoked[InputOf[k]] /\ queue[InputOf[k]] = {}
          /\ IF k \in cancelled THEN ReadCanceled(k) ELSE Rearm(k)

\* The timeout of read() runs out, or the node is cancelled, before the
\* event is set.
GetTimeout(k) ==
    /\ waiter[k] \in {"arming", "waiting"}
    /\ IF revoked[InputOf[k]] \/ k \in cancelled
       THEN ReadCanceled(k)
       ELSE /\ waiter' = [waiter EXCEPT ![k] = "idle"]
            /\ UNCHANGED <<chanVars, cancelled, edges, sent, blocked, got, discarded>>

(***************************************************************************)
(* The steps of the runtime that owns the channel.                         *)
(***************************************************************************)
\* The occurrence an envelope belongs to: 0 for an update outside of any.
OccurrenceOf(e) ==
    IF ~e.structural /\ e.edge % 2 = 0 THEN 0 ELSE (e.edge + 1) \div 2

EdgesIn(D) == {<<e.from, e.edge>> : e \in {d \in D : d.structural}}

Remove(c, D) ==
    /\ queue' = [queue EXCEPT ![c] = @ \ D]
    /\ used' = ReleasedFrom(used, c, BytesOf(D))
    /\ discarded' = [discarded EXCEPT ![c] = @ \cup EdgesIn(D)]

\* discard(belongs), called by PipelineRuntime.invalidate_occurrence.  The
\* event is cleared only if nothing was kept.
\* Mutant: it is cleared whatever was kept.
DiscardClearsEvent(c, p, n) ==
    LET D == {e \in queue[c] : e.from = p /\ OccurrenceOf(e) = n}
    IN  /\ Remove(c, D)
        /\ available' = [available EXCEPT ![c] = FALSE]
        /\ UNCHANGED <<policy, arrivals, revoked, nodeVars, got>>
DiscardOccurrence(c, p, n) ==
    LET D == {e \in queue[c] : e.from = p /\ OccurrenceOf(e) = n}
    IN  /\ Remove(c, D)
        /\ available' = [available EXCEPT ![c] = queue[c] \ D # {} /\ @]
        /\ UNCHANGED <<policy, arrivals, revoked, nodeVars, got>>

\* clear(), the last thing PipelineRuntime.stop does, when the nodes are done.
Clear(c) ==
    /\ \A p \in Producers : OutputOf[p] = c => p \in cancelled /\ blocked[p] = None
    /\ \A k \in Consumers : InputOf[k] = c => k \in cancelled /\ waiter[k] = "idle"
    /\ Remove(c, queue[c])
    /\ available' = [available EXCEPT ![c] = FALSE]
    /\ UNCHANGED <<policy, arrivals, revoked, nodeVars, got>>

\* revoke(): a reconciliation replaced the channel, or its demand ended.
Revoke(c) ==
    /\ ~revoked[c]
    /\ revoked' = [revoked EXCEPT ![c] = TRUE]
    /\ Remove(c, queue[c])
    /\ available' = [available EXCEPT ![c] = TRUE]
    /\ waiter' = Woken(c)
    /\ UNCHANGED <<policy, arrivals, cancelled, edges, sent, blocked, got>>

\* The runtime sets the cancel_event of a node (stop, reconciliation).
Cancel(n) ==
    /\ n \notin cancelled
    /\ cancelled' = cancelled \cup {n}
    /\ UNCHANGED <<chanVars, edges, sent, blocked, waiter, got, discarded>>

\* task.cancel() on a cancelled node that is inside put() or get().
KillTask(n) ==
    /\ n \in cancelled
    /\ \/ /\ n \in Producers
          /\ blocked[n] # None
          /\ blocked' = [blocked EXCEPT ![n] = None]
          /\ UNCHANGED waiter
       \/ /\ n \in Consumers
          /\ waiter[n] # "idle"
          /\ waiter' = [waiter EXCEPT ![n] = "idle"]
          /\ UNCHANGED blocked
    /\ UNCHANGED <<chanVars, cancelled, edges, sent, got, discarded>>

(***************************************************************************)
(* The specification.                                                      *)
(***************************************************************************)
NothingYet(p) == [from |-> p, edge |-> 0, structural |-> TRUE, bytes |-> 0, seq |-> 0]

Init ==
    /\ policy \in [Channels -> Policies]
    /\ queue = [c \in Channels |-> {}]
    /\ arrivals = [c \in Channels |-> 0]
    /\ used = [k \in Counters |-> 0]
    /\ revoked = [c \in Channels |-> FALSE]
    /\ available = [c \in Channels |-> FALSE]
    /\ cancelled = {}
    /\ edges = [p \in Producers |-> 0]
    /\ sent = [p \in Producers |-> 0]
    /\ blocked = [p \in Producers |-> None]
    /\ waiter = [k \in Consumers |-> "idle"]
    /\ got = [c \in Channels |-> [p \in Producers |-> NothingYet(p)]]
    /\ discarded = [c \in Channels |-> {}]

ProducerStep(p) ==
    \/ \E structural \in BOOLEAN, bytes \in 0..MaxBytes : Emit(p, structural, bytes)
    \/ Poll(p)
    \/ PutTimeout(p)

ConsumerStep(k) == Get(k) \/ Arm(k) \/ WakeUp(k) \/ GetTimeout(k)

RuntimeStep ==
    \/ \E c \in Channels, p \in Producers, n \in 1..MaxPackets : DiscardOccurrence(c, p, n)
    \/ \E c \in Channels : Clear(c) \/ Revoke(c)
    \/ \E n \in Nodes : Cancel(n) \/ KillTask(n)

Next ==
    \/ \E p \in Producers : ProducerStep(p)
    \/ \E k \in Consumers : ConsumerStep(k)
    \/ RuntimeStep

Spec == Init /\ [][Next]_vars

\* The event loop runs every task whose await is over, and a node's run loop
\* goes back to read().  Nothing is assumed of timeouts and of the runtime.
Fairness ==
    /\ \A p \in Producers : WF_vars(Poll(p))
    /\ \A k \in Consumers : WF_vars(Get(k)) /\ WF_vars(Arm(k)) /\ WF_vars(WakeUp(k))

FairSpec == Spec /\ Fairness

(***************************************************************************)
(* Properties.                                                             *)
(***************************************************************************)
\* Every variable has its type, and no channel ever holds more envelopes than
\* its capacity, whichever policy it has and however many puts wait on it.
TypeOK ==
    /\ policy \in [Channels -> Policies]
    /\ queue \in [Channels -> SUBSET Envelope]
    /\ \A c \in Channels : IsFiniteSet(queue[c]) /\ Depth(c) <= MaxSize[c]
    /\ arrivals \in [Channels -> Nat]
    /\ used \in [Counters -> Nat]
    /\ revoked \in [Channels -> BOOLEAN]
    /\ available \in [Channels -> BOOLEAN]
    /\ cancelled \subseteq Nodes
    /\ edges \in [Producers -> Nat]
    /\ sent \in [Producers -> Nat]
    /\ blocked \in [Producers -> Packet \cup {None}]
    /\ \A p \in Producers : blocked[p] # None => blocked[p].from = p
    /\ waiter \in [Consumers -> WaiterState]
    /\ got \in [Channels -> [Producers -> Envelope]]
    /\ discarded \in [Channels -> SUBSET (Producers \X Nat)]

\* A revoked channel stays empty: a put that was waiting for a slot when the
\* channel was revoked, or that starts later, deposits nothing in it.
RevokedStaysEmpty == \A c \in Channels : revoked[c] => queue[c] = {}

\* No lost wake-up: while a channel holds an item, its event is set and no
\* consumer is still parked on it, although consumers clear the one event of
\* the channel whenever they find it empty and discard() clears it too.
NoLostWakeup ==
    \A c \in Channels : queue[c] # {} =>
        /\ available[c]
        /\ \A k \in Consumers : InputOf[k] = c => waiter[k] # "waiting"

\* The artifact counters are exact: what a counter believes is resident is
\* what the queues that charge it hold, so nothing leaks and the clamp at zero
\* in release() never hides a double release.
ResidentCells(k, q) ==
    UNION {{c} \X ByteCells(q[c]) : c \in {d \in Channels : k \in CountersOf[d]}}
CountersExact == \A k \in Counters : used[k] = Cardinality(ResidentCells(k, queue))

\* Lifecycle edges are lossless and packets are not reordered: when a consumer
\* receives a packet, it has received every earlier OPEN and CLOSE of that
\* producer, apart from those an invalidation removed on purpose, and nothing
\* from after it.  So an update is only seen inside its own occurrence.
InOrder(c, e) ==
    LET before == got[c][e.from]
    IN  /\ before.edge <= e.edge
        /\ before.seq < e.seq
        /\ \A n \in (before.edge + 1)..e.edge :
               (n = e.edge /\ e.structural) \/ <<e.from, n>> \in discarded[c]
DeliveredInOrder ==
    [][\A c \in Channels, p \in Producers :
          got'[c][p] # got[c][p] => InOrder(c, got'[c][p])]_vars

(***************************************************************************)
(* The inductive invariant behind DeliveredInOrder.                        *)
(***************************************************************************)
\* What is queued lies after what was delivered and before what was emitted.
QueuedBetween(c) ==
    \A e \in queue[c] :
        /\ OutputOf[e.from] = c
        /\ got[c][e.from].seq < e.seq /\ e.seq <= arrivals[c]
        /\ got[c][e.from].edge <= e.edge /\ e.edge <= edges[e.from]

\* Arrival order agrees with the order of the edges of one producer.
QueuedInOrder(c) ==
    \A e, f \in queue[c] :
        /\ e.seq = f.seq => e = f
        /\ e.from = f.from /\ e.seq < f.seq =>
              e.edge <= f.edge /\ (f.structural => e.edge < f.edge)

\* An edge that was emitted and not delivered is queued, was discarded, or
\* comes after everything queued: its put() still waits, or was canceled by
\* what stops every later put() too.
EdgeQueued(c, p, n) == \E e \in queue[c] : e.from = p /\ e.structural /\ e.edge = n
EdgePending(c, p, n) ==
    /\ \A e \in queue[c] : e.from = p => e.edge < n
    /\ \/ blocked[p] # None /\ blocked[p].structural /\ blocked[p].edge = n
       \/ p \in cancelled
       \/ revoked[c]
EdgesAccountedFor(p) ==
    LET c == OutputOf[p]
    IN  \A n \in (got[c][p].edge + 1)..edges[p] :
           EdgeQueued(c, p, n) \/ <<p, n>> \in discarded[c] \/ EdgePending(c, p, n)

\* What a put() waits with is the last packet of its producer.
BlockedIsLast(p) ==
    LET c == OutputOf[p]
    IN  blocked[p] # None =>
           /\ blocked[p].edge = edges[p]
           /\ blocked[p].structural =>
                 /\ got[c][p].edge < edges[p]
                 /\ \A e \in queue[c] : e.from = p => e.edge < edges[p]

GotBounded(p) ==
    /\ got[OutputOf[p]][p].edge <= edges[p]
    /\ got[OutputOf[p]][p].seq <= arrivals[OutputOf[p]]

\* The lifecycle edges on their way from emit() to read() are all accounted
\* for, whatever the drop policy evicted around them.
OrderInv ==
    /\ \A c \in Channels : QueuedBetween(c) /\ QueuedInOrder(c)
    /\ \A p \in Producers : EdgesAccountedFor(p) /\ BlockedIsLast(p) /\ GotBounded(p)

\* A put that waits with a lifecycle edge is admitted once the consumers keep
\* reading: it may wait forever only if every reader of the channel is gone.
HasReader(c) == \E k \in Consumers : InputOf[k] = c /\ k \notin cancelled
EdgesGetThrough ==
    \A p \in Producers :
        (blocked[p] # None) ~> (blocked[p] = None \/ ~HasReader(OutputOf[p]))

=============================================================================
