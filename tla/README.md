# Toposync: the pipeline runtime in TLA+

Toposync runs graphs of operators over the packets of cameras and sensors: a packet opens an
occurrence, updates it and closes it, and operators filter, track, merge and publish it. The
graphs are edited while they run, parts of them run on other machines, and all of it is Python
on one asyncio event loop per process, with threads and process pools beside it.

This directory models the parts of that runtime where the order of events decides: what a
packet meets on an edge, how a graph is replaced under its running operators, how the passes of
the orchestrator follow the configuration and the demands, how events get from a processing
server to its origin, who runs in a thread pool, what is remembered of subjects that ended, and
the life of an occurrence from the pipelines that record it to the list in a browser. TLC checks
small instances of every module. TLAPS proves the safety properties that TLC checks for every
value of the constants.

Paths below are relative to `src/src/toposync/runtime/pipelines/` unless they begin with `src/`;
`N/` stands for `src/src/toposync/runtime/notifications/`.

## 1. The system

### 1.1 Components modelled

| Component | Source | State it keeps | Operations |
|---|---|---|---|
| Bounded channel | `runtime.py` (`BoundedChannel`, `ArtifactMemoryCounter`) | a queue, an event, artifact counters shared between channels, a revoked flag | `put` under six drop policies, `get`, `discard`, `clear`, `revoke` |
| Keyed channel | `runtime.py` (`KeyedBoundedChannel`) | a queue per stream, the ring and the set of ready streams, the same counters | the same |
| Pipeline runtime | `execution.py`, `shared_runtime.py` | instances, tasks, contexts and channels of the running graph | `start`, `reconcile`, `stop`, the node loops' `read` |
| Orchestrator | `distributed/orchestrator.py`, `demands.py`, `demand_api.py` | the plan on record and the one that failed, errors of the activation checks, the local bundle, origins and pump of the remote group | passes (read, prune, check, replace), the polling loop, reloads, API calls that open and release demands, the pump, `stop` |
| Occurrence store and feed | `occurrence_sink.py`, `N/occurrences.py`, `N/runtime.py`, `N/events.py`, `N/activity_media.py`, `src/src/toposync/app.py`, `src/frontend/src/ui/App.tsx` | the document, its notification, delivery and images; the queue of a subscriber; the list of a browser | record, publish, capture, annotate, interrupt, erase, revoke, expire, recover; stream, refresh |
| Event stream | `distributed/processing_server.py`, `distributed/transport.py`, `distributed/orchestrator.py`, `src/src/toposync/runtime/notifications/events.py` | numbers, replay, acknowledged position, epoch; cursor, inbox, suspension | publish, serve, acknowledge, reset, reconnect, push a configuration |
| Execution scheduler | `execution_scheduler.py` | a semaphore per key, process pools by name | `run_sync`, deadlines, `shutdown` |
| Subject ledger | `subject_lifecycle.py` | ranges of closed numbers, legacy names, active subjects | `observe`, `close`, `add`, `retain_active`, `forget_active`, `clear` |

How they meet: the orchestrator reads the configuration and the active demands, checks what it
wants to run, compiles plans and gives them to a bundle, which starts or reconciles one pipeline
runtime. The runtime builds a channel per edge (a keyed one behind a split) and a task per
operator; a task reads one channel and emits to others. Operators call the scheduler for blocking
work and ask a ledger before they admit a subject. A part of a graph that belongs to a processing
server is pushed to it; what it publishes comes back through the event stream into the inbox of a
source operator. A sink at the end of a graph records occurrences in the store, which publishes
notifications to the feed of every browser.

### 1.2 Components not modelled

Section 6 says which and why; PROJECT.json lists all of them with the reason.

### 1.3 What is hard here

- *One event for many consumers.* A channel has one `asyncio.Event`; each reader clears it
  when it finds the queue empty, and `discard` clears it too.
- *Lossless edges in lossy queues.* The policies drop updates, never the OPEN or the CLOSE of
  an occurrence, and `put` is retried from its beginning after every eviction or wait.
- *Counters shared by queues.* Artifact bytes are charged to a pipeline and to a global
  counter; every path that removes an item has to release what its `put` reserved.
- *Replacement under running tasks.* Tasks sit in `get()` of channels that are being replaced;
  callers are cancelled, again and again, between any two awaits of the swap.
- *Permits that outlive their caller.* A thread cannot be cancelled.
- *Two machines.* Connections break, acknowledgements come late, either side restarts, and the
  numbers of an epoch are used again in the next.
- *A ring beside queues.* The keyed channel keeps four structures in step by hand.
- *A pass that awaits while the world goes on.* The orchestrator reads the configuration once,
  then waits for cameras, models, operators and machines; edits, expiring leases, cancelled
  requests and the pump come in between, and what it remembers decides what the next pass does.
- *Follow-up outside the transaction.* Each operation on an occurrence is one transaction; the
  notification, its event, the removal of images and the withdrawal come after it, in an order
  that another operation, an error or a restart can interrupt.

"hazards" in PROJECT.json has each of these at its line, with the properties that cover it or
a note that none does yet.

## 2. The modules

| Module | Models | Proofs in |
|---|---|---|
| `Channel` | `BoundedChannel`, as node contexts drive it | `ChannelProofs` |
| `KeyedChannel` | `KeyedBoundedChannel` | `KeyedChannelProofs` |
| `Reconcile` | `PipelineRuntime` start, reconcile, stop; the bundle's commit | `ReconcileProofs` |
| `Orchestrator` | `PipelinesOrchestrator`: passes, loop, calls, pump, `stop` | `OrchestratorProofs` |
| `Occurrence` | the store, the sink, the sweep, the startup, the feed and the list | `OccurrenceProofs` |
| `EventContract` | abstract: what the event stream promises | |
| `EventStream` | server, connection and pump; implements `EventContract` | `EventStreamProofs` |
| `Scheduler` | `ExecutionScheduler` | `SchedulerProofs` |
| `ClosedSet` | abstract: a set that grows until it is cleared | |
| `SubjectLedger` | `ClosedSubjectLedger`; implements `ClosedSet` | `SubjectLedgerProofs` |

`MC*.tla` give the constants of the runs. PROJECT.json "map" gives the source lines of every
definition. A definition whose comment calls it a mutant is a plausible bug of the definition
it precedes: the property named with it in PROJECT.json fails when it is put in its place.

A step of a model is what the code does between two awaits. This is exact where the code runs
on one event loop: nothing else happens between them. Threads appear in `Scheduler` only, as
functions that end when they please. The network appears in `EventStream`, and in `Occurrence`
between the server and a browser. A transaction of the store, which runs in a thread and holds
the store's lock, is one step.

### Channel

`queue[c]` is the set of the envelopes of channel c, ordered by `seq`; taking everything out of
a deque and putting the kept items back, as `discard` and `_drop_droppable` do, leaves that
order alone. A packet is its producer, whether it is structural (an OPEN or CLOSE), its bytes,
and the number of edges its producer had emitted, which is all that the ordering property looks
at. `put` has one await (`_wait_for_slot`), so `Emit` is the code up to it and `Poll` one round
of the loop after it. `get` has one as well, the wait for the event, and three actions: `Get`
looks at the queue, `Arm` is the clear of the event with the second look, `WakeUp` the return.
`waiter` says where each reader is. A producer is one outgoing edge; the fan-out of `emit`,
which serves edges one after the other, is not modelled.

The code waits with structural packets whatever the policy, and admits them over the artifact
budget; both are in `MustWait` and `BudgetAdmits`.

### KeyedChannel

The contents are again a set ordered by arrival, and the ring a set of places <<stream, ticket>>
ordered by ticket. `ready`, `depth`, `bytes` and `used` are kept as the code keeps them, so that
`PlacesMatchItems` and `CountersExact` can compare them with the queue. `put` takes the
condition's lock on each pass, and in Python 3.11 `wait_for` may hold it across a suspension, so
its passes are separate steps (`Evict`, `Drop`, `Accept`, `Wait`). Other channels of the same
pipeline are the two actions `OthersReserve` and `OthersRelease`. Metrics per key are left out.

`PlaceIsKept` is about streams that keep their place. `keyed_latest_only` removes the queued
update of a stream before it appends the new one (`runtime.py:985`), so a stream whose only item
is replaced leaves the ring and enters at its end; how long it can be passed over that way
depends on the rates of the streams, and no property here bounds it.

### Reconcile

An instance <<n, g>> is what the factory returned for node n in round g; a channel is its edge
and round. `phase` says where the call in progress is: starting, preparing a candidate,
disposing of one that failed, gathering the tasks that were cancelled, retiring their operators,
stopping. Each loop over operators is one action per operator (`Prepare`, `Dispose`, `Retire`,
`Shutdown`), because each awaits. Tasks read, are served, crash or end in `TaskStep`. A plan says
which nodes and edges there are, what each node is configured with and the queue settings of each
edge; `Signature` and `Identifier` are the recursions of the compiler and of the merge plan along
the edges, and what is retained is computed from them as the candidate does: equal identifier,
signature and incoming edges. The commit is shielded: `CallerCancelled` during it only counts.
What flows through the channels is left out: a task that waits may be served at any time.
Whether an operator is a source is a matter of its kind (`IsProducer`), not of the plan.

### Orchestrator

`at` is the await that the pass in progress is at, `turn` whose pass it is: the lock of
reconciliations is held exactly while `turn` is the loop or the API call. A pass reads the
configuration (`Read`), prunes the local pipelines of demands that ended (`Prune`), and decides
(`Decide`): the plan that failed last is not tried again, a change or a retry is checked
(`Preflight`), otherwise only the settings or the configuration of the server are sent
(`SendSettings`, `Ensure`, `Push`). A replacement prepares and commits the local bundle
(`Prepare`, `Commit`, `Drop`), puts the plan on record, and replaces the remote group: the pump is
cancelled and waited for, the transport closed, origins stopped and started, the new pump started
(`StopPump` to `StartPump`). `Interrupted` is the cancellation of the caller, raised at any await
except a commit, which is shielded, and the wait for the pump, which swallows it. What a caller does
right after its pass happens in the same turn (`LoopLeaves`, `CallLeaves`): a call that opened a
demand releases it again unless its pipeline runs.

`Save` is a change of the configuration that took place: a request of the API that passed the checks
of what it writes (`src/src/toposync/runtime/config_store.py:967`, which a pipeline of `Unfit`
passes at one moment and not at another), or an edit of the file that a reload follows. A request
that fails them changes nothing.

`lastPlan`, `failedPlan`, `lastSettings`, `lastScene`, `lastRemote`, `errors` and `retry` are the
attributes of the orchestrator with these meanings; the JSON signatures they hold are replaced by
what they are computed from. `verdict` and `confirmed` are history: how the latest activation
checks of a pipeline ended and what was configured then. The pump's own steps (`PumpPush` to
`PumpCancelled`) are the coroutine of a remote handle, with suspension and resumption of the
origins one by one; what flows through its stream is `EventStream`'s. `StopBegins` needs that no
request is at work, because the server waits for its requests before it stops the orchestrator.

Three things that the code does and a reader may not expect are in the model. The signatures are
recorded before the origins and the pump of a remote group start, so a failure there is not
retried by itself. An explicit reload during a preparation that then fails is forgotten, because
the failure is stored after the reload cleared it. A call that is cancelled while its pass stops
the last bundle leaves `_local_bundle` at a stopped runtime until the next pass or `stop()`; the
model has the bundle as still there.
Left out: several processing servers, leases of flows, automatic pipelines (they open and release
demands), and `invalidate_occurrence`.

### Occurrence

`doc` is the row of the occurrence, `row` its notification, `delivery` and `images` the rows that
hang on it. `job[w]` is where each of those who work on it is between two transactions: the
recorders (sinks of pipelines that may hand over to each other), the annotator, a person and the
sweeps (`Sweepers`): the periodic one and that of a request of the activity page, which runs one of
its own and may overlap with it. `Publish` is the transaction that upserts the notification from the
document as it is then, `Announce` the event that follows it on the loop. `Interrupt` is the last
recorder leaving, under the recorder lock. `Erase`, `Revoke` and the sweep go through `Withdraw`,
which drops what the feed still holds and announces the withdrawal, the callbacks, and the removal
of images; the sweep has its own order (images first). `Crash` puts the process at its startup,
which expires, settles deliveries, closes and publishes what was open, and maintains the images
(`Startup`). The browser has a bounded queue on the server (`Put` replaces a full one by a request
to fetch the history again), the event on the wire, and its list with a refresh timer and a request
in flight, which may fail (`ListFails`): the browser then shows an error, and nobody asks again for
that. Events, pages and the list hold cards, a revision each (`Card`): `_to_public` leaves
enrichments and evidence out of what is sent to them, so that a revocation concerns the document and
the notification (`NothingWithdrawnIsKept`), an erasure the cards as well (`WithdrawnIsHidden`).

`lost` is history: it names what an error or a restart cuts off for good, and the properties except
exactly that. "images": a callback that raises, or a crash between the erasure and the removal,
leaves the images of an erased occurrence until they expire. "row": a crash between a CLOSE and its
publication leaves a notification that still says open. "feed": one file that cannot be deleted
ends a sweep before it withdraws what it erased; the same error fails an activity request, which
runs the sweep, and the startup (`StartupFails`). "page": a list that was answered before the
stream opened may arrive after a withdrawal that its subscriber never got.

Abstractions: one participant and one member, so a CLOSE of it closes the occurrence; `Send` takes
an event and asks `event_visible()` at one moment. Left out: contributions that repeat or are
refused (they change nothing), events over the size limit, silent notifications, time stamps
that change no text, access rules and filters, and a graceful stop of the server.

### EventStream

`private` chooses between the two kinds of streams, in `Init`. A public one may skip events when a
buffer overflows; a private one suspends its delivery instead. Event epoch and stream instance are
drawn together in the code and are one number here. The connection buffers `WireSize` messages and
loses them in `Break`; `acks` holds acknowledgements under way, which may arrive after anything
else or fail. `Crash` and `Reconfigure` reset the server, `Restart` replaces the pump, with or
without an edit of the configuration. The branches of the pump that skip an event of another epoch
or a repeated one are part of `Refuse`; they are hardly reached, because the server's generator
filters first. The orchestrator pushes through the same transport as the pump, so `Ensure` adopts the
instance of the server as `Push` does (`Adopted`).

Left out: older servers without epochs, heartbeats, the limit of private connections
(`processing_server.py:1108`), lines of a private event that end too early (`transport.py:30`), which
are two more causes of a suspension, the byte limit of the replay (an event that exceeds a limit is
the kind "large"), a switch of mode while
connected, the projection of artifacts, and a crash of the server inside one status or
configuration request.

### Scheduler

The semaphore is asyncio's: `Queued` callers are served in order and `TakeGrant` wakes the next
one. A caller waits for its permit in a task of its own, which may get the permit in the turn
that cancels the caller (`GiveUp` gives it back). `Abandon` leaves the function at work and
passes the permit to it; `ReleaseWhenFinished` is its callback. `limit`, `named` and `deadlines`
are chosen in `Init` from `Profiles` and never change: they are the concurrency limit, the choice of
executor and the deadlines that come with a key. If `named`, functions go to a process pool named
by the key. If they have deadlines, a `Deadline` kills the pool's workers and so does `Shutdown`; the
workers of a pool without deadlines finish what they do. Left out: the mode that runs
functions in the event loop, calls without a key, and the executors' own queues.

### SubjectLedger

A key is a source and a subject; a scope is a source and an epoch; `intervals` has the ranges of
each scope, with `Merge` and `Inside` written over `FirstFrom`, which is `bisect_left`. `Merge`
states the loop of `add` by the place where it stops. `asked` is history: what was to be closed
since the last `clear`, including a close that found no room. `ClosedSet` asks for the name or the
flag in the same step, so that a forgotten flag breaks the refinement. Malformed descriptors and
`observe(retain=False)` change nothing and are left out. `observe` and `close` refuse another number
for a name that is active; such a close is not remembered, and is not counted in `asked` either.

## 3. The runs

| Run | Instance | Shows |
|---|---|---|
| `channel_order` | 1 producer of 5 packets, capacity 3, all policies, bytes 0..1, limit 1 | OPEN and CLOSE arrive in order, none skipped; edges get through without timeouts |
| `channel_shared` | 2 channels and 2 counters; 2 readers on one channel, none on the other; `drop_oldest` | no lost wake-up; nothing deposited after `revoke`; counters exact |
| `keyed_policies` | 2 streams, 5 packets, capacity 3, limit 1, all policies | ring, counters, lossless edges; a place that is kept is served in turn |
| `keyed_live` | 2 producers, 2 streams, capacity 1, all policies | every edge is delivered or given up |
| `reconcile_safety` | a chain of 3, edits of a configuration, of nodes and of edges; 2 reconciliations, 2 cancellations | one task per node, one shutdown and no task after it, ends of an edge agree, published is running; a commit ends, every call comes back |
| `reconcile_queue_edit` | an edit of one edge's queue settings | finding: a retained operator stops |
| `orchestrator` | a local and a remote pipeline, a demand; 1 edit or reload, 2 API calls, 1 fault | answers hold; what starts was checked; origins of record; nothing left after `stop`; released demands stop, calls and `stop` return |
| `orchestrator_rejected` | 2 remote pipelines, 2 edits | finding: a rejected pipeline is sent to the server |
| `stream` | a public and a private stream: replay 2, queue 2, 2 or 3 events, 4 or 3 epochs, 2 breaks, a restart of the private one's origin | the contract (gaps, order, numbers); inbox of one epoch; acknowledgement after admission; suspension only for a cause; a new epoch is adopted, every event admitted or the stream suspended |
| `scheduler` | 3 callers, 3 functions; 2 permits for threads, or 1 and 2 pools with deadlines or without | permits accounted, a deadline kills one function; every call returns |
| `ledger` | 3 subjects of 2 sources, numbers 1..3, capacity 2 | the ledger implements a set that grows, and says so when it loses a name |
| `occurrences` | eight setups: 1 or 2 recorders, captures, annotations, an erasure or revocation, the expiry, 1 or 2 sweeps, a browser, up to 2 faults | what is withdrawn is neither kept nor shown; changes are published, deliveries settled; images go; observed while recorded; notifications arrive |

The runs spend their properties on behaviour. `TypeOK` of each module was checked with its runs
while it was written; what the proofs need of it is a conjunct of the inductive invariants of
section 5, and an assignment outside its type would show there.

**Bounds.** `MaxPackets` bounds the packets each producer emits: five on one edge allow OPEN,
update, CLOSE and the next OPEN with an eviction and a blocked put around them; five on a keyed
channel of three slots let one stream be served twice while another waits. Two readers are what the
shared event needs to go wrong; they are interchangeable (`Readers`), and so are the streams of the
keyed channel (`KeySymmetry`) in the run that checks no liveness. The second channel of
`channel_shared` has no reader, so that what it holds presses on the global counter. That run takes
the channel's own default policy only: it evicts, waits and discards, and `channel_order` has them
all. Two producers are what a freed slot needs to be contended (`keyed_live`). `MaxRounds` is the
number of graphs built: three let a candidate meet what an earlier swap left. `MaxCancels` of two
covers a second cancellation during the handling of the first. A replay of two and three events
make the replay overflow; of the four epochs the first has no configuration and the third is the
one of a server that was reset, so that the fourth is published in after a crash or a
reconfiguration. A break is a broken connection, a failed push or a lost acknowledgement. Three
callers for two permits, with three functions, let two be abandoned while one waits. Three numbers
and a capacity of two allow two separate ranges and their merge by the number between them, a full
ledger, a third subject without room, and every order of arrival.

In `stream` the bounds go by the kind of stream: a public one is reset more often, because each push
to a server without a configuration resets it; a private one fills its replay and has the restart of
the origin, which is where a position could be lost. `orchestrator` has one pipeline of each sort;
the local one may fail its checks. One edit, two calls and one fault (an operation that fails, a
request that is cancelled, a restart of the server) let each of the others fall at every await of a
pass; the edit either removes everything or changes settings and compositions, which are the three
branches of `Proceed`. `orchestrator_rejected` needs an edit and its reversal. The setups of
`occurrences` (`MCOccurrence`) put together those who can disturb each other: two pipelines that
hand over with captures and an erasure; captures and an expiry with two faults, or with two sweeps;
annotations against a revocation and an erasure; and a browser whose queue holds two events against
a revocation, an erasure with other notifications that overflow it, the expiry with two sweeps, and
the plain feed. Restarts, dropped connections, failed lists and failing steps count as faults. A
setup with everything at once adds states and no new neighbours. The history `overtaken` needs no
cap, because its property bounds it.

**Deadlock.** It is checked where the system never stops (`Scheduler`, `SubjectLedger`). The other
runs end when every packet was sent and every node is cancelled, when the bundle or the
orchestrator is stopped, or when a bound is exhausted, so their configurations switch the check
off; that nothing is stuck earlier is what the liveness properties are for.

**Fairness.** It is per task, which is what an event loop gives: a callback that is ready runs. It
is weak, with one exception.
- `Channel`: `Poll` of each producer and `Get`, `Arm`, `WakeUp` of each reader. No timeout is fair,
  so nothing depends on one. A node's loop is assumed to return to `read()`.
- `KeyedChannel`: `Get`, and the passes of each put.
- `Reconcile`: the call in progress (a `prepare` or `shutdown` that is awaited returns), the time
  limit of `stop`, and the end of a task that was cancelled. No operator is assumed to leave its
  loop.
- `EventStream`: the pump, the generator of the server, and the reader of the inbox. Nobody has to
  publish, and no fault is fair.
- `Orchestrator`: the pass in progress, what its caller does after it, the pump, the end of the
  loop's sleep, and `stop`. The lock is an `asyncio.Lock`, which serves its waiters in order:
  `BeginPass` of the API call is strongly fair, so the loop cannot take the lock for ever in front
  of it. Activation checks, `prepare` and the requests to the server are assumed to answer; the
  orchestrator itself sets no time limit on them, and one that never answered would keep the lock.
- `Occurrence`: every transaction and continuation, the periodic sweep, the startup, the clock; the
  browser reconnects, lets its timers fire and its requests end, with an answer or an error. Nobody
  has to record, leave or ask, and no fault is fair.
- `Scheduler`: the callers' turns, and each function ends, by itself or by its deadline. A function
  in a thread that never ended would keep its permit for ever; the code can do nothing about it.

## 4. Findings

Each is a run of its own that TLC must find violated; PROJECT.json quotes the lines.

1. `reconcile_queue_edit`: editing the queue settings of the edge into an operator B that is not
   shared rebuilds B's channels but retains its consumer C, which waits on the old channel. The
   revocation answers CANCELED, and `read` takes that for its own end (`execution.py:266-269`):
   C stops for good although it is reported as retained. That it takes an edit of queue settings is
   proved (`RetainedGoOn`, section 5); `reconcile_safety` therefore uses edits of configurations and
   of the graph.
2. `orchestrator_rejected`: the errors of the activation checks are one dictionary of the latest
   checks, and a pass that finds an edit made while its checks waited returns without recording its
   plan. An edit that takes a rejected remote pipeline out, and is reverted while its own checks
   wait, leaves the old plan on record with no errors; the next pass checks nothing and pushes the
   rejected pipeline to the processing server. Its pump, when it reconnects, also starts an origin
   of it that is not on record; `OriginsOfRecord` is therefore checked, and proved, for remote
   pipelines that are not rejected. A save of the API is refused while the checks of what it writes
   fail, so the two edits come from the file and a reload, or from saves made while a check passes
   that failed before and fails again.

Four more behaviours were met that no line of the repository speaks against; they are in the models,
and the properties and theorems except them by name. The disposal of a failed candidate catches
`Exception` around each `shutdown()`, which lets a cancellation through: the operators that are left
are never shut down (`abandoned` in `ShutDownOnce`). After a restart of the origin within one
instance of the server, the new pump of a private stream begins below the acknowledged position and
is refused for good (a cause in `SuspendedForCause`). A pipeline with an empty graph compiles, and
the bundle of a plan without operators has no tasks; `running = bool(self._tasks)`
(`execution.py:633`) takes that for a runtime that was not started, so that a later reconciliation
prepares new operators and never creates their tasks (`NoPlanIsEmpty`, a hypothesis of
`RetainedGoOn`). And what `lost` names in `Occurrence`.

## 5. What is proved

All theorems hold for any value of the constants that satisfies the module's named assumptions
(finite sets, positive capacities, functions with the right domains; TLC evaluates them on every
run of the module).

**Channel** (`ChannelProofs`). `TypeCorrect`, which includes that no
channel exceeds its capacity, is inductive by itself. `RevocationHolds` rests on it.
`WakeupsReachConsumers` is by the lemmas `ProducerWakes`, `ConsumerWakes` and `RuntimeWakes`: a
step that makes a queue non-empty sets the event, and one that parks a reader or clears the event
sees an empty queue. For `EdgesDeliveredInOrder` the invariant is `OrderInv`: it is not enough to
look at what was delivered, so it says of every edge that was emitted and not delivered that it
is queued, was discarded on purpose, or comes after everything queued because its put still waits
or its producer can put nothing more. `DeliveredInOrder` then follows for the one step that
delivers. `CountersHold` compares a sum over queues with a counter: the bytes are counted as cells,
one per byte, so that a step changes the cells of one channel and a cardinality of disjoint sets
adds up; the invariant is stated for a queue and a counter that are given (`Exact`), and there is a
lemma for each way in which they change together.

**KeyedChannel** (`KeyedChannelProofs`). The invariant has two parts. `Contents` takes
`PlacesMatchItems` and `CountersExact` together with the order of tickets and arrivals; its lemmas
are about a set of envelopes that leaves (`LeaveKeeps`), leaves while one enters (`EnterKeeps`), is
served (`GetKeeps`) or is cleared. `PlaceIsKept` is not inductive by itself: `InTurn` adds the places
ahead of a stream to the deliveries that overtook it, and both together are fewer than the streams,
because each of the others has one place and goes to the end once served. `Producing` says whose
each lifecycle edge is; `EdgesKept` follows from `VictimsAreUpdates`, by which no policy evicts an
envelope that is owed.

**Reconcile** (`ReconcileProofs`). The invariant `IndInv` has five parts: types; generations (a
candidate is younger than the graph); live tasks belong to the current instances, and those of
replaced operators have ended when retirement begins; what a loop has left is what it has still to
do; and `Open`, the instances whose shutdown is still to come in each phase, complements exactly
those shut down once. `NodesRunOnce`, `OperatorsAreShutDownOnce` and `ShutDownAfterTheTask` follow.
`WiringInv` is beside it: the running graph holds its channels, a candidate's new operators hold
those the candidate listed, and what is revoked is older than the candidate and will not be reused;
`EndsHoldOneChannel` and `ReportMatches` follow. It needs `ReusedChannelsExist`: an edge into a
retained node is in both plans, because identifiers name their nodes.

`RetainedGoOn` is the property of the first finding under the hypothesis that no queue setting is
edited (and no plan is empty, section 4). Signatures digest what is upstream, so with equal settings
a node with an equal signature has an equal identifier (`SameIdentifier`), and what feeds a retained
node is retained (`RetainedUpstream`); the channel it waits on then has two retained ends and is not
revoked, which is the part of `RunsInv` that the finding breaks. What the recursions along the
edges compute is by induction on an acyclic graph (`GraphAssumption`; `_topological_sort` rejects
the others): on the number of each node in the order of its plan (`AllNumbers`).

**Scheduler** (`SchedulerProofs`). The invariant adds to the types that the wait queue holds
exactly the callers that wait, without repetition, that a permit is with the phase of its owner,
and that every function is attended by one caller or none. `PermitsAlwaysAccounted` is one of its
parts; `NeverMoreThanLimit` follows because the functions at work are no more than the permits
held, and `DeadlineHitsOne` because named pools have a limit of one.

**SubjectLedger** (`SubjectLedgerProofs`). The centre is `MergeIsUnion`: for ranges in order that
do not touch, and any number, `Merge` gives such ranges again, and the lookup finds in them what
it found before and the number, nothing else. It is by a case analysis (`MergeJoins`): the loop of
`add` absorbs at most one range on the left and one on the right. From it `RangesStayNormal`,
`NoNumberClosedByMerging` and `ClosedStaysRefused` are inductive together with the types, and
every step is one of `ClosedSet`, which takes a name in or says that it was lost:
`ImplementsClosedSet`.

**Orchestrator** (`OrchestratorProofs`). `IInv` follows a pass from await to await. `Checked` says
that what is being prepared runs already (a prune) or passed its checks; `Released` and `Opened`
say for an answered call what a pass under way may still bring into the bundle or take out of it:
a released demand is in no plan once its call's own prune is past, an opened one is in every
plan that is prepared. `Turns` orders what `stop()` takes down. From it follow `ReleasesHold`,
`OpeningsHold`, `StopIsThorough` and `OnlyCheckedStarts`. `OnlyOriginsOfRecord` has an invariant of
its own (a pump that is alive knows no pipeline outside the group on record, and the record changes
only once it is gone) and assumes Unfit \cap Remote = {}, for the second finding.

**Occurrence** (`OccurrenceProofs`). The invariant says whom each loose end belongs to: the
delivery its courier, the interruption the holder of the lock, the images the one who erased, and
publication whoever changed the document. It is inductive because these change hands within
transactions only and a crash puts what nobody takes up again into `lost`. `NothingWithdrawnIsKept`,
`ObservedWhileRecorded`, `ChangesAreFollowedUp` and `ErasedHasNoImages` follow.

The feed has an invariant of its own, `FeedInv`: whatever a browser shows, or is about to show, of
something that was erased has a withdrawal behind it, queued, on the wire, or owed by who erased it,
a person or any of the sweeps (`Followed`); a connection that is down carries nothing, and what its
page brings was answered before (`Closed`); nothing is shown that was never published (`Published`).
`WithdrawnIsNotShown` is what is left of it once nothing is queued or owed. `Discard` filters a
queue by a recursion over its places, because `SelectSeq` cannot be unfolded here;
`DiscardLeavesEvents` shows with a least counterexample that it is defined for every queue. With the
few variables neither argument needs (`Flags`), `TypeCorrect` follows.

**EventStream** (`EventStreamProofs`). One invariant carries all results. Of the server it says that
the numbers in the replay ascend and are of the current epoch (`ReplayInv`), and that what has left
it was acknowledged or is lost (`RetainedInv`); of the pump, where it is (`PositionInv`), that its
history ends there (`HandledInv`), and that what it passed, acknowledged or had forgotten is settled:
admitted or lost (`SettledInv`). The rest is about what is under way. In a public stream the epochs
of the messages do not go back, each is announced before its events, and no event comes before an
earlier one that is not settled (`PublicWireInv`); and every event of the server's epoch is settled,
on the wire, or still to be sent (`PublicQueueInv`). In a private one the wire carries the numbers
after the position one by one, and an error only for a cause (`PrivateWireInv`), and without a
restart no acknowledgement is beyond the position (`PrivateAckInv`). These are needed because the
contract speaks of what is handled, and nothing in the pump alone forbids a gap: the generator of
the server does, several messages earlier. `InboxHoldsOneEpoch`, `ForgetsWhatWasAdmitted` and
`NeverSuspendedWithoutCause` follow, and every step is one of `EventContract` or leaves it alone
(`ImplementsContract`).

**Only model-checked.** Liveness, for which the provers have no rule (fairness needs ENABLED). Each
safety and action property of the passing runs is a theorem. The library's induction theorems take
an operator as a parameter, which the provers cannot instantiate; the inductions above use the least
element of a set of numbers instead (`LeastOne`), and only where a property rests on them.

## 6. Not modelled, and what is left

Toposync is large: most of its lines are extensions (cameras, panoramas, vision, streaming), their
routes and the frontend. They process signals, drive devices, start external programs and lay out
pages; what they compute is arithmetic on images and configurations, and a model of their control
would be the text of their routes again. The models here cover the runtime that all of it runs on,
where the order of events decides, and the share of all lines they stand for stays small for that
reason.

Left aside for good: the core, gate and vision operators, the flow limiter (one counter, whose
permits are taken and finished within one iteration of an operator's loop), artifact and spatial
storage, parsers and static checks of graphs, configuration files (one lock and an atomic
replacement), telemetry, inspection, the event bus, authentication, installation of extensions, and
the extensions themselves. Notifications of other types than occurrences, with their filters, search
and access rules, are queries.

Partly modelled, with what is missing:
- Demands and consumer channels: `Orchestrator` has leases as it sees them. Renewals, several
  consumers of one demand, and the channel of a consumer, which checks `allowed` again after each
  await, are the next model. Abstract specification: nothing is delivered without a lease.
- Fan-out: `emit` over several channels of a node, one after the other, with cancellation between.
- Occurrence: several members and participants, whose closes and merges decide the status; an
  invalidation that meets operators holding packets (`execution.py:727`).
- Orchestrator: several processing servers; `invalidate_occurrence`.

Next proof: the second finding's counterpart of `RetainedGoOn`, that without an edit under way nothing
rejected is sent.
