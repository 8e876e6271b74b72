------------------------------ MODULE Reconcile ------------------------------
(***************************************************************************)
(* The life of the local bundle: PipelineRuntime.start, reconcile and stop *)
(* (runtime/pipelines/execution.py) as PipelineBundleRuntime and the       *)
(* orchestrator call them.                                                 *)
(*                                                                         *)
(* A reconciliation builds a candidate runtime next to the running one,    *)
(* prepares its new operators, and then commits: the operators that are    *)
(* not retained are cancelled, awaited and shut down, the channels that    *)
(* the candidate does not reuse are revoked, and the candidate's maps      *)
(* replace the running ones.  Retained operators go on running all along.  *)
(*                                                                         *)
(* An operator of the merged graph is a node; what the runtime factory     *)
(* returned for it in round g is its instance <<n, g>>.  A channel is its  *)
(* edge and the round it was built in.  Reconciliations are serialised by  *)
(* the orchestrator's lock, and stop() waits for the one it cancelled.     *)
(***************************************************************************)
EXTENDS Naturals, FiniteSets

CONSTANTS
    Nodes,        \* the operators
    Edges,        \* <<source, target>>, the edges of any plan
    Shareable,    \* the nodes that may be merged across pipelines
    Plans,        \* the graphs the user may configure
    FirstPlan,    \* the graph the bundle is created with
    MaxRounds,    \* bound: how many instances of a node are ever built
    MaxCancels    \* bound: how often the caller of a reconciliation is cancelled

\* A plan: its nodes, what each is configured with, its edges, and the queue settings
\* of each.
Configs == {P.config[n] : P \in Plans, n \in Nodes}
Policies == {P.policy[e] : P \in Plans, e \in Edges}

ASSUME ReconcileAssumption ==
    /\ Edges \subseteq Nodes \X Nodes
    /\ Shareable \subseteq Nodes
    /\ Plans \subseteq [nodes : SUBSET Nodes, config : [Nodes -> Configs],
                        edges : SUBSET Edges, policy : [Edges -> Policies]]
    /\ \A P \in Plans : \A e \in P.edges : e[1] \in P.nodes /\ e[2] \in P.nodes
    /\ FirstPlan \in Plans
    /\ MaxRounds \in Nat \ {0}
    /\ MaxCancels \in Nat

\* The compiler rejects a graph with a cycle.
ASSUME GraphAssumption ==
    /\ IsFiniteSet(Nodes)
    /\ \A P \in Plans : \E rank \in [Nodes -> 0..Cardinality(Nodes)] :
          \A e \in P.edges : rank[e[1]] < rank[e[2]]

Rounds == 0..MaxRounds
Instance == Nodes \X (1..MaxRounds)

VARIABLES
    plan,        \* PipelineRuntime.compiled
    published,   \* PipelineBundleRuntime.report
    gen,         \* node -> round of its instance in _runtime_by_node, 0 if none
    chan,        \* edge -> round of its channel in channel_map, 0 if none
    round,       \* the last round in which a runtime was built
    built,       \* the instances the factories returned
    downs,       \* instance -> how often shutdown() was called
    abandoned,   \* the instances left behind by a loop that was cancelled (history)
    task,        \* instance -> state of its task
    killed,      \* the instances whose task was cancelled
    cancel,      \* the instances whose cancel_event is set
    wire,        \* instance -> edge -> round of the channel in its context
    reading,     \* instance -> <<edge, round>> it waits on in get()
    revoked,     \* the <<edge, round>> channels that were revoked
    phase,       \* where start, reconcile or stop is
    cand,        \* the plan of the candidate
    todo,        \* the nodes the current loop has left
    running,     \* the flag computed when the commit starts
    cancels      \* how often the caller was cancelled (bound)

graphVars == <<plan, published, gen, chan>>
instVars == <<built, downs, abandoned, task, killed, cancel, wire, reading, revoked>>
callVars == <<phase, cand, todo, running, cancels>>
vars == <<plan, published, gen, chan, round, built, downs, abandoned, task, killed, cancel,
          wire, reading, revoked, phase, cand, todo, running, cancels>>

TaskState == {"none", "top", "reading", "working", "crashed", "done"}
Alive(i) == task[i] \in {"top", "reading", "working"}
Phases == {"new", "starting", "idle", "preparing", "disposing", "gathering",
           "retiring", "stopping", "joining", "stopped"}

(***************************************************************************)
(* What the compiler and the merge plan say of a graph.                    *)
(***************************************************************************)
Sources(P, n) == {m \in P.nodes : <<m, n>> \in P.edges}

\* An operator that produces has no inputs, in any plan.
IsProducer(n) == \A e \in Edges : e[2] # n

\* The signature covers the configuration upstream, and no queue setting.
Signature(P, n) ==
    LET signature[k \in Nodes] ==
            <<k, P.config[k], {signature[m] : m \in Sources(P, k)}>>
    IN  signature[n]

\* The identifier of a merged node.  A shareable node's digests its signature, its
\* incoming queue settings and its sources' identifiers; an isolated node's is its own.
Identifier(P, n) ==
    LET identifier[k \in Nodes] ==
            IF k \notin Shareable THEN <<"isolated", k>>
            ELSE <<"shared", Signature(P, k),
                   {<<identifier[m], P.policy[<<m, k>>]>> : m \in Sources(P, k)}>>
    IN  identifier[n]

\* The incoming edges of a merged node.
Incoming(P, n) == {<<Identifier(P, m), P.policy[<<m, n>>]>> : m \in Sources(P, n)}

\* _retained_nodes of the candidate.
Retained(P, Q) ==
    {n \in P.nodes \cap Q.nodes :
        /\ Identifier(P, n) = Identifier(Q, n)
        /\ Signature(P, n) = Signature(Q, n)
        /\ Incoming(P, n) = Incoming(Q, n)}

Kept == Retained(plan, cand)
Fresh == cand.nodes \ Kept
Removed == plan.nodes \ Kept

Current(n) == <<n, gen[n]>>
Replacement(n) == <<n, round>>
\* A channel is reused if both its ends are retained.
Reused(e) == e \in cand.edges /\ e[1] \in Kept /\ e[2] \in Kept
CandidateChannels == [e \in Edges |-> IF Reused(e) THEN chan[e] ELSE round]
WiresOf(n, P, channels) ==
    [e \in Edges |-> IF e \in P.edges /\ n \in {e[1], e[2]} THEN channels[e] ELSE 0]

(***************************************************************************)
(* The task of an instance: the run loop of an operator.                   *)
(***************************************************************************)
\* The loops but one go through the nodes in the order of the graph.
IsNext(P, n) == n \in todo /\ Sources(P, n) \cap todo = {}

\* Every step of a task that was not cancelled.
Continues(i) == Alive(i) /\ i \notin killed

\* The head of the loop: leave it, or call read(), or produce.
Loop(i) ==
    /\ Continues(i) /\ task[i] = "top"
    /\ \/ i \in cancel /\ task' = [task EXCEPT ![i] = "done"] /\ UNCHANGED reading
       \/ /\ i \notin cancel /\ IsProducer(i[1])
          /\ task' = [task EXCEPT ![i] = "working"] /\ UNCHANGED reading
       \/ /\ i \notin cancel
          /\ \E e \in {d \in Edges : d[2] = i[1] /\ wire[i][d] # 0} :
                reading' = [reading EXCEPT ![i] = <<e, wire[i][e]>>]
          /\ task' = [task EXCEPT ![i] = "reading"]
    /\ UNCHANGED <<graphVars, round, built, downs, abandoned, killed, cancel, wire, revoked, callVars>>

\* read() returns a packet, or nothing when its timeout runs out.
Receive(i) ==
    /\ Continues(i) /\ task[i] = "reading"
    /\ reading[i] \notin revoked
    /\ task' = [task EXCEPT ![i] = "working"]
    /\ reading' = [reading EXCEPT ![i] = <<>>]
    /\ UNCHANGED <<graphVars, round, built, downs, abandoned, killed, cancel, wire, revoked, callVars>>

ReadTimeout(i) ==
    /\ Continues(i) /\ task[i] = "reading"
    /\ reading[i] \notin revoked /\ i \notin cancel
    /\ task' = [task EXCEPT ![i] = "top"]
    /\ reading' = [reading EXCEPT ![i] = <<>>]
    /\ UNCHANGED <<graphVars, round, built, downs, abandoned, killed, cancel, wire, revoked, callVars>>

\* A get() that is CANCELED sets the cancel_event of the node.
ReadCanceled(i) ==
    /\ Continues(i) /\ task[i] = "reading"
    /\ reading[i] \in revoked \/ i \in cancel
    /\ task' = [task EXCEPT ![i] = "top"]
    /\ reading' = [reading EXCEPT ![i] = <<>>]
    /\ cancel' = cancel \cup {i}
    /\ UNCHANGED <<graphVars, round, built, downs, abandoned, killed, wire, revoked, callVars>>

\* process_packet or produce, and the emits, come back.
Finish(i) ==
    /\ Continues(i) /\ task[i] = "working"
    /\ task' = [task EXCEPT ![i] = "top"]
    /\ UNCHANGED <<graphVars, round, built, downs, abandoned, killed, cancel, wire, reading, revoked, callVars>>

\* An exception of a source leaves its loop; a transform logs and goes on.
Crash(i) ==
    /\ Continues(i) /\ task[i] = "working" /\ IsProducer(i[1])
    /\ task' = [task EXCEPT ![i] = "crashed"]
    /\ UNCHANGED <<graphVars, round, built, downs, abandoned, killed, cancel, wire, reading, revoked, callVars>>

\* CancelledError is raised at the await.
Die(i) ==
    /\ Alive(i) /\ i \in killed
    /\ task' = [task EXCEPT ![i] = "done"]
    /\ reading' = [reading EXCEPT ![i] = <<>>]
    /\ UNCHANGED <<graphVars, round, built, downs, abandoned, killed, cancel, wire, revoked, callVars>>

(***************************************************************************)
(* start()                                                                 *)
(***************************************************************************)
Start ==
    /\ phase = "new"
    /\ phase' = "starting" /\ todo' = plan.nodes
    /\ UNCHANGED <<graphVars, round, instVars, cand, running, cancels>>

\* One prepare() comes back, in start() or in reconcile().
Prepare(n) ==
    /\ \/ phase = "starting" /\ IsNext(plan, n)
       \/ phase = "preparing" /\ IsNext(cand, n)
    /\ todo' = todo \ {n}
    /\ UNCHANGED <<graphVars, round, instVars, phase, cand, running, cancels>>

StartTasks ==
    /\ phase = "starting" /\ todo = {}
    /\ phase' = "idle"
    /\ task' = [i \in Instance |-> IF i[1] \in plan.nodes /\ i = Current(i[1])
                                   THEN "top" ELSE task[i]]
    /\ UNCHANGED <<graphVars, round, built, downs, abandoned, killed, cancel, wire, reading, revoked,
                   cand, todo, running, cancels>>

\* prepare() raised or was cancelled: start() stops what there is.
StartFails ==
    /\ phase = "starting" /\ todo # {}
    /\ \/ UNCHANGED cancels
       \/ cancels < MaxCancels /\ cancels' = cancels + 1
    /\ phase' = "stopping" /\ todo' = plan.nodes
    /\ cancel' = cancel \cup {Current(n) : n \in plan.nodes}
    /\ UNCHANGED <<graphVars, round, built, downs, abandoned, task, killed, wire, reading, revoked,
                   cand, running>>

(***************************************************************************)
(* reconcile()                                                             *)
(***************************************************************************)
\* The candidate is built: new instances and new channels, wired to each other.
\* _build_runtime may raise after some of the factories were called, in the
\* order of the graph.
Build(P, some) ==
    LET kept == Retained(plan, P)
        fresh == {<<n, round + 1>> : n \in some}
        channels == [e \in Edges |->
            IF e \in P.edges /\ e[1] \in kept /\ e[2] \in kept THEN chan[e] ELSE round + 1]
    IN  /\ some \subseteq P.nodes \ kept
        /\ \A n \in some : Sources(P, n) \cap (P.nodes \ kept) \subseteq some
        /\ round' = round + 1
        /\ built' = built \cup fresh
        /\ wire' = [i \in Instance |-> IF i \in fresh THEN WiresOf(i[1], P, channels) ELSE wire[i]]
        /\ todo' = some
        /\ phase' = IF some = P.nodes \ kept THEN "preparing" ELSE "disposing"

Reconcile(P) ==
    /\ phase = "idle" /\ round < MaxRounds
    /\ cand' = P
    /\ \E some \in SUBSET P.nodes : Build(P, some)
    /\ UNCHANGED <<graphVars, downs, abandoned, task, killed, cancel, reading, revoked, running, cancels>>

\* prepare() raised, or the caller was cancelled while it awaited one.
PrepareFails ==
    /\ phase = "preparing" /\ todo # {}
    /\ phase' = "disposing" /\ todo' = Fresh
    /\ \/ UNCHANGED cancels
       \/ cancels < MaxCancels /\ cancels' = cancels + 1
    /\ UNCHANGED <<graphVars, round, instVars, cand, running>>

\* Mutant: the candidates that were prepared are forgotten.
DisposeUnprepared(n) ==
    /\ phase = "disposing" /\ IsNext(cand, n)
    /\ todo' = todo \ {n}
    /\ UNCHANGED <<graphVars, round, instVars, phase, cand, running, cancels>>
Dispose(n) ==
    /\ phase = "disposing" /\ IsNext(cand, n)
    /\ todo' = todo \ {n}
    /\ downs' = [downs EXCEPT ![Replacement(n)] = @ + 1]
    /\ UNCHANGED <<graphVars, round, built, abandoned, task, killed, cancel, wire, reading, revoked,
                   phase, cand, running, cancels>>

\* The caller is cancelled while it awaits one of those shutdown(): the clause
\* that logs their exceptions lets CancelledError through, the others are not called.
DisposeCancelled(n) ==
    /\ phase = "disposing" /\ IsNext(cand, n) /\ cancels < MaxCancels
    /\ phase' = "idle" /\ todo' = {} /\ cancels' = cancels + 1
    /\ downs' = [downs EXCEPT ![Replacement(n)] = @ + 1]
    /\ abandoned' = abandoned \cup {Replacement(m) : m \in todo \ {n}}
    /\ UNCHANGED <<graphVars, round, built, task, killed, cancel, wire, reading, revoked,
                   cand, running>>

\* The exception reaches the caller; the running graph is what it was.
Disposed ==
    /\ phase = "disposing" /\ todo = {}
    /\ phase' = "idle"
    /\ UNCHANGED <<graphVars, round, instVars, cand, todo, running, cancels>>

\* _commit_reconciliation up to its first await.
\* Mutant: the cancel_event is set, but the tasks are not cancelled.
CommitWithoutKill ==
    /\ phase = "preparing" /\ todo = {}
    /\ phase' = "gathering"
    /\ running' = \E i \in Instance : i = Current(i[1]) /\ task[i] # "none"
    /\ cancel' = cancel \cup {Current(n) : n \in Removed}
    /\ revoked' = revoked \cup
                  {<<e, chan[e]>> : e \in {d \in plan.edges : ~Reused(d)}}
    /\ UNCHANGED <<graphVars, round, built, downs, abandoned, task, killed, wire, reading, cand, todo, cancels>>
Commit ==
    /\ phase = "preparing" /\ todo = {}
    /\ phase' = "gathering"
    /\ running' = \E i \in Instance : i = Current(i[1]) /\ task[i] # "none"
    /\ cancel' = cancel \cup {Current(n) : n \in Removed}
    /\ killed' = killed \cup {Current(n) : n \in Removed}
    /\ revoked' = revoked \cup
                  {<<e, chan[e]>> : e \in {d \in plan.edges : ~Reused(d)}}
    /\ UNCHANGED <<graphVars, round, built, downs, abandoned, task, wire, reading, cand, todo, cancels>>

\* The caller is cancelled while the commit runs: it goes on waiting.
\* Mutant: the cancellation aborts the commit.
CallerAborts ==
    /\ phase \in {"gathering", "retiring"} /\ cancels < MaxCancels
    /\ cancels' = cancels + 1
    /\ phase' = "idle"
    /\ UNCHANGED <<graphVars, round, instVars, cand, todo, running>>
CallerCancelled ==
    /\ phase \in {"gathering", "retiring"} /\ cancels < MaxCancels
    /\ cancels' = cancels + 1
    /\ UNCHANGED <<graphVars, round, instVars, phase, cand, todo, running>>

\* gather() on the tasks of the removed nodes.
\* Mutant: they are not awaited.
GatherNothing ==
    /\ phase = "gathering"
    /\ phase' = "retiring" /\ todo' = Removed
    /\ UNCHANGED <<graphVars, round, instVars, cand, running, cancels>>
Gather ==
    /\ phase = "gathering"
    /\ \A n \in Removed : ~Alive(Current(n))
    /\ phase' = "retiring" /\ todo' = Removed
    /\ UNCHANGED <<graphVars, round, instVars, cand, running, cancels>>

Retire(n) ==
    /\ phase = "retiring" /\ n \in todo
    /\ todo' = todo \ {n}
    /\ downs' = [downs EXCEPT ![Current(n)] = @ + 1]
    /\ UNCHANGED <<graphVars, round, built, abandoned, task, killed, cancel, wire, reading, revoked,
                   phase, cand, running, cancels>>

\* The maps are replaced, the retained contexts rewired, the new tasks created;
\* PipelineBundleRuntime.reconcile publishes the report in its finally clause.
\* Mutant: retained contexts keep their channels.
SwapKeepingWires ==
    /\ phase = "retiring" /\ todo = {}
    /\ phase' = "idle"
    /\ plan' = cand /\ published' = cand
    /\ gen' = [n \in Nodes |-> IF n \notin cand.nodes THEN 0
                               ELSE IF n \in Kept THEN gen[n] ELSE round]
    /\ chan' = [e \in Edges |-> IF e \in cand.edges THEN CandidateChannels[e] ELSE 0]
    /\ task' = [i \in Instance |-> IF running /\ i[1] \in Fresh /\ i = Replacement(i[1])
                                   THEN "top" ELSE task[i]]
    /\ UNCHANGED <<round, built, downs, abandoned, killed, cancel, wire, reading, revoked,
                   cand, todo, running, cancels>>
\* Mutant: the report is published only when no cancellation was raised.
SwapWithoutFinally ==
    /\ phase = "retiring" /\ todo = {}
    /\ phase' = "idle"
    /\ plan' = cand
    /\ published' = IF cancels = 0 THEN cand ELSE published
    /\ gen' = [n \in Nodes |-> IF n \notin cand.nodes THEN 0
                               ELSE IF n \in Kept THEN gen[n] ELSE round]
    /\ chan' = [e \in Edges |-> IF e \in cand.edges THEN CandidateChannels[e] ELSE 0]
    /\ wire' = [i \in Instance |-> IF i[1] \in Kept /\ i = Current(i[1])
                                   THEN WiresOf(i[1], cand, CandidateChannels) ELSE wire[i]]
    /\ task' = [i \in Instance |-> IF running /\ i[1] \in Fresh /\ i = Replacement(i[1])
                                   THEN "top" ELSE task[i]]
    /\ UNCHANGED <<round, built, downs, abandoned, killed, cancel, reading, revoked,
                   cand, todo, running, cancels>>
Swap ==
    /\ phase = "retiring" /\ todo = {}
    /\ phase' = "idle"
    /\ plan' = cand /\ published' = cand
    /\ gen' = [n \in Nodes |-> IF n \notin cand.nodes THEN 0
                               ELSE IF n \in Kept THEN gen[n] ELSE round]
    /\ chan' = [e \in Edges |-> IF e \in cand.edges THEN CandidateChannels[e] ELSE 0]
    /\ wire' = [i \in Instance |-> IF i[1] \in Kept /\ i = Current(i[1])
                                   THEN WiresOf(i[1], cand, CandidateChannels) ELSE wire[i]]
    /\ task' = [i \in Instance |-> IF running /\ i[1] \in Fresh /\ i = Replacement(i[1])
                                   THEN "top" ELSE task[i]]
    /\ UNCHANGED <<round, built, downs, abandoned, killed, cancel, reading, revoked,
                   cand, todo, running, cancels>>

(***************************************************************************)
(* stop()                                                                  *)
(***************************************************************************)
Stop ==
    /\ phase = "idle"
    /\ phase' = "stopping" /\ todo' = plan.nodes
    /\ cancel' = cancel \cup {Current(n) : n \in plan.nodes}
    /\ UNCHANGED <<graphVars, round, built, downs, abandoned, task, killed, wire, reading, revoked,
                   cand, running, cancels>>

Shutdown(n) ==
    /\ phase = "stopping" /\ IsNext(plan, n)
    /\ todo' = todo \ {n}
    /\ downs' = [downs EXCEPT ![Current(n)] = @ + 1]
    /\ UNCHANGED <<graphVars, round, built, abandoned, task, killed, cancel, wire, reading, revoked,
                   phase, cand, running, cancels>>

\* The same in the stop() of a failed start(): no task exists, and the bundle is dropped.
NoTasks == \A i \in Instance : task[i] = "none"
StartStopCancelled(n) ==
    /\ phase = "stopping" /\ NoTasks /\ IsNext(plan, n) /\ cancels < MaxCancels
    /\ phase' = "stopped" /\ todo' = {} /\ cancels' = cancels + 1
    /\ downs' = [downs EXCEPT ![Current(n)] = @ + 1]
    /\ abandoned' = abandoned \cup {Current(m) : m \in todo \ {n}}
    /\ UNCHANGED <<graphVars, round, built, task, killed, cancel, wire, reading, revoked,
                   cand, running>>

\* Otherwise who cancelled it is the orchestrator's stop(), which finds the bundle
\* and stops it from the beginning.
StopCancelled ==
    /\ phase \in {"stopping", "joining"} /\ ~NoTasks /\ cancels < MaxCancels
    /\ phase' = "stopping" /\ todo' = plan.nodes /\ cancels' = cancels + 1
    /\ \/ UNCHANGED downs
       \/ \E n \in Nodes : IsNext(plan, n) /\ downs' = [downs EXCEPT ![Current(n)] = @ + 1]
    /\ UNCHANGED <<graphVars, round, built, abandoned, task, killed, cancel, wire, reading,
                   revoked, cand, running>>

Join ==
    /\ phase = "stopping" /\ todo = {}
    /\ phase' = "joining"
    /\ UNCHANGED <<graphVars, round, instVars, cand, todo, running, cancels>>

\* Two seconds later the tasks that are left are cancelled.
JoinTimeout ==
    /\ phase = "joining"
    /\ \E n \in plan.nodes : Continues(Current(n))
    /\ killed' = killed \cup {Current(n) : n \in {m \in plan.nodes : Alive(Current(m))}}
    /\ UNCHANGED <<graphVars, round, built, downs, abandoned, task, cancel, wire, reading, revoked, callVars>>

Stopped ==
    /\ phase = "joining"
    /\ \A n \in plan.nodes : ~Alive(Current(n))
    /\ phase' = "stopped"
    /\ UNCHANGED <<graphVars, round, instVars, cand, todo, running, cancels>>

(***************************************************************************)
(* The specification.                                                      *)
(***************************************************************************)
Init ==
    /\ plan = FirstPlan /\ published = FirstPlan /\ cand = FirstPlan
    /\ round = 1
    /\ gen = [n \in Nodes |-> IF n \in FirstPlan.nodes THEN 1 ELSE 0]
    /\ chan = [e \in Edges |-> IF e \in FirstPlan.edges THEN 1 ELSE 0]
    /\ built = {<<n, 1>> : n \in FirstPlan.nodes}
    /\ downs = [i \in Instance |-> 0] /\ abandoned = {}
    /\ task = [i \in Instance |-> "none"]
    /\ killed = {} /\ cancel = {} /\ revoked = {}
    /\ wire = [i \in Instance |-> [e \in Edges |->
                  IF i[2] = 1 /\ e \in FirstPlan.edges /\ i[1] \in {e[1], e[2]} THEN 1 ELSE 0]]
    /\ reading = [i \in Instance |-> <<>>]
    /\ phase = "new" /\ todo = {} /\ running = FALSE /\ cancels = 0

TaskStep(i) ==
    Loop(i) \/ Receive(i) \/ ReadTimeout(i) \/ ReadCanceled(i) \/ Finish(i) \/ Crash(i) \/ Die(i)

CallProgress ==
    \/ Start \/ StartTasks \/ Disposed \/ Commit \/ Gather \/ Swap \/ Join \/ Stopped
    \/ \E n \in Nodes : Prepare(n) \/ Dispose(n) \/ Retire(n) \/ Shutdown(n)

Next ==
    \/ \E i \in Instance : TaskStep(i)
    \/ CallProgress
    \/ StartFails \/ PrepareFails \/ CallerCancelled \/ StopCancelled \/ JoinTimeout
    \/ \E n \in Nodes : DisposeCancelled(n) \/ StartStopCancelled(n)
    \/ \E P \in Plans : Reconcile(P)
    \/ Stop

Spec == Init /\ [][Next]_vars

\* prepare(), shutdown() and a cancelled task come back, the timer of stop()
\* fires.  Nothing is assumed of the packets, so a task may work forever.
Fairness ==
    /\ WF_vars(CallProgress)
    /\ WF_vars(JoinTimeout)
    /\ \A i \in Instance : WF_vars(Die(i))

FairSpec == Spec /\ Fairness

(***************************************************************************)
(* Properties.                                                             *)
(***************************************************************************)
TypeOK ==
    /\ plan \in Plans /\ published \in Plans /\ cand \in Plans
    /\ gen \in [Nodes -> Rounds]
    /\ chan \in [Edges -> Rounds]
    /\ round \in 1..MaxRounds
    /\ built \subseteq Instance
    /\ downs \in [Instance -> Nat] /\ abandoned \subseteq Instance
    /\ task \in [Instance -> TaskState]
    /\ killed \subseteq Instance /\ cancel \subseteq Instance
    /\ wire \in [Instance -> [Edges -> Rounds]]
    /\ reading \in [Instance -> (Edges \X Rounds) \cup {<<>>}]
    /\ revoked \subseteq Edges \X Rounds
    /\ phase \in Phases
    /\ todo \subseteq Nodes
    /\ running \in BOOLEAN
    /\ cancels \in 0..MaxCancels

\* A node never runs twice at once: the task of a replaced operator has ended
\* before the task of its replacement is created, so a camera, a tracker or a
\* sink never has two owners.
OneTaskPerNode ==
    \A i, j \in Instance : i[1] = j[1] /\ Alive(i) /\ Alive(j) => i = j

\* shutdown() is called on every operator that was built and is not in use, and
\* a reconciliation calls it once: nothing leaks when a factory or a prepare()
\* raises or when the caller is cancelled, except what a cancelled disposal
\* leaves behind, and nothing is shut down twice but by two stop().
Settled == phase \in {"idle", "stopped"}
StopPhases == {"stopping", "joining", "stopped"}
InUse(i) == phase # "stopped" /\ i[1] \in plan.nodes /\ i = Current(i[1])
ShutDownOnce ==
    /\ phase \notin StopPhases => \A i \in Instance : downs[i] <= 1
    /\ Settled => \A i \in built \ abandoned : downs[i] = 0 <=> InUse(i)

\* A reconciliation shuts an operator down only when its task has ended; stop()
\* alone does it earlier, to unblock the task.
NoTaskAfterShutdown ==
    phase \notin StopPhases =>
        \A i \in Instance : downs[i] > 0 => ~Alive(i)

\* Between calls, both ends of every edge hold the channel that the runtime
\* lists for it, and nobody revoked it.
EndsShareChannel ==
    phase = "idle" => \A e \in plan.edges :
        /\ chan[e] # 0 /\ <<e, chan[e]>> \notin revoked
        /\ wire[Current(e[1])][e] = chan[e]
        /\ wire[Current(e[2])][e] = chan[e]

\* A call that returned, however it ended, left the published report and the
\* running graph equal.
PublishedIsRunning == Settled => published = plan

\* An operator that a reconciliation retained keeps running: between calls the
\* task of every node of the graph is alive unless it crashed.
RetainedKeepsRunning ==
    phase = "idle" =>
        \A n \in plan.nodes :
            \/ Alive(Current(n)) /\ Current(n) \notin cancel
            \/ task[Current(n)] = "crashed"

\* Once the retirement of the old operators started, the swap is finished even
\* if the caller is cancelled again and again.
CommitFinishes ==
    (phase \in {"gathering", "retiring"}) ~> (phase = "idle" /\ plan = cand /\ published = cand)

\* Every call comes back.
CallsReturn == (phase \notin {"new"}) ~> Settled
=============================================================================
