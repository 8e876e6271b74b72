---------------------------- MODULE ReconcileProofs ----------------------------
(* Theorems about Reconcile, for every graph and every edit of it. *)
EXTENDS Reconcile, TLAPS, WellFoundedInduction, FiniteSetTheorems

(***************************************************************************)
(* The inductive invariants.                                               *)
(***************************************************************************)
\* The phases that hold a candidate.
Candidate == phase \in {"preparing", "disposing", "gathering", "retiring"}

\* The generations of the nodes: a node of the graph has one, and a candidate's
\* round is younger than all of them.
GenerationsInv ==
    /\ \A n \in plan.nodes : gen[n] \in 1..round
    /\ Candidate => \A n \in plan.nodes : gen[n] < round

\* Only operators of the running graph have live tasks, and when the old ones
\* are being shut down theirs have ended.
LiveInv ==
    /\ \A i \in Instance : Alive(i) => i[1] \in plan.nodes /\ i = Current(i[1])
    /\ phase = "retiring" => \A n \in Removed : ~Alive(Current(n))

\* What a loop over nodes has left.
TodoInv ==
    /\ phase \in {"preparing", "disposing"} => todo \subseteq Fresh
    /\ phase = "retiring" => todo \subseteq Removed
    /\ phase = "stopping" => todo \subseteq plan.nodes

\* The instances that were built and whose shutdown() is still to come.
Currents(S) == {Current(n) : n \in S}
Replacements(S) == {Replacement(n) : n \in S}
Open ==
    CASE phase \in {"new", "starting", "idle"} -> Currents(plan.nodes)
      [] phase \in {"preparing", "gathering"} -> Currents(plan.nodes) \cup Replacements(Fresh)
      [] phase = "disposing" -> Currents(plan.nodes) \cup Replacements(todo)
      [] phase = "retiring" ->
            Currents((plan.nodes \cap Kept) \cup todo) \cup Replacements(Fresh)
      [] phase = "stopping" -> Currents(todo)
      [] OTHER -> {}
Closed == built \ (Open \cup abandoned)
OpenInv ==
    /\ Open \subseteq built /\ abandoned \subseteq built /\ Currents(plan.nodes) \subseteq built
    /\ \A i \in built : i[2] <= round
    /\ \A i \in Closed : downs[i] > 0
    /\ phase \notin StopPhases =>
          /\ Open \cap abandoned = {}
          /\ \A i \in Instance : downs[i] = IF i \in Closed THEN 1 ELSE 0

IndInv == TypeOK /\ GenerationsInv /\ LiveInv /\ TodoInv /\ OpenInv

(***************************************************************************)
(* The steps that the invariants do not distinguish.                       *)
(***************************************************************************)
\* What a step of a task leaves alone.
LEMMA TaskFrame ==
    ASSUME TypeOK, NEW i \in Instance, TaskStep(i)
    PROVE  /\ UNCHANGED <<graphVars, round, built, downs, abandoned, killed, wire, revoked, callVars>>
           /\ \A j \in Instance : j # i => task'[j] = task[j]
           /\ Alive(i)
<1> USE DEF graphVars, callVars
<1>1. UNCHANGED <<graphVars, round, built, downs, abandoned, killed, wire, revoked, callVars>>
  BY DEF TaskStep, Loop, Receive, ReadTimeout, ReadCanceled, Finish, Crash, Die
<1>2. \E s : task' = [task EXCEPT ![i] = s]
  BY DEF TaskStep, Loop, Receive, ReadTimeout, ReadCanceled, Finish, Crash, Die
<1>3. Alive(i)
  BY DEF TaskStep, Loop, Receive, ReadTimeout, ReadCanceled, Finish, Crash, Die, Continues
<1> QED BY <1>1, <1>2, <1>3, TypeOK DEF TypeOK

\* Retained nodes are nodes of both graphs.
LEMMA KeptNodes == /\ Kept \subseteq plan.nodes /\ Kept \subseteq cand.nodes
                   /\ Removed = plan.nodes \ Kept /\ Fresh = cand.nodes \ Kept
BY DEF Kept, Retained, Removed, Fresh

LEMMA PlanNodes ==
    ASSUME NEW P \in Plans
    PROVE  P.nodes \subseteq Nodes
BY ReconcileAssumption

LEMMA CurrentsAreInstances ==
    ASSUME TypeOK, GenerationsInv
    PROVE  /\ plan.nodes \subseteq Nodes
           /\ {Current(n) : n \in plan.nodes} \subseteq Instance
<1>1. plan.nodes \subseteq Nodes /\ round \in 1..MaxRounds /\ MaxRounds \in Nat
  BY PlanNodes, ReconcileAssumption DEF TypeOK
<1>2. \A n \in plan.nodes : gen[n] \in 1..MaxRounds
  BY <1>1 DEF GenerationsInv
<1> QED BY <1>1, <1>2 DEF Current, Instance

(***************************************************************************)
(* The graph.                                                              *)
(***************************************************************************)
\* A set of numbers has a least one.
LEMMA LeastOne ==
    ASSUME NEW T, T \subseteq Nat, T # {}
    PROVE  \E m \in T : \A k \in T : ~(k < m)
<1>1. IsWellFoundedOn(OpToRel(<, Nat), Nat)
  BY NatLessThanWellFounded
<1>2. PICK m \in T : \A k \in T : ~(<<k, m>> \in OpToRel(<, Nat))
  BY <1>1, WFMin
<1> QED BY <1>2 DEF OpToRel

\* A set of numbers with 0, and with the number after each of its own, has them all.
LEMMA AllNumbers ==
    ASSUME NEW T, 0 \in T, \A k \in Nat : k \in T => k + 1 \in T
    PROVE  Nat \subseteq T
<1> DEFINE Others == Nat \ T
<1> SUFFICES ASSUME Others # {} PROVE FALSE
  OBVIOUS
<1>1. PICK m \in Others : \A k \in Others : ~(k < m)
  <2>1. Others \subseteq Nat
    OBVIOUS
  <2> HIDE DEF Others
  <2> QED BY <2>1, LeastOne
<1>2. m - 1 \in Nat /\ m - 1 < m /\ (m - 1) + 1 = m
  OBVIOUS
<1> QED BY <1>1, <1>2

\* Every node of a plan has a number, greater than those of its sources.
LEMMA NodesAreRanked ==
    ASSUME NEW P \in Plans
    PROVE  \E top \in Nat, rank \in [Nodes -> Nat] :
               \A n \in Nodes : rank[n] < top /\ \A m \in Sources(P, n) : rank[m] < rank[n]
<1>1. PICK rank \in [Nodes -> 0..Cardinality(Nodes)] : \A e \in P.edges : rank[e[1]] < rank[e[2]]
  BY GraphAssumption
<1> DEFINE size == Cardinality(Nodes)
<1>2. size \in Nat
  BY GraphAssumption, FS_CardinalityType
<1>3. size + 1 \in Nat /\ rank \in [Nodes -> Nat] /\ \A n \in Nodes : rank[n] < size + 1
  <2>1. rank \in [Nodes -> 0..size]
    BY <1>1
  <2> HIDE DEF size
  <2> QED BY <1>2, <2>1
<1>4. \A n \in Nodes : \A m \in Sources(P, n) : rank[m] < rank[n]
  BY <1>1 DEF Sources
<1> QED BY <1>3, <1>4

\* The sources of a node are nodes, and the edges between them and it those of the plan.
LEMMA SourcesAreNodes ==
    ASSUME NEW P \in Plans
    PROVE  /\ P.nodes \subseteq Nodes /\ P.edges \subseteq Edges
           /\ \A n : Sources(P, n) \subseteq P.nodes
           /\ \A e \in P.edges : /\ e[1] \in P.nodes /\ e[2] \in P.nodes
                                 /\ e = <<e[1], e[2]>> /\ e[1] \in Sources(P, e[2])
           /\ \A n : \A m \in Sources(P, n) : <<m, n>> \in P.edges
<1>1. P.nodes \subseteq Nodes /\ P.edges \subseteq Edges /\ Edges \subseteq Nodes \X Nodes
  BY ReconcileAssumption
<1>2. \A e \in P.edges : e[1] \in P.nodes /\ e[2] \in P.nodes /\ e = <<e[1], e[2]>>
  BY <1>1, ReconcileAssumption
<1> QED BY <1>1, <1>2 DEF Sources


\* The signature of a node is made of those of its sources.
LEMMA SignatureIs ==
    ASSUME NEW P \in Plans, NEW n \in Nodes
    PROVE  Signature(P, n) =
               <<n, P.config[n], {Signature(P, m) : m \in Sources(P, n)}>>
<1> DEFINE Value(f, k) == <<k, P.config[k], {f[m] : m \in Sources(P, k)}>>
<1>1. \E f : f = [k \in Nodes |-> Value(f, k)]
  <2>1. PICK top \in Nat, rank \in [Nodes -> Nat] :
           \A k \in Nodes : rank[k] < top /\ \A m \in Sources(P, k) : rank[m] < rank[k]
    BY NodesAreRanked
  <2> DEFINE Below(j) == {k \in Nodes : rank[k] < j}
             Upto(f, j) == f = [k \in Below(j) |-> Value(f, k)]
             T == {j \in Nat : \E f : Upto(f, j)}
  <2>2. 0 \in T
    <3>1. Below(0) = {}
      BY <2>1
    <3>2. Upto([k \in {} |-> {}], 0)
      BY <3>1
    <3> QED BY <3>2
  <2>3. ASSUME NEW j \in Nat, j \in T PROVE j + 1 \in T
    <3>1. PICK f : Upto(f, j)
      BY <2>3
    <3> DEFINE g == [k \in Below(j + 1) |-> Value(f, k)]
    <3>2. \A k \in Below(j + 1) : \A m \in Sources(P, k) : m \in Below(j) /\ m \in Below(j + 1)
      BY <2>1, SourcesAreNodes
    <3>3. \A m \in Below(j) : f[m] = Value(f, m)
      <4> HIDE DEF Below, Value
      <4> QED BY <3>1
    <3>4. \A m \in Below(j + 1) : g[m] = Value(f, m)
      <4> HIDE DEF Below, Value
      <4> QED OBVIOUS
    <3>5. \A k \in Below(j + 1) : \A m \in Sources(P, k) : g[m] = f[m]
      <4> HIDE DEF Below, Value, g
      <4> QED BY <3>2, <3>3, <3>4
    <3>6. \A k \in Below(j + 1) : Value(g, k) = Value(f, k)
      <4> HIDE DEF Below, g
      <4> QED BY <3>5
    <3>7. Upto(g, j + 1)
      <4>1. g = [k \in Below(j + 1) |-> Value(f, k)]
        OBVIOUS
      <4> HIDE DEF Below, Value, g
      <4> QED BY <3>6, <4>1
    <3>8. j + 1 \in Nat /\ \E h : Upto(h, j + 1)
      <4> HIDE DEF Upto
      <4> QED BY <3>7
    <3> HIDE DEF Upto
    <3> QED BY <3>8
  <2>4. Below(top) = Nodes
    BY <2>1
  <2>5. PICK f : Upto(f, top)
    <3>1. top \in T
      <4> HIDE DEF T
      <4> QED BY <2>2, <2>3, AllNumbers
    <3> HIDE DEF Upto
    <3> QED BY <3>1
  <2> QED BY <2>4, <2>5
<1> DEFINE signature[k \in Nodes] == <<k, P.config[k], {signature[m] : m \in Sources(P, k)}>>
<1>2. signature = [k \in Nodes |-> <<k, P.config[k], {signature[m] : m \in Sources(P, k)}>>]
  BY <1>1, Zenon DEF signature
<1>3. \A k \in Nodes : Signature(P, k) = signature[k]
  BY Zenon DEF Signature, signature
<1> HIDE DEF signature
<1>4. signature[n] = <<n, P.config[n], {signature[m] : m \in Sources(P, n)}>>
  BY <1>2
<1>5. \A m \in Sources(P, n) : signature[m] = Signature(P, m)
  BY <1>3, SourcesAreNodes
<1> QED BY <1>3, <1>4, <1>5

\* The identifier of a shareable node is made of those of its sources.
LEMMA IdentifierIs ==
    ASSUME NEW P \in Plans, NEW n \in Nodes
    PROVE  Identifier(P, n) =
               IF n \notin Shareable THEN <<"isolated", n>> ELSE <<"shared", Signature(P, n), {<<Identifier(P, m), P.policy[<<m, n>>]>> : m \in Sources(P, n)}>>
<1> DEFINE Value(f, k) == IF k \notin Shareable THEN <<"isolated", k>> ELSE <<"shared", Signature(P, k), {<<f[m], P.policy[<<m, k>>]>> : m \in Sources(P, k)}>>
<1>1. \E f : f = [k \in Nodes |-> Value(f, k)]
  <2>1. PICK top \in Nat, rank \in [Nodes -> Nat] :
           \A k \in Nodes : rank[k] < top /\ \A m \in Sources(P, k) : rank[m] < rank[k]
    BY NodesAreRanked
  <2> DEFINE Below(j) == {k \in Nodes : rank[k] < j}
             Upto(f, j) == f = [k \in Below(j) |-> Value(f, k)]
             T == {j \in Nat : \E f : Upto(f, j)}
  <2>2. 0 \in T
    <3>1. Below(0) = {}
      BY <2>1
    <3>2. Upto([k \in {} |-> {}], 0)
      BY <3>1
    <3> QED BY <3>2
  <2>3. ASSUME NEW j \in Nat, j \in T PROVE j + 1 \in T
    <3>1. PICK f : Upto(f, j)
      BY <2>3
    <3> DEFINE g == [k \in Below(j + 1) |-> Value(f, k)]
    <3>2. \A k \in Below(j + 1) : \A m \in Sources(P, k) : m \in Below(j) /\ m \in Below(j + 1)
      BY <2>1, SourcesAreNodes
    <3>3. \A m \in Below(j) : f[m] = Value(f, m)
      <4> HIDE DEF Below, Value
      <4> QED BY <3>1
    <3>4. \A m \in Below(j + 1) : g[m] = Value(f, m)
      <4> HIDE DEF Below, Value
      <4> QED OBVIOUS
    <3>5. \A k \in Below(j + 1) : \A m \in Sources(P, k) : g[m] = f[m]
      <4> HIDE DEF Below, Value, g
      <4> QED BY <3>2, <3>3, <3>4
    <3>6. \A k \in Below(j + 1) : Value(g, k) = Value(f, k)
      <4> HIDE DEF Below, g
      <4> QED BY <3>5
    <3>7. Upto(g, j + 1)
      <4>1. g = [k \in Below(j + 1) |-> Value(f, k)]
        OBVIOUS
      <4> HIDE DEF Below, Value, g
      <4> QED BY <3>6, <4>1
    <3>8. j + 1 \in Nat /\ \E h : Upto(h, j + 1)
      <4> HIDE DEF Upto
      <4> QED BY <3>7
    <3> HIDE DEF Upto
    <3> QED BY <3>8
  <2>4. Below(top) = Nodes
    BY <2>1
  <2>5. PICK f : Upto(f, top)
    <3>1. top \in T
      <4> HIDE DEF T
      <4> QED BY <2>2, <2>3, AllNumbers
    <3> HIDE DEF Upto
    <3> QED BY <3>1
  <2> QED BY <2>4, <2>5
<1> DEFINE identifier[k \in Nodes] == IF k \notin Shareable THEN <<"isolated", k>> ELSE <<"shared", Signature(P, k), {<<identifier[m], P.policy[<<m, k>>]>> : m \in Sources(P, k)}>>
<1>2. identifier = [k \in Nodes |-> IF k \notin Shareable THEN <<"isolated", k>> ELSE <<"shared", Signature(P, k), {<<identifier[m], P.policy[<<m, k>>]>> : m \in Sources(P, k)}>>]
  BY <1>1, Zenon DEF identifier
<1>3. \A k \in Nodes : Identifier(P, k) = identifier[k]
  BY Zenon DEF Identifier, identifier
<1> HIDE DEF identifier
<1>4. identifier[n] = IF n \notin Shareable THEN <<"isolated", n>> ELSE <<"shared", Signature(P, n), {<<identifier[m], P.policy[<<m, n>>]>> : m \in Sources(P, n)}>>
  BY <1>2
<1>5. \A m \in Sources(P, n) : identifier[m] = Identifier(P, m)
  BY <1>3, SourcesAreNodes
<1> QED BY <1>3, <1>4, <1>5

\* An identifier names its node.
LEMMA IdentifiersDiffer ==
    ASSUME NEW P \in Plans, NEW Q \in Plans, NEW m \in Nodes, NEW n \in Nodes,
           Identifier(P, m) = Identifier(Q, n)
    PROVE  m = n
<1>1. Signature(P, m)[1] = m /\ Signature(Q, n)[1] = n
  BY SignatureIs
<1>2. CASE m \notin Shareable
  BY <1>2, IdentifierIs
<1>3. CASE m \in Shareable
  BY <1>1, <1>3, IdentifierIs
<1> QED BY <1>2, <1>3

\* The edges into a retained node are what they were.
LEMMA RetainedIncoming ==
    ASSUME NEW P \in Plans, NEW Q \in Plans, NEW n \in Retained(P, Q)
    PROVE  /\ Sources(P, n) = Sources(Q, n)
           /\ \A m \in Sources(P, n) : P.policy[<<m, n>>] = Q.policy[<<m, n>>]
<1>1. /\ Incoming(P, n) = Incoming(Q, n)
      /\ Sources(P, n) \subseteq Nodes /\ Sources(Q, n) \subseteq Nodes
  BY SourcesAreNodes DEF Retained
<1>2. ASSUME NEW m \in Sources(P, n)
      PROVE  m \in Sources(Q, n) /\ P.policy[<<m, n>>] = Q.policy[<<m, n>>]
  <2>1. <<Identifier(P, m), P.policy[<<m, n>>]>> \in Incoming(Q, n)
    BY <1>1 DEF Incoming
  <2>2. PICK d \in Sources(Q, n) :
           <<Identifier(P, m), P.policy[<<m, n>>]>> = <<Identifier(Q, d), Q.policy[<<d, n>>]>>
    BY <2>1 DEF Incoming
  <2>3. Identifier(P, m) = Identifier(Q, d) /\ P.policy[<<m, n>>] = Q.policy[<<d, n>>]
    BY <2>2
  <2>4. m = d
    BY <1>1, <2>3, IdentifiersDiffer
  <2> QED BY <2>3, <2>4
<1>3. ASSUME NEW m \in Sources(Q, n) PROVE m \in Sources(P, n)
  <2>1. <<Identifier(Q, m), Q.policy[<<m, n>>]>> \in Incoming(P, n)
    BY <1>1 DEF Incoming
  <2>2. PICK d \in Sources(P, n) :
           <<Identifier(Q, m), Q.policy[<<m, n>>]>> = <<Identifier(P, d), P.policy[<<d, n>>]>>
    BY <2>1 DEF Incoming
  <2>3. m = d
    BY <1>1, <2>2, IdentifiersDiffer
  <2> QED BY <2>3
<1> QED BY <1>2, <1>3

\* An edge into a retained node is in both graphs: the channel that a candidate takes over
\* between two retained nodes is in the map of the running runtime.
THEOREM ReusedChannelsExist ==
    ASSUME NEW P \in Plans, NEW Q \in Plans, NEW e, e[2] \in Retained(P, Q)
    PROVE  e \in P.edges <=> e \in Q.edges
BY RetainedIncoming, SourcesAreNodes

(***************************************************************************)
(* The types.                                                              *)
(***************************************************************************)
LEMMA TypeInit == Init => TypeOK
<1> SUFFICES ASSUME Init PROVE TypeOK
  OBVIOUS
<1> USE ReconcileAssumption DEF Init, Rounds, Instance
<1>1. FirstPlan.nodes \subseteq Nodes
  BY PlanNodes
<1>2. plan \in Plans /\ published \in Plans /\ cand \in Plans
  OBVIOUS
<1>3. gen \in [Nodes -> Rounds] /\ chan \in [Edges -> Rounds] /\ round \in 1..MaxRounds
  OBVIOUS
<1>4. built \subseteq Instance
  BY <1>1
<1>5. downs \in [Instance -> Nat] /\ abandoned \subseteq Instance /\ task \in [Instance -> TaskState]
  BY DEF TaskState
<1>6. wire \in [Instance -> [Edges -> Rounds]]
  OBVIOUS
<1>7. reading \in [Instance -> (Edges \X Rounds) \cup {<<>>}]
  OBVIOUS
<1>8. /\ killed \subseteq Instance /\ cancel \subseteq Instance /\ revoked \subseteq Edges \X Rounds
      /\ phase \in Phases /\ todo \subseteq Nodes
  BY DEF Phases
<1>9. running \in BOOLEAN
  BY Zenon
<1>10. cancels \in 0..MaxCancels
  <2>1. cancels = 0 /\ MaxCancels \in Nat
    BY Zenon
  <2> QED BY <2>1
<1> QED BY <1>2, <1>3, <1>4, <1>5, <1>6, <1>7, <1>8, <1>9, <1>10 DEF TypeOK

\* A step of a task keeps the types.
LEMMA TypeTask ==
    ASSUME TypeOK, NEW i \in Instance, TaskStep(i)
    PROVE  TypeOK'
<1>1. UNCHANGED <<graphVars, round, built, downs, abandoned, killed, wire, revoked, callVars>>
  BY TaskFrame
<1>2. task' \in [Instance -> TaskState]
  BY DEF TaskStep, Loop, Receive, ReadTimeout, ReadCanceled, Finish, Crash, Die, TypeOK, TaskState
<1>3. cancel' \subseteq Instance
  BY DEF TaskStep, Loop, Receive, ReadTimeout, ReadCanceled, Finish, Crash, Die, TypeOK
<1>4. reading' \in [Instance -> (Edges \X Rounds) \cup {<<>>}]
  <2>1. CASE Loop(i)
    <3>1. CASE UNCHANGED reading
      BY <3>1 DEF TypeOK
    <3>2. CASE \E e \in {d \in Edges : d[2] = i[1] /\ wire[i][d] # 0} :
                  reading' = [reading EXCEPT ![i] = <<e, wire[i][e]>>]
      <4>1. \A e \in Edges : wire[i][e] \in Rounds
        BY DEF TypeOK
      <4> QED BY <3>2, <4>1 DEF TypeOK
    <3> QED BY <2>1, <3>1, <3>2 DEF Loop
  <2>2. CASE ~Loop(i)
    <3>1. reading' = reading \/ reading' = [reading EXCEPT ![i] = <<>>]
      BY <2>2 DEF TaskStep, Receive, ReadTimeout, ReadCanceled, Finish, Crash, Die
    <3> QED BY <3>1 DEF TypeOK
  <2> QED BY <2>1, <2>2
<1> QED BY <1>1, <1>2, <1>3, <1>4 DEF TypeOK, graphVars, callVars

LEMMA TypeStart ==
    ASSUME TypeOK, GenerationsInv, Start \/ StartTasks \/ StartFails \/ \E n \in Nodes : Prepare(n)
    PROVE  TypeOK'
<1> USE DEF graphVars, instVars, callVars
<1>0. plan.nodes \subseteq Nodes /\ {Current(n) : n \in plan.nodes} \subseteq Instance
  BY CurrentsAreInstances
<1>1. CASE Start
  BY <1>0, <1>1 DEF Start, TypeOK, Phases
<1>2. CASE StartTasks
  <2>1. task' \in [Instance -> TaskState]
    BY <1>2 DEF StartTasks, TypeOK, TaskState
  <2> QED BY <1>2, <2>1 DEF StartTasks, TypeOK, Phases
<1>3. CASE StartFails
  <2>1. cancel' \subseteq Instance
    BY <1>0, <1>3 DEF StartFails, TypeOK
  <2>2. cancels' \in 0..MaxCancels
    BY <1>3, ReconcileAssumption DEF StartFails, TypeOK
  <2> QED BY <1>0, <1>3, <2>1, <2>2 DEF StartFails, TypeOK, Phases
<1>4. CASE \E n \in Nodes : Prepare(n)
  BY <1>4 DEF Prepare, TypeOK
<1> QED BY <1>1, <1>2, <1>3, <1>4

\* The channel a candidate uses for an edge is one of the rounds.
LEMMA WiresType ==
    ASSUME NEW n, NEW P, NEW channels \in [Edges -> Rounds]
    PROVE  WiresOf(n, P, channels) \in [Edges -> Rounds]
<1>1. 0 \in Rounds
  BY ReconcileAssumption DEF Rounds
<1> QED BY <1>1 DEF WiresOf

LEMMA TypeReconcile ==
    ASSUME TypeOK, GenerationsInv, NEW P \in Plans, Reconcile(P)
    PROVE  TypeOK'
<1> USE DEF graphVars, instVars, callVars
<1>1. PICK some \in SUBSET P.nodes : Build(P, some)
  BY DEF Reconcile
<1> DEFINE kept == Retained(plan, P)
<1> DEFINE fresh == {<<n, round + 1>> : n \in some}
<1> DEFINE channels == [e \in Edges |->
        IF e \in P.edges /\ e[1] \in kept /\ e[2] \in kept THEN chan[e] ELSE round + 1]
<1>2. /\ round' = round + 1
      /\ built' = built \cup fresh
      /\ wire' = [i \in Instance |-> IF i \in fresh THEN WiresOf(i[1], P, channels) ELSE wire[i]]
      /\ todo' = some
      /\ phase' \in {"preparing", "disposing"}
  BY <1>1 DEF Build
<1>3. P.nodes \subseteq Nodes
  BY PlanNodes
<1>4. round + 1 \in 1..MaxRounds /\ round + 1 \in Rounds
  BY ReconcileAssumption DEF Reconcile, TypeOK, Rounds
<1>5. fresh \subseteq Instance
  BY <1>3, <1>4 DEF Instance
<1>6. channels \in [Edges -> Rounds]
  BY <1>4 DEF TypeOK
<1>7. \A n \in Nodes : WiresOf(n, P, channels) \in [Edges -> Rounds]
  BY <1>6, WiresType
<1>8. wire' \in [Instance -> [Edges -> Rounds]]
  BY <1>2, <1>7 DEF TypeOK, Instance
<1>9. UNCHANGED <<graphVars, downs, abandoned, task, killed, cancel, reading, revoked, running, cancels>> /\ cand' = P
  BY DEF Reconcile
<1>10. todo' \subseteq Nodes /\ phase' \in Phases /\ built' \subseteq Instance
  BY <1>2, <1>3, <1>5 DEF Phases, TypeOK
<1> QED BY <1>2, <1>4, <1>8, <1>9, <1>10 DEF TypeOK

LEMMA OneMoreShutdown ==
    ASSUME NEW d \in [Instance -> Nat], NEW i
    PROVE  [d EXCEPT ![i] = @ + 1] \in [Instance -> Nat]
<1> DEFINE e == [d EXCEPT ![i] = @ + 1]
<1>1. \A j \in Instance : e[j] = IF j = i THEN d[j] + 1 ELSE d[j]
  OBVIOUS
<1>2. \A j \in Instance : d[j] \in Nat
  OBVIOUS
<1>3. \A j \in Instance : e[j] \in Nat
  BY <1>1, <1>2
<1>4. e = [j \in Instance |-> e[j]]
  OBVIOUS
<1> HIDE DEF e
<1>5. e \in [Instance -> Nat]
  BY <1>3, <1>4
<1> QED BY <1>5 DEF e

LEMMA TypeCommit ==
    ASSUME TypeOK, GenerationsInv,
           PrepareFails \/ Disposed \/ Commit \/ CallerCancelled \/ Gather
              \/ \E n \in Nodes : Dispose(n) \/ Retire(n)
    PROVE  TypeOK'
<1> USE DEF graphVars, instVars, callVars
<1>0. /\ plan.nodes \subseteq Nodes /\ cand.nodes \subseteq Nodes
      /\ {Current(n) : n \in plan.nodes} \subseteq Instance
  BY CurrentsAreInstances, PlanNodes DEF TypeOK
<1>1. Fresh \subseteq Nodes /\ Removed \subseteq plan.nodes
  BY <1>0, KeptNodes
<1>2. CASE PrepareFails
  <2>1. cancels' \in 0..MaxCancels
    BY <1>2, ReconcileAssumption DEF PrepareFails, TypeOK
  <2> QED BY <1>1, <1>2, <2>1 DEF PrepareFails, TypeOK, Phases
<1>3. CASE Disposed
  BY <1>3 DEF Disposed, TypeOK, Phases
<1>4. CASE Commit
  <2>1. cancel' \subseteq Instance /\ killed' \subseteq Instance
    BY <1>0, <1>1, <1>4 DEF Commit, TypeOK
  <2>2. revoked' \subseteq Edges \X Rounds
    BY <1>4, SourcesAreNodes DEF Commit, TypeOK
  <2>3. running' \in BOOLEAN
    BY <1>4, Zenon DEF Commit
  <2>4. /\ UNCHANGED <<graphVars, round, built, downs, abandoned, task, wire, reading, cand, todo, cancels>>
        /\ phase' \in Phases
    BY <1>4 DEF Commit, Phases
  <2> QED BY <2>1, <2>2, <2>3, <2>4 DEF TypeOK
<1>5. CASE CallerCancelled
  <2>1. cancels' \in 0..MaxCancels
    BY <1>5, ReconcileAssumption DEF CallerCancelled, TypeOK
  <2> QED BY <1>5, <2>1 DEF CallerCancelled, TypeOK
<1>6. CASE Gather
  BY <1>0, <1>1, <1>6 DEF Gather, TypeOK, Phases
<1>7. ASSUME NEW n \in Nodes, Dispose(n) \/ Retire(n) PROVE TypeOK'
  <2>2. downs' \in [Instance -> Nat]
    BY <1>7, OneMoreShutdown DEF Dispose, Retire, TypeOK
  <2>3. /\ UNCHANGED <<graphVars, round, built, abandoned, task, killed, cancel, wire, reading, revoked,
                        phase, cand, running, cancels>>
        /\ todo' \subseteq todo
    BY <1>7 DEF Dispose, Retire
  <2> QED BY <2>2, <2>3 DEF TypeOK
<1> QED BY <1>2, <1>3, <1>4, <1>5, <1>6, <1>7

LEMMA TypeSwap ==
    ASSUME TypeOK, Swap
    PROVE  TypeOK'
<1> USE DEF graphVars, instVars, callVars
<1>1. 0 \in Rounds /\ round \in Rounds
  BY ReconcileAssumption DEF Rounds, TypeOK
<1>2. gen' \in [Nodes -> Rounds]
  BY <1>1 DEF Swap, TypeOK
<1>3. CandidateChannels \in [Edges -> Rounds]
  BY <1>1 DEF CandidateChannels, TypeOK
<1>4. chan' \in [Edges -> Rounds]
  BY <1>1, <1>3 DEF Swap
<1>5. \A n \in Nodes : WiresOf(n, cand, CandidateChannels) \in [Edges -> Rounds]
  BY <1>3, WiresType
<1>6. wire' \in [Instance -> [Edges -> Rounds]]
  BY <1>5 DEF Swap, TypeOK, Instance
<1>7. task' \in [Instance -> TaskState]
  BY DEF Swap, TypeOK, TaskState
<1>8. /\ UNCHANGED <<round, built, downs, abandoned, killed, cancel, reading, revoked, cand, todo, running, cancels>>
      /\ plan' = cand /\ published' = cand /\ phase' = "idle"
  BY DEF Swap
<1> QED BY <1>2, <1>4, <1>6, <1>7, <1>8 DEF TypeOK, Phases

LEMMA TypeStop ==
    ASSUME TypeOK, GenerationsInv,
           Stop \/ Join \/ JoinTimeout \/ Stopped \/ \E n \in Nodes : Shutdown(n)
    PROVE  TypeOK'
<1> USE DEF graphVars, instVars, callVars
<1>0. plan.nodes \subseteq Nodes /\ {Current(n) : n \in plan.nodes} \subseteq Instance
  BY CurrentsAreInstances
<1>1. CASE Stop
  <2>1. cancel' \subseteq Instance
    BY <1>0, <1>1 DEF Stop, TypeOK
  <2> QED BY <1>0, <1>1, <2>1 DEF Stop, TypeOK, Phases
<1>2. CASE Join
  BY <1>2 DEF Join, TypeOK, Phases
<1>3. CASE JoinTimeout
  <2>1. killed' \subseteq Instance
    BY <1>0, <1>3 DEF JoinTimeout, TypeOK
  <2> QED BY <1>3, <2>1 DEF JoinTimeout, TypeOK
<1>4. CASE Stopped
  BY <1>4 DEF Stopped, TypeOK, Phases
<1>5. ASSUME NEW n \in Nodes, Shutdown(n) PROVE TypeOK'
  <2>1. downs' \in [Instance -> Nat]
    BY <1>5, OneMoreShutdown DEF Shutdown, TypeOK
  <2> QED BY <1>5, <2>1 DEF Shutdown, TypeOK
<1> QED BY <1>1, <1>2, <1>3, <1>4, <1>5

LEMMA TypeInterrupted ==
    ASSUME TypeOK, GenerationsInv, TodoInv,
           StopCancelled \/ \E n \in Nodes : DisposeCancelled(n) \/ StartStopCancelled(n)
    PROVE  TypeOK'
<1> USE DEF graphVars, instVars, callVars
<1>0. plan.nodes \subseteq Nodes /\ {Current(n) : n \in plan.nodes} \subseteq Instance
  BY CurrentsAreInstances
<1>2. \A S \in SUBSET Nodes : {Replacement(m) : m \in S} \subseteq Instance
  BY DEF Replacement, Instance, TypeOK
<1>3. cancels' \in 0..MaxCancels
  BY ReconcileAssumption DEF StopCancelled, DisposeCancelled, StartStopCancelled, TypeOK
<1>4. downs' \in [Instance -> Nat]
  <2>1. downs' = downs \/ \E i : downs' = [downs EXCEPT ![i] = @ + 1]
    BY DEF StopCancelled, DisposeCancelled, StartStopCancelled
  <2>2. downs \in [Instance -> Nat]
    BY DEF TypeOK
  <2> QED BY <2>1, <2>2, OneMoreShutdown
<1>5. CASE StopCancelled
  BY <1>0, <1>3, <1>4, <1>5 DEF StopCancelled, TypeOK, Phases
<1>6. ASSUME NEW n \in Nodes, DisposeCancelled(n) PROVE TypeOK'
  <2>1. abandoned' \subseteq Instance
    BY <1>2, <1>6 DEF DisposeCancelled, TypeOK
  <2> QED BY <1>3, <1>4, <1>6, <2>1 DEF DisposeCancelled, TypeOK, Phases
<1>7. ASSUME NEW n \in Nodes, StartStopCancelled(n) PROVE TypeOK'
  <2>1. todo \subseteq plan.nodes
    BY <1>7 DEF StartStopCancelled, TodoInv
  <2>2. abandoned' \subseteq Instance
    BY <1>0, <1>7, <2>1 DEF StartStopCancelled, TypeOK
  <2> QED BY <1>3, <1>4, <1>7, <2>2 DEF StartStopCancelled, TypeOK, Phases
<1> QED BY <1>5, <1>6, <1>7

LEMMA TypeStep ==
    ASSUME TypeOK, GenerationsInv, TodoInv, [Next]_vars
    PROVE  TypeOK'
<1>1. ASSUME NEW i \in Instance, TaskStep(i) PROVE TypeOK'
  BY <1>1, TypeTask
<1>2. ASSUME NEW P \in Plans, Reconcile(P) PROVE TypeOK'
  BY <1>2, TypeReconcile
<1>3. CASE UNCHANGED vars
  BY <1>3 DEF vars, TypeOK
<1> QED BY <1>1, <1>2, <1>3, TypeStart, TypeCommit, TypeSwap, TypeStop, TypeInterrupted
       DEF Next, CallProgress

(***************************************************************************)
(* The generations.                                                        *)
(***************************************************************************)
\* The steps that change neither the graphs nor the round, nor hold a new candidate.
LEMMA GraphFrame ==
    ASSUME [Next]_vars, ~\E P \in Plans : Reconcile(P), ~Swap
    PROVE  UNCHANGED <<graphVars, round, cand>> /\ (Candidate' => Candidate)
<1> USE DEF graphVars, instVars, callVars, Candidate
<1>1. ASSUME NEW i \in Instance, TaskStep(i)
      PROVE  UNCHANGED <<graphVars, round, cand, phase>>
  BY <1>1 DEF TaskStep, Loop, Receive, ReadTimeout, ReadCanceled, Finish, Crash, Die
<1>2. CASE Start \/ StartTasks \/ StartFails \/ Stop \/ Join \/ Stopped
  BY <1>2 DEF Start, StartTasks, StartFails, Stop, Join, Stopped
<1>3. CASE Disposed \/ Commit \/ Gather \/ PrepareFails \/ CallerCancelled \/ JoinTimeout
  BY <1>3 DEF Disposed, Commit, Gather, PrepareFails, CallerCancelled, JoinTimeout
<1>4. ASSUME NEW n \in Nodes, Prepare(n) \/ Dispose(n) \/ Retire(n) \/ Shutdown(n)
      PROVE  UNCHANGED <<graphVars, round, cand, phase>>
  BY <1>4 DEF Prepare, Dispose, Retire, Shutdown
<1>5. ASSUME StopCancelled \/ \E n \in Nodes : DisposeCancelled(n) \/ StartStopCancelled(n)
      PROVE  UNCHANGED <<graphVars, round, cand>> /\ ~Candidate'
  BY <1>5 DEF StopCancelled, DisposeCancelled, StartStopCancelled
<1>6. CASE UNCHANGED vars
  BY <1>6 DEF vars
<1> QED BY <1>1, <1>2, <1>3, <1>4, <1>5, <1>6 DEF Next, CallProgress

LEMMA GenerationsStep ==
    ASSUME TypeOK, GenerationsInv, [Next]_vars
    PROVE  GenerationsInv'
<1>0. /\ round \in Nat /\ round >= 1
      /\ \A n \in plan.nodes : n \in Nodes /\ gen[n] \in Nat /\ gen[n] >= 1 /\ gen[n] <= round
      /\ cand.nodes \subseteq Nodes
  BY PlanNodes, ReconcileAssumption DEF TypeOK, GenerationsInv, Rounds
<1>1. ASSUME NEW P \in Plans, Reconcile(P) PROVE GenerationsInv'
  <2>1. plan' = plan /\ gen' = gen /\ round' = round + 1
    BY <1>1 DEF Reconcile, Build, graphVars
  <2> QED BY <1>0, <2>1 DEF GenerationsInv
<1>2. CASE Swap
  <2>1. plan' = cand /\ round' = round /\ ~Candidate'
    BY <1>2 DEF Swap, Candidate
  <2>2. ASSUME NEW n \in cand.nodes PROVE gen'[n] \in 1..round
    <3>1. gen'[n] = IF n \in Kept THEN gen[n] ELSE round
      BY <1>0, <1>2 DEF Swap
    <3> QED BY <1>0, <3>1, KeptNodes
  <2> QED BY <2>1, <2>2 DEF GenerationsInv
<1>3. CASE ~Swap /\ ~\E P \in Plans : Reconcile(P)
  BY <1>3, GraphFrame DEF GenerationsInv, graphVars
<1> QED BY <1>1, <1>2, <1>3

(***************************************************************************)
(* The live tasks.                                                         *)
(***************************************************************************)
\* The steps of the calls that start no task and do not begin to retire.
LEMMA TaskIdle ==
    ASSUME [Next]_vars, ~\E P \in Plans : Reconcile(P), ~Swap, ~StartTasks, ~Gather,
           ~\E i \in Instance : TaskStep(i)
    PROVE  UNCHANGED task /\ (phase' = "retiring" => phase = "retiring")
<1> USE DEF graphVars, instVars, callVars
<1>1. CASE Start \/ StartFails \/ Stop \/ Join \/ Stopped
  BY <1>1 DEF Start, StartFails, Stop, Join, Stopped
<1>2. CASE Disposed \/ Commit \/ PrepareFails \/ CallerCancelled \/ JoinTimeout
  BY <1>2 DEF Disposed, Commit, PrepareFails, CallerCancelled, JoinTimeout
<1>3. ASSUME NEW n \in Nodes, Prepare(n) \/ Dispose(n) \/ Retire(n) \/ Shutdown(n)
      PROVE  UNCHANGED <<task, phase>>
  BY <1>3 DEF Prepare, Dispose, Retire, Shutdown
<1>4. CASE StopCancelled \/ \E n \in Nodes : DisposeCancelled(n) \/ StartStopCancelled(n)
  BY <1>4 DEF StopCancelled, DisposeCancelled, StartStopCancelled
<1>5. CASE UNCHANGED vars
  BY <1>5 DEF vars
<1> QED BY <1>1, <1>2, <1>3, <1>4, <1>5 DEF Next, CallProgress

LEMMA LiveStep ==
    ASSUME TypeOK, GenerationsInv, LiveInv, [Next]_vars
    PROVE  LiveInv'
<1>0. (Kept' = Kept /\ Removed' = Removed) \/ plan' # plan \/ cand' # cand
  BY DEF Kept, Removed
<1>1. ASSUME NEW j \in Instance, TaskStep(j) PROVE LiveInv'
  <2>1. UNCHANGED <<plan, gen, cand, phase>> /\ Alive(j)
    BY <1>1, TaskFrame DEF graphVars, callVars
  <2>2. \A i \in Instance : Alive(i)' => Alive(i)
    BY <1>1, <2>1, TaskFrame DEF Alive
  <2>3. {Current(n) : n \in Removed} \subseteq Instance
    BY CurrentsAreInstances, KeptNodes
  <2>4. \A n \in Removed : ~Alive(Current(n)) => ~Alive(Current(n))'
    BY <2>1, <2>2, <2>3 DEF Current
  <2> QED BY <1>0, <2>1, <2>2, <2>4 DEF LiveInv, Current
<1>2. ASSUME NEW P \in Plans, Reconcile(P) PROVE LiveInv'
  <2>1. UNCHANGED <<plan, gen, task>> /\ phase' # "retiring"
    BY <1>2 DEF Reconcile, Build, graphVars
  <2> QED BY <2>1 DEF LiveInv, Alive, Current
<1>3. CASE StartTasks
  <2>1. UNCHANGED <<plan, gen>> /\ phase' = "idle"
    BY <1>3 DEF StartTasks, graphVars
  <2>2. ASSUME NEW i \in Instance, Alive(i)' PROVE i[1] \in plan.nodes /\ i = Current(i[1])
    <3>1. task'[i] = IF i[1] \in plan.nodes /\ i = Current(i[1]) THEN "top" ELSE task[i]
      BY <1>3 DEF StartTasks
    <3> QED BY <2>2, <3>1 DEF LiveInv, Alive
  <2> QED BY <2>1, <2>2 DEF LiveInv, Current
<1>4. CASE Gather
  <2>1. UNCHANGED <<plan, gen, cand, task>>
    BY <1>4 DEF Gather, graphVars, instVars
  <2>2. \A n \in Removed : ~Alive(Current(n))
    BY <1>4 DEF Gather
  <2> QED BY <1>0, <2>1, <2>2 DEF LiveInv, Alive, Current
<1>5. CASE Swap
  <2>1. plan' = cand /\ phase = "retiring" /\ phase' = "idle"
    BY <1>5 DEF Swap
  <2>2. ASSUME NEW i \in Instance, Alive(i)' PROVE i[1] \in cand.nodes /\ i = <<i[1], gen'[i[1]]>>
    <3>0. i[1] \in Nodes
      BY DEF Instance
    <3>1. gen'[i[1]] = IF i[1] \notin cand.nodes THEN 0 ELSE IF i[1] \in Kept THEN gen[i[1]] ELSE round
      BY <1>5, <3>0 DEF Swap
    <3>2. CASE running /\ i[1] \in Fresh /\ i = Replacement(i[1])
      BY <3>1, <3>2, KeptNodes DEF Replacement
    <3>3. CASE ~(running /\ i[1] \in Fresh /\ i = Replacement(i[1]))
      <4>1. task'[i] = task[i]
        BY <1>5, <3>3 DEF Swap
      <4>2. i[1] \in plan.nodes /\ i = Current(i[1]) /\ Alive(i)
        BY <2>2, <4>1 DEF LiveInv, Alive
      <4>3. i[1] \in Kept
        BY <2>1, <4>2, KeptNodes DEF LiveInv
      <4> QED BY <3>1, <4>2, <4>3, KeptNodes DEF Current
    <3> QED BY <3>2, <3>3
  <2> QED BY <2>1, <2>2 DEF LiveInv, Current
<1>6. CASE /\ ~Swap /\ ~StartTasks /\ ~Gather
           /\ ~\E P \in Plans : Reconcile(P)
           /\ ~\E i \in Instance : TaskStep(i)
  <2>1. UNCHANGED <<plan, gen, cand, task>> /\ (phase' = "retiring" => phase = "retiring")
    BY <1>6, TaskIdle, GraphFrame DEF graphVars
  <2> QED BY <1>0, <2>1 DEF LiveInv, Alive, Current
<1> QED BY <1>1, <1>2, <1>3, <1>4, <1>5, <1>6

(***************************************************************************)
(* The loops.                                                              *)
(***************************************************************************)
LEMMA TodoStep ==
    ASSUME TypeOK, TodoInv, [Next]_vars
    PROVE  TodoInv'
<1> USE DEF graphVars, instVars, callVars
<1>0. (plan' = plan /\ cand' = cand) => Kept' = Kept /\ Removed' = Removed /\ Fresh' = Fresh
  BY DEF Kept, Removed, Fresh
<1>1. ASSUME NEW j \in Instance, TaskStep(j) PROVE TodoInv'
  BY <1>0, <1>1, TaskFrame DEF TodoInv
<1>2. ASSUME NEW P \in Plans, Reconcile(P) PROVE TodoInv'
  <2>1. PICK some \in SUBSET P.nodes : Build(P, some)
    BY <1>2 DEF Reconcile
  <2>2. Fresh' = P.nodes \ Retained(plan, P)
    BY <1>2 DEF Reconcile, Fresh, Kept
  <2>3. todo' \subseteq Fresh' /\ phase' \in {"preparing", "disposing"}
    BY <2>1, <2>2 DEF Build
  <2> QED BY <2>3 DEF TodoInv
<1>3. CASE Start \/ StartTasks \/ StartFails \/ Stop \/ Join \/ Stopped \/ JoinTimeout
  BY <1>0, <1>3 DEF Start, StartTasks, StartFails, Stop, Join, Stopped, JoinTimeout, TodoInv
<1>4. CASE Disposed \/ Commit \/ Gather \/ PrepareFails \/ CallerCancelled
  BY <1>0, <1>4 DEF Disposed, Commit, Gather, PrepareFails, CallerCancelled, TodoInv
<1>5. ASSUME NEW n \in Nodes, Prepare(n) \/ Dispose(n) \/ Retire(n) \/ Shutdown(n) PROVE TodoInv'
  <2>1. UNCHANGED <<plan, cand, phase>> /\ todo' \subseteq todo
    BY <1>5 DEF Prepare, Dispose, Retire, Shutdown
  <2> QED BY <1>0, <2>1 DEF TodoInv
<1>6. CASE Swap
  BY <1>6 DEF Swap, TodoInv
<1>7. CASE StopCancelled \/ \E n \in Nodes : DisposeCancelled(n) \/ StartStopCancelled(n)
  BY <1>7 DEF StopCancelled, DisposeCancelled, StartStopCancelled, TodoInv
<1>8. CASE UNCHANGED vars
  BY <1>0, <1>8 DEF vars, TodoInv
<1> QED BY <1>1, <1>2, <1>3, <1>4, <1>5, <1>6, <1>7, <1>8 DEF Next, CallProgress

(***************************************************************************)
(* The instances whose shutdown() is still to come.                        *)
(***************************************************************************)
\* What is built, open and abandoned determines what comes next.
LEMMA OpenFrame ==
    ASSUME OpenInv, UNCHANGED <<built, round, downs, abandoned>>, Open' = Open,
           Currents(plan.nodes)' \subseteq built, phase' \notin StopPhases => phase \notin StopPhases
    PROVE  OpenInv'
BY DEF OpenInv, Closed

\* One call of shutdown().
LEMMA OneShutdown ==
    ASSUME TypeOK, NEW i \in Instance, downs' = [downs EXCEPT ![i] = @ + 1]
    PROVE  /\ downs'[i] = downs[i] + 1 /\ downs[i] \in Nat /\ downs' # downs
           /\ \A j \in Instance : j # i => downs'[j] = downs[j]
<1>1. downs'[i] = downs[i] + 1 /\ downs[i] \in Nat
  BY DEF TypeOK
<1>2. \A j \in Instance : j # i => downs'[j] = downs[j]
  BY DEF TypeOK
<1>3. downs'[i] # downs[i]
  BY <1>1
<1> QED BY <1>1, <1>2, <1>3

\* A shutdown() of an open instance, after which the others are open or abandoned.
LEMMA OpenShrinks ==
    ASSUME TypeOK, OpenInv, NEW i \in Open, UNCHANGED <<built, round>>,
           downs' = [downs EXCEPT ![i] = @ + 1],
           Open' \cup abandoned' = (Open \cup abandoned) \ {i},
           Open' \cap abandoned' = {}, phase \notin StopPhases,
           abandoned' \subseteq built, Currents(plan.nodes)' \subseteq built
    PROVE  OpenInv'
<1>1. i \in Instance /\ i \notin abandoned /\ i \notin Closed
  BY DEF OpenInv, TypeOK, Closed
<1>2. downs[i] = 0
  BY <1>1 DEF OpenInv
<1>3. downs'[i] = 1 /\ \A j \in Instance : j # i => downs'[j] = downs[j]
  <2>1. downs'[i] = downs[i] + 1 /\ \A j \in Instance : j # i => downs'[j] = downs[j]
    BY <1>1, OneShutdown
  <2> QED BY <1>2, <2>1
<1>4. Closed' = Closed \cup {i}
  BY <1>1 DEF Closed, OpenInv
<1>5. \A j \in Instance : downs'[j] = IF j \in Closed' THEN 1 ELSE 0
  BY <1>3, <1>4 DEF OpenInv
<1>6. \A j \in Closed' : downs'[j] > 0
  BY <1>1, <1>4, <1>5 DEF Closed, TypeOK
<1> QED BY <1>5, <1>6 DEF OpenInv

\* In stop(): shutdown() may be called again, and what is open may grow.
LEMMA OpenInStop ==
    ASSUME TypeOK, OpenInv, UNCHANGED <<built, round>>, NEW i \in Instance,
           downs' = downs \/ downs' = [downs EXCEPT ![i] = @ + 1],
           i \in (Open \cup abandoned) \ (Open' \cup abandoned') => downs' # downs,
           (Open \cup abandoned) \ {i} \subseteq Open' \cup abandoned',
           phase' \in StopPhases, Open' \subseteq built, abandoned' \subseteq built,
           Currents(plan.nodes)' \subseteq built
    PROVE  OpenInv'
<1>1. \A j \in Instance : downs[j] \in Nat
  BY DEF TypeOK
<1>2. \A j \in Instance : downs[j] > 0 => downs'[j] > 0
  <2>1. CASE downs' = [downs EXCEPT ![i] = @ + 1]
    <3>1. \A j \in Instance : downs'[j] = IF j = i THEN downs[j] + 1 ELSE downs[j]
      BY <2>1, OneShutdown
    <3> QED BY <1>1, <3>1
  <2> QED BY <2>1
<1>3. ASSUME NEW j \in Closed' PROVE downs'[j] > 0
  <2>1. j \in Instance
    BY DEF Closed, TypeOK
  <2>2. CASE j \in Closed
    BY <1>2, <2>1, <2>2 DEF OpenInv
  <2>3. CASE j \notin Closed
    <3>1. j = i /\ downs' # downs
      BY <2>3 DEF Closed
    <3>2. downs'[j] = downs[j] + 1
      BY <3>1, OneShutdown
    <3> QED BY <1>1, <2>1, <3>2
  <2> QED BY <2>2, <2>3
<1> QED BY <1>3 DEF OpenInv

\* Steps that keep the plans keep what is open, when the phases agree.
LEMMA OpenKept ==
    ASSUME UNCHANGED <<plan, gen, round, cand>>
    PROVE  /\ Kept' = Kept /\ Fresh' = Fresh /\ Removed' = Removed
           /\ Currents(plan.nodes)' = Currents(plan.nodes)
           /\ Replacements(Fresh)' = Replacements(Fresh)
           /\ Currents(todo)' = {Current(n) : n \in todo'}
           /\ Replacements(todo)' = {Replacement(n) : n \in todo'}
BY DEF Kept, Fresh, Removed, Currents, Current, Replacements, Replacement

LEMMA OpenReconcile ==
    ASSUME TypeOK, GenerationsInv, OpenInv, NEW P \in Plans, Reconcile(P)
    PROVE  OpenInv'
<1>1. PICK some \in SUBSET P.nodes : Build(P, some)
  BY DEF Reconcile
<1> DEFINE fresh == {<<n, round + 1>> : n \in some}
<1>2. /\ round' = round + 1 /\ built' = built \cup fresh /\ todo' = some
      /\ phase' = IF some = P.nodes \ Retained(plan, P) THEN "preparing" ELSE "disposing"
      /\ UNCHANGED <<plan, gen, downs, abandoned>> /\ cand' = P /\ phase = "idle"
  BY <1>1 DEF Build, Reconcile, graphVars
<1>3. Open = Currents(plan.nodes)
  BY <1>2 DEF Open
<1>4. Open' = Currents(plan.nodes) \cup fresh
  <2>1. Currents(plan.nodes)' = Currents(plan.nodes)
    BY <1>2 DEF Currents, Current
  <2>2. Fresh' = P.nodes \ Retained(plan, P)
    BY <1>2 DEF Fresh, Kept
  <2>3. Replacements(todo)' = fresh
    BY <1>2 DEF Replacements, Replacement
  <2>4. phase' = "preparing" => Replacements(Fresh)' = fresh
    BY <1>2, <2>2 DEF Replacements, Replacement
  <2> QED BY <1>2, <2>1, <2>3, <2>4 DEF Open
<1>5. round \in Nat /\ \A i \in built : i[2] <= round
  BY DEF OpenInv, TypeOK
<1>6. \A i \in fresh : i \notin built
  BY <1>5
<1>7. \A i \in built : i[2] <= round + 1
  <2>1. \A i \in built : i[2] \in Nat
    BY DEF TypeOK, Instance
  <2> QED BY <1>5, <2>1
<1>8. \A i \in fresh : i[2] <= round + 1
  BY <1>5
<1>9. Closed' = Closed
  BY <1>2, <1>3, <1>4, <1>6 DEF Closed, OpenInv
<1>10. Open' \subseteq built' /\ abandoned' \subseteq built' /\ Open' \cap abandoned' = {}
  BY <1>2, <1>3, <1>4, <1>6 DEF OpenInv, StopPhases
<1>11. Currents(plan.nodes)' \subseteq built'
  BY <1>2 DEF OpenInv, Currents, Current
<1> HIDE DEF fresh
<1>12. \A i \in built' : i[2] <= round'
  BY <1>2, <1>7, <1>8
<1>13. \A i \in Instance : downs'[i] = IF i \in Closed' THEN 1 ELSE 0
  BY <1>2, <1>9 DEF OpenInv, StopPhases
<1>14. \A i \in Closed' : downs'[i] > 0
  BY <1>2, <1>9 DEF OpenInv
<1> QED BY <1>10, <1>11, <1>12, <1>13, <1>14 DEF OpenInv

\* The loops that call shutdown(), once for each instance they close.
LEMMA OpenLoops ==
    ASSUME TypeOK, GenerationsInv, TodoInv, OpenInv, NEW n \in Nodes,
           Dispose(n) \/ Retire(n) \/ Shutdown(n)
    PROVE  OpenInv'
<1>0. /\ UNCHANGED <<plan, gen, round, cand, built, abandoned, phase>>
      /\ todo' = todo \ {n} /\ n \in todo
  BY DEF Dispose, Retire, Shutdown, IsNext, graphVars
<1>1. Candidate => \A m \in plan.nodes : gen[m] # round
  <2>1. \A m \in plan.nodes : gen[m] \in 1..round
    BY DEF GenerationsInv
  <2> QED BY <2>1 DEF GenerationsInv, TypeOK
<1>2. Currents(plan.nodes)' \subseteq built /\ abandoned' \subseteq built
  BY <1>0, OpenKept DEF OpenInv
<1>3. CASE Dispose(n)
  <2>1. phase = "disposing" /\ downs' = [downs EXCEPT ![Replacement(n)] = @ + 1]
    BY <1>3 DEF Dispose
  <2>2. Open = Currents(plan.nodes) \cup Replacements(todo)
    BY <2>1 DEF Open
  <2>3. Open' = Currents(plan.nodes) \cup {Replacement(m) : m \in todo \ {n}}
    BY <1>0, <2>1, OpenKept DEF Open
  <2>4. Replacement(n) \notin Currents(plan.nodes)
    BY <1>1, <2>1 DEF Candidate, Currents, Current, Replacement
  <2>5. Open' = Open \ {Replacement(n)} /\ Replacement(n) \in Open
    BY <1>0, <2>2, <2>3, <2>4 DEF Replacements, Replacement
  <2> QED BY <1>0, <1>2, <2>1, <2>5, OpenShrinks DEF OpenInv, StopPhases
<1>4. CASE Retire(n)
  <2>1. phase = "retiring" /\ downs' = [downs EXCEPT ![Current(n)] = @ + 1]
    BY <1>4 DEF Retire
  <2>2. Open = Currents((plan.nodes \cap Kept) \cup todo) \cup Replacements(Fresh)
    BY <2>1 DEF Open
  <2>3. Open' = {Current(m) : m \in (plan.nodes \cap Kept) \cup (todo \ {n})} \cup Replacements(Fresh)
    <3>1. Currents((plan.nodes \cap Kept) \cup todo)'
            = {Current(m) : m \in (plan.nodes \cap Kept) \cup (todo \ {n})}
      BY <1>0, OpenKept DEF Currents, Current
    <3> QED BY <1>0, <2>1, <3>1, OpenKept DEF Open
  <2>4. n \in plan.nodes /\ n \notin Kept
    BY <1>0, <2>1, KeptNodes DEF TodoInv
  <2>5. Current(n) \notin Replacements(Fresh)
    BY <1>1, <2>1, <2>4 DEF Candidate, Replacements, Current, Replacement
  <2>6. Open' = Open \ {Current(n)} /\ Current(n) \in Open
    BY <1>0, <2>2, <2>3, <2>4, <2>5 DEF Currents, Current
  <2> QED BY <1>0, <1>2, <2>1, <2>6, OpenShrinks DEF OpenInv, StopPhases
<1>5. CASE Shutdown(n)
  <2>1. phase = "stopping" /\ downs' = [downs EXCEPT ![Current(n)] = @ + 1]
    BY <1>5 DEF Shutdown
  <2>2. Open = Currents(todo)
    BY <2>1 DEF Open
  <2>3. Open' = {Current(m) : m \in todo \ {n}}
    BY <1>0, <2>1, OpenKept DEF Open
  <2>4. Open' = Open \ {Current(n)} /\ Current(n) \in Open
    BY <1>0, <2>2, <2>3 DEF Currents, Current
  <2>5. Current(n) \in Instance /\ downs' # downs
    <3>1. Current(n) \in Instance
      BY <2>4 DEF OpenInv, TypeOK
    <3> QED BY <2>1, <3>1, OneShutdown
  <2> QED BY <1>0, <1>2, <2>1, <2>4, <2>5, OpenInStop DEF OpenInv, StopPhases
<1> QED BY <1>3, <1>4, <1>5

\* The loops that are cancelled.
LEMMA OpenInterrupted ==
    ASSUME TypeOK, GenerationsInv, TodoInv, OpenInv,
           StopCancelled \/ \E n \in Nodes : DisposeCancelled(n) \/ StartStopCancelled(n)
    PROVE  OpenInv'
<1>0. UNCHANGED <<plan, gen, round, cand, built>>
  BY DEF StopCancelled, DisposeCancelled, StartStopCancelled, graphVars
<1>1. Currents(plan.nodes)' = Currents(plan.nodes) /\ Currents(plan.nodes) \subseteq built
  BY <1>0, OpenKept DEF OpenInv
<1>2. built \subseteq Instance
  BY DEF TypeOK
<1>3. ASSUME NEW n \in Nodes, DisposeCancelled(n) PROVE OpenInv'
  <2>1. /\ phase = "disposing" /\ phase' = "idle" /\ n \in todo
        /\ downs' = [downs EXCEPT ![Replacement(n)] = @ + 1]
        /\ abandoned' = abandoned \cup {Replacement(m) : m \in todo \ {n}}
    BY <1>3 DEF DisposeCancelled, IsNext
  <2>2. Open = Currents(plan.nodes) \cup Replacements(todo) /\ Open' = Currents(plan.nodes)
    BY <1>1, <2>1 DEF Open
  <2>3. \A m : Replacement(m) \notin Currents(plan.nodes)
    <3>1. \A m \in plan.nodes : gen[m] # round
      <4>1. \A m \in plan.nodes : gen[m] \in 1..round
        BY DEF GenerationsInv
      <4> QED BY <2>1, <4>1 DEF GenerationsInv, Candidate, TypeOK
    <3> QED BY <3>1 DEF Currents, Current, Replacement
  <2>4. Open \cap abandoned = {} /\ Open \subseteq built /\ abandoned \subseteq built
    BY <2>1 DEF OpenInv, StopPhases
  <2>5. Replacements(todo) = {Replacement(m) : m \in todo \ {n}} \cup {Replacement(n)}
    BY <2>1 DEF Replacements
  <2>6. Replacement(n) \notin {Replacement(m) : m \in todo \ {n}}
    BY DEF Replacement
  <2>7. Open' \cup abandoned' = (Open \cup abandoned) \ {Replacement(n)} /\ Replacement(n) \in Open
    BY <2>1, <2>2, <2>3, <2>4, <2>5, <2>6
  <2>8. Open' \cap abandoned' = {} /\ abandoned' \subseteq built
    BY <2>1, <2>2, <2>3, <2>4, <2>5
  <2> QED BY <1>0, <1>1, <2>1, <2>7, <2>8, OpenShrinks DEF StopPhases
<1>4. ASSUME NEW n \in Nodes, StartStopCancelled(n) PROVE OpenInv'
  <2>1. /\ phase = "stopping" /\ phase' = "stopped" /\ n \in todo /\ todo \subseteq plan.nodes
        /\ downs' = [downs EXCEPT ![Current(n)] = @ + 1]
        /\ abandoned' = abandoned \cup {Current(m) : m \in todo \ {n}}
    BY <1>4 DEF StartStopCancelled, IsNext, TodoInv
  <2>2. Open = Currents(todo) /\ Open' = {}
    BY <2>1 DEF Open
  <2>3. Currents(todo) \subseteq Currents(plan.nodes)
    BY <2>1 DEF Currents
  <2>4. abandoned' \subseteq built /\ Current(n) \in Instance
    BY <1>1, <1>2, <2>1, <2>3 DEF OpenInv, Currents
  <2>5. downs' # downs
    BY <2>1, <2>4, OneShutdown
  <2>6. (Open \cup abandoned) \ {Current(n)} \subseteq Open' \cup abandoned'
    BY <2>1, <2>2 DEF Currents
  <2> QED BY <1>0, <1>1, <2>1, <2>2, <2>4, <2>5, <2>6, OpenInStop DEF StopPhases
<1>5. CASE StopCancelled
  <2>1. /\ phase \in {"stopping", "joining"} /\ phase' = "stopping" /\ todo' = plan.nodes
        /\ abandoned' = abandoned
        /\ downs' = downs \/ \E n \in todo : downs' = [downs EXCEPT ![Current(n)] = @ + 1]
    BY <1>5 DEF StopCancelled, IsNext
  <2>2. Open' = Currents(plan.nodes)
    BY <1>0, <1>1, <2>1, OpenKept DEF Open, Currents
  <2>3. Open \subseteq Open'
    <3>1. phase = "stopping" => todo \subseteq plan.nodes
      BY DEF TodoInv
    <3>2. Open = IF phase = "stopping" THEN Currents(todo) ELSE {}
      BY <2>1 DEF Open
    <3> QED BY <2>2, <3>1, <3>2 DEF Currents
  <2>4. \A i \in Instance : downs[i] > 0 => downs'[i] > 0
    <3>1. \A i \in Instance : downs[i] \in Nat /\ (downs'[i] = downs[i] \/ downs'[i] = downs[i] + 1)
      BY <2>1 DEF TypeOK
    <3> QED BY <3>1
  <2>5. Closed' \subseteq Closed
    BY <1>0, <2>1, <2>3 DEF Closed
  <2>6. Closed \subseteq Instance /\ \A i \in Closed : downs[i] > 0
    BY <1>2 DEF OpenInv, Closed
  <2>7. \A i \in Closed' : downs'[i] > 0
    BY <2>4, <2>5, <2>6
  <2> QED BY <1>0, <1>1, <2>1, <2>2, <2>7 DEF OpenInv, StopPhases
<1> QED BY <1>3, <1>4, <1>5

LEMMA OpenSwap ==
    ASSUME TypeOK, OpenInv, Swap
    PROVE  OpenInv'
<1>1. /\ phase = "retiring" /\ todo = {} /\ phase' = "idle" /\ plan' = cand
      /\ UNCHANGED <<built, round, downs, abandoned, cand>>
      /\ gen' = [n \in Nodes |-> IF n \notin cand.nodes THEN 0
                                 ELSE IF n \in Kept THEN gen[n] ELSE round]
  BY DEF Swap
<1>2. cand.nodes \subseteq Nodes
  BY PlanNodes DEF TypeOK
<1>3. Open = {<<n, gen[n]>> : n \in Kept} \cup {<<n, round>> : n \in cand.nodes \ Kept}
  <2>1. (plan.nodes \cap Kept) \cup todo = Kept
    BY <1>1, KeptNodes
  <2> QED BY <1>1, <2>1, KeptNodes DEF Open, Currents, Current, Replacements, Replacement
<1>4. Open' = {<<n, gen'[n]>> : n \in cand.nodes}
  BY <1>1 DEF Open, Currents, Current
<1>5. \A n \in cand.nodes : gen'[n] = IF n \in Kept THEN gen[n] ELSE round
  BY <1>1, <1>2
<1>6. {<<n, gen'[n]>> : n \in cand.nodes}
        = {<<n, gen[n]>> : n \in Kept} \cup {<<n, round>> : n \in cand.nodes \ Kept}
  BY <1>5, KeptNodes
<1>7. Currents(plan.nodes)' \subseteq built
  <2>1. Currents(plan.nodes)' = {<<n, gen'[n]>> : n \in cand.nodes}
    BY <1>1 DEF Currents, Current
  <2> QED BY <1>3, <1>6, <2>1 DEF OpenInv
<1> QED BY <1>1, <1>3, <1>4, <1>6, <1>7, OpenFrame DEF StopPhases

LEMMA OpenStep ==
    ASSUME TypeOK, GenerationsInv, TodoInv, OpenInv, [Next]_vars
    PROVE  OpenInv'
<1> USE DEF graphVars, instVars, callVars, StopPhases
<1>0. UNCHANGED <<plan, gen, round, cand>> => Currents(plan.nodes)' \subseteq built
  BY OpenKept DEF OpenInv
<1>1. ASSUME NEW j \in Instance, TaskStep(j) PROVE OpenInv'
  <2>1. UNCHANGED <<plan, gen, round, cand, built, downs, abandoned, phase, todo>>
    BY <1>1, TaskFrame
  <2>2. Open' = Open
    BY <2>1 DEF Open, Currents, Current, Replacements, Replacement, Fresh, Kept
  <2> QED BY <2>1, <2>2, <1>0, OpenFrame
<1>2. CASE Start \/ StartTasks \/ StartFails \/ Stop
  <2>1. /\ UNCHANGED <<plan, gen, round, cand, built, downs, abandoned>>
        /\ \/ phase \in {"new", "starting"} /\ phase' \in {"starting", "idle"}
           \/ phase \in {"starting", "idle"} /\ phase' = "stopping" /\ todo' = plan.nodes
    BY <1>2 DEF Start, StartTasks, StartFails, Stop
  <2>2. Open = Currents(plan.nodes)
    BY <2>1 DEF Open
  <2>3. Open' = Currents(plan.nodes)
    BY <2>1, OpenKept DEF Open, Currents
  <2> QED BY <2>1, <2>2, <2>3, <1>0, OpenFrame
<1>3. CASE Join \/ JoinTimeout \/ Stopped
  <2>1. /\ UNCHANGED <<plan, gen, round, cand, built, downs, abandoned>> /\ phase' \in {"joining", "stopped"}
        /\ phase = "joining" \/ (phase = "stopping" /\ todo = {})
    BY <1>3 DEF Join, JoinTimeout, Stopped
  <2>2. Open = {} /\ Open' = {}
    BY <2>1 DEF Open, Currents
  <2> QED BY <2>1, <2>2, <1>0, OpenFrame
<1>4. CASE PrepareFails \/ Disposed \/ Commit \/ CallerCancelled \/ Gather
  <2>1. UNCHANGED <<plan, gen, round, cand, built, downs, abandoned>>
    BY <1>4 DEF PrepareFails, Disposed, Commit, CallerCancelled, Gather
  <2>2. CASE PrepareFails
    <3>1. phase = "preparing" /\ phase' = "disposing" /\ todo' = Fresh
      BY <2>2 DEF PrepareFails
    <3>2. Open' = Open
      BY <2>1, <3>1, OpenKept DEF Open, Replacements
    <3> QED BY <2>1, <3>1, <3>2, <1>0, OpenFrame
  <2>3. CASE Disposed
    <3>1. phase = "disposing" /\ phase' = "idle" /\ todo = {}
      BY <2>3 DEF Disposed
    <3>2. Open' = Open
      BY <2>1, <3>1, OpenKept DEF Open, Replacements
    <3> QED BY <2>1, <3>1, <3>2, <1>0, OpenFrame
  <2>4. CASE Commit
    <3>1. phase = "preparing" /\ phase' = "gathering"
      BY <2>4 DEF Commit
    <3>2. Open' = Open
      BY <2>1, <3>1, OpenKept DEF Open
    <3> QED BY <2>1, <3>1, <3>2, <1>0, OpenFrame
  <2>5. CASE CallerCancelled
    <3>1. UNCHANGED <<phase, todo>>
      BY <2>5 DEF CallerCancelled
    <3>2. Open' = Open
      BY <2>1, <3>1 DEF Open, Currents, Current, Replacements, Replacement, Fresh, Kept
    <3> QED BY <2>1, <3>1, <3>2, <1>0, OpenFrame
  <2>6. CASE Gather
    <3>1. phase = "gathering" /\ phase' = "retiring" /\ todo' = Removed
      BY <2>6 DEF Gather
    <3>2. ((plan.nodes \cap Kept) \cup todo)' = plan.nodes
      BY <2>1, <3>1, OpenKept, KeptNodes
    <3>3. Open' = Currents(plan.nodes)' \cup Replacements(Fresh)'
      BY <2>1, <3>1, <3>2 DEF Open, Currents
    <3>4. Open' = Open
      BY <2>1, <3>1, <3>3, OpenKept DEF Open
    <3> QED BY <2>1, <3>1, <3>4, <1>0, OpenFrame
  <2> QED BY <1>4, <2>2, <2>3, <2>4, <2>5, <2>6
<1>5. ASSUME NEW n \in Nodes, Prepare(n) PROVE OpenInv'
  <2>1. UNCHANGED <<plan, gen, round, cand, built, downs, abandoned, phase>> /\ phase \in {"starting", "preparing"}
    BY <1>5 DEF Prepare
  <2>2. Open' = Open
    BY <2>1, OpenKept DEF Open
  <2> QED BY <2>1, <2>2, <1>0, OpenFrame
<1>6. CASE UNCHANGED vars
  <2>1. Open' = Open
    BY <1>6 DEF vars, Open, Currents, Current, Replacements, Replacement, Fresh, Kept
  <2> QED BY <1>6, <2>1, <1>0, OpenFrame DEF vars
<1> QED BY <1>1, <1>2, <1>3, <1>4, <1>5, <1>6,
       OpenReconcile, OpenLoops, OpenInterrupted, OpenSwap DEF Next, CallProgress

(***************************************************************************)
(* The theorems.                                                           *)
(***************************************************************************)
LEMMA IndInit == Init => IndInv
<1> SUFFICES ASSUME Init PROVE IndInv
  OBVIOUS
<1>1. /\ plan = FirstPlan /\ round = 1 /\ phase = "new"
      /\ gen = [n \in Nodes |-> IF n \in FirstPlan.nodes THEN 1 ELSE 0]
      /\ built = {<<n, 1>> : n \in FirstPlan.nodes}
      /\ downs = [i \in Instance |-> 0] /\ abandoned = {} /\ task = [i \in Instance |-> "none"]
  BY DEF Init
<1>2. FirstPlan.nodes \subseteq Nodes
  BY PlanNodes, ReconcileAssumption
<1>3. \A n \in plan.nodes : gen[n] = 1
  BY <1>1, <1>2
<1>4. GenerationsInv
  <2>1. ~Candidate /\ 1 \in 1..round
    BY <1>1 DEF Candidate
  <2> QED BY <1>3, <2>1 DEF GenerationsInv
<1>5. LiveInv /\ TodoInv
  BY <1>1 DEF LiveInv, TodoInv, Alive
<1>6. Open = built
  BY <1>1, <1>3 DEF Open, Currents, Current
<1>7. OpenInv
  <2>1. Closed = {} /\ Currents(plan.nodes) = built
    BY <1>1, <1>6 DEF Closed, Open
  <2>2. \A i \in built : i[2] <= round
    BY <1>1
  <2> QED BY <1>1, <1>6, <2>1, <2>2 DEF OpenInv
<1> QED BY <1>4, <1>5, <1>7, TypeInit DEF IndInv

LEMMA IndStep == IndInv /\ [Next]_vars => IndInv'
BY TypeStep, GenerationsStep, LiveStep, TodoStep, OpenStep DEF IndInv

LEMMA IndHolds == Spec => []IndInv
BY IndInit, IndStep, PTL DEF Spec

\* The state keeps its types, whatever is edited, raised or cancelled.
THEOREM TypesHold == Spec => []TypeOK
<1>1. IndInv => TypeOK
  BY DEF IndInv
<1> QED BY <1>1, IndHolds, PTL

\* A node never runs twice at once: of all the instances of a node that
\* PipelineRuntime.reconcile ever built, at most one has a live task.
THEOREM NodesRunOnce == Spec => []OneTaskPerNode
<1>1. IndInv => OneTaskPerNode
  BY DEF IndInv, LiveInv, OneTaskPerNode, Current
<1> QED BY <1>1, IndHolds, PTL

\* Whatever fails or is cancelled, shutdown() is called once on every operator
\* that a factory returned and that is not in use.
THEOREM OperatorsAreShutDownOnce == Spec => []ShutDownOnce
<1>1. ASSUME IndInv PROVE ShutDownOnce
  <2>1. phase \notin StopPhases => \A i \in Instance : downs[i] <= 1
    BY <1>1 DEF IndInv, OpenInv
  <2>2. ASSUME Settled, NEW i \in built \ abandoned PROVE downs[i] = 0 <=> InUse(i)
    <3>1. i \in Instance /\ (i \in Closed <=> i \notin Open)
      BY <1>1 DEF IndInv, TypeOK, Closed
    <3>2. CASE phase = "idle"
      <4>1. i \in Open <=> (i[1] \in plan.nodes /\ i = Current(i[1]))
        BY <3>2 DEF Open, Currents, Current
      <4>2. downs[i] = IF i \in Closed THEN 1 ELSE 0
        BY <1>1, <3>1, <3>2 DEF IndInv, OpenInv, StopPhases
      <4> QED BY <3>1, <3>2, <4>1, <4>2 DEF InUse
    <3>3. CASE phase = "stopped"
      <4>1. Open = {} /\ ~InUse(i)
        BY <3>3 DEF Open, InUse
      <4> QED BY <1>1, <3>1, <4>1 DEF IndInv, OpenInv
    <3> QED BY <2>2, <3>2, <3>3 DEF Settled
  <2> QED BY <2>1, <2>2 DEF ShutDownOnce
<1> QED BY <1>1, IndHolds, PTL

\* A reconciliation never shuts an operator down under its live task: the gather
\* of _commit_reconciliation comes before the first shutdown().
THEOREM ShutDownAfterTheTask == Spec => []NoTaskAfterShutdown
<1>1. ASSUME IndInv PROVE NoTaskAfterShutdown
  <2>1. SUFFICES ASSUME phase \notin StopPhases,
                        NEW i \in Instance, Alive(i), downs[i] > 0
                 PROVE  FALSE
    BY DEF NoTaskAfterShutdown
  <2>2. i[1] \in plan.nodes /\ i = Current(i[1]) /\ (phase = "retiring" => i[1] \in Kept)
    BY <1>1, <2>1, KeptNodes DEF IndInv, LiveInv
  <2>3. phase \in {"new", "starting", "idle", "preparing", "gathering", "disposing", "retiring"}
    BY <1>1, <2>1 DEF IndInv, TypeOK, Phases, StopPhases
  <2>4. i \in Open
    BY <2>2, <2>3 DEF Open, Currents
  <2>5. downs[i] = 0
    BY <1>1, <2>1, <2>4 DEF IndInv, OpenInv, Closed
  <2> QED BY <2>1, <2>5
<1> QED BY <1>1, IndHolds, PTL

(***************************************************************************)
(* The channels.                                                           *)
(***************************************************************************)
\* Both ends of an edge of the running graph hold its channel, which is older than the
\* candidate; what is revoked of it is what the candidate does not reuse, from the start
\* of the commit; and the candidate's new operators are wired to the candidate's channels.
WiringInv ==
    /\ \A e \in plan.edges :
          /\ chan[e] \in 1..round /\ (Candidate => chan[e] < round)
          /\ wire[Current(e[1])][e] = chan[e]
          /\ wire[Current(e[2])][e] = chan[e]
          /\ <<e, chan[e]>> \in revoked => phase \in {"gathering", "retiring"} /\ ~Reused(e)
    /\ \A x \in revoked : x[2] <= round /\ (Candidate => x[2] < round)
    /\ phase \in {"preparing", "gathering", "retiring"} =>
          \A n \in Fresh : wire[Replacement(n)] = WiresOf(n, cand, CandidateChannels)

\* Nobody else touches the wiring, and only the swap ends a commit.
LEMMA WiringFrame ==
    ASSUME [Next]_vars, ~\E P \in Plans : Reconcile(P), ~Swap, ~Commit
    PROVE  /\ UNCHANGED <<graphVars, round, cand, wire, revoked>>
           /\ Candidate' => Candidate
           /\ phase' \in {"preparing", "gathering", "retiring"} =>
                 phase \in {"preparing", "gathering", "retiring"}
           /\ phase \in {"gathering", "retiring"} => phase' \in {"gathering", "retiring"}
<1> USE DEF graphVars, instVars, callVars, Candidate
<1>1. ASSUME NEW i \in Instance, TaskStep(i)
      PROVE  UNCHANGED <<graphVars, round, cand, wire, revoked, phase>>
  BY <1>1 DEF TaskStep, Loop, Receive, ReadTimeout, ReadCanceled, Finish, Crash, Die
<1>2. CASE Start \/ StartTasks \/ StartFails \/ Stop \/ Join \/ Stopped
  BY <1>2 DEF Start, StartTasks, StartFails, Stop, Join, Stopped
<1>3. CASE Disposed \/ Gather \/ PrepareFails \/ CallerCancelled \/ JoinTimeout
  BY <1>3 DEF Disposed, Gather, PrepareFails, CallerCancelled, JoinTimeout
<1>4. ASSUME NEW n \in Nodes, Prepare(n) \/ Dispose(n) \/ Retire(n) \/ Shutdown(n)
      PROVE  UNCHANGED <<graphVars, round, cand, wire, revoked, phase>>
  BY <1>4 DEF Prepare, Dispose, Retire, Shutdown
<1>5. CASE StopCancelled \/ \E n \in Nodes : DisposeCancelled(n) \/ StartStopCancelled(n)
  BY <1>5 DEF StopCancelled, DisposeCancelled, StartStopCancelled
<1>6. CASE UNCHANGED vars
  BY <1>6 DEF vars
<1> QED BY <1>1, <1>2, <1>3, <1>4, <1>5, <1>6 DEF Next, CallProgress

\* The channels of the running graph.
LEMMA WiringTypes ==
    ASSUME TypeOK, GenerationsInv
    PROVE  /\ round \in Nat \ {0} /\ chan \in [Edges -> Rounds] /\ revoked \subseteq Edges \X Rounds
           /\ \A e \in Edges : chan[e] \in Nat
           /\ \A x \in revoked : x[2] \in Nat
           /\ \A P \in Plans : \A e \in P.edges :
                 e \in Edges /\ e[1] \in P.nodes /\ e[2] \in P.nodes
           /\ \A n \in plan.nodes : n \in Nodes /\ gen[n] \in 1..round /\ Current(n) \in Instance
<1>1. /\ round \in Nat \ {0} /\ chan \in [Edges -> Rounds] /\ revoked \subseteq Edges \X Rounds
      /\ Rounds \subseteq Nat
  BY ReconcileAssumption DEF TypeOK, Rounds
<1>2. (\A e \in Edges : chan[e] \in Nat) /\ (\A x \in revoked : x[2] \in Nat)
  BY <1>1
<1>3. \A P \in Plans : \A e \in P.edges : e \in Edges /\ e[1] \in P.nodes /\ e[2] \in P.nodes
  BY SourcesAreNodes
<1>4. ASSUME NEW n \in plan.nodes
      PROVE  n \in Nodes /\ gen[n] \in 1..round /\ Current(n) \in Instance
  <2>1. n \in Nodes /\ Current(n) \in Instance
    BY CurrentsAreInstances
  <2>2. gen[n] \in 1..round
    BY DEF GenerationsInv
  <2> QED BY <2>1, <2>2
<1> QED BY <1>1, <1>2, <1>3, <1>4

LEMMA WiringReconcile ==
    ASSUME TypeOK, GenerationsInv, WiringInv, NEW P \in Plans, Reconcile(P)
    PROVE  WiringInv'
<1>1. PICK some \in SUBSET P.nodes : Build(P, some)
  BY DEF Reconcile
<1> DEFINE kept == Retained(plan, P)
           fresh == {<<n, round + 1>> : n \in some}
           channels == [e \in Edges |->
               IF e \in P.edges /\ e[1] \in kept /\ e[2] \in kept THEN chan[e] ELSE round + 1]
<1>2. /\ round' = round + 1 /\ cand' = P /\ phase = "idle"
      /\ wire' = [i \in Instance |-> IF i \in fresh THEN WiresOf(i[1], P, channels) ELSE wire[i]]
      /\ phase' = IF some = P.nodes \ kept THEN "preparing" ELSE "disposing"
      /\ UNCHANGED <<plan, gen, chan, revoked>> /\ round < MaxRounds
  BY <1>1 DEF Build, Reconcile, graphVars
<1>3. /\ Kept' = kept /\ Fresh' = P.nodes \ kept /\ CandidateChannels' = channels
      /\ \A n : Current(n)' = Current(n) /\ Replacement(n)' = <<n, round + 1>>
  BY <1>2 DEF Kept, Fresh, CandidateChannels, Reused, Current, Replacement
<1> HIDE DEF kept, channels
<1>4. ASSUME NEW n \in plan.nodes PROVE wire'[Current(n)] = wire[Current(n)]
  <2>1. gen[n] \in 1..round /\ Current(n) \in Instance /\ round \in Nat
    BY WiringTypes
  <2>2. Current(n) \notin fresh
    BY <2>1 DEF Current
  <2> QED BY <1>2, <2>1, <2>2
<1>5. ASSUME NEW e \in plan.edges
      PROVE  (/\ chan[e] \in 1..round /\ (Candidate => chan[e] < round)
              /\ wire[Current(e[1])][e] = chan[e]
              /\ wire[Current(e[2])][e] = chan[e]
              /\ <<e, chan[e]>> \in revoked => phase \in {"gathering", "retiring"} /\ ~Reused(e))'
  <2>1. /\ chan[e] \in 1..round /\ wire[Current(e[1])][e] = chan[e]
        /\ wire[Current(e[2])][e] = chan[e] /\ <<e, chan[e]>> \notin revoked
    BY <1>2 DEF WiringInv
  <2>2. e[1] \in plan.nodes /\ e[2] \in plan.nodes /\ round \in Nat
    BY WiringTypes DEF TypeOK
  <2>3. chan[e] \in 1..(round + 1) /\ chan[e] < round + 1
    BY <2>1, <2>2
  <2> QED BY <1>2, <1>3, <1>4, <2>1, <2>2, <2>3
<1>6. \A x \in revoked' : x[2] <= round' /\ x[2] < round'
  <2>1. \A x \in revoked : x[2] \in Nat /\ x[2] <= round
    BY WiringTypes DEF WiringInv
  <2> QED BY <1>2, <2>1, WiringTypes
<1>7. ASSUME phase' = "preparing", NEW n \in Fresh'
      PROVE  wire'[Replacement(n)'] = WiresOf(n, P, CandidateChannels')
  <2>1. n \in some
    BY <1>2, <1>3, <1>7
  <2>2. <<n, round + 1>> \in fresh /\ <<n, round + 1>> \in Instance
    BY <1>2, <2>1, PlanNodes, WiringTypes, ReconcileAssumption DEF Instance
  <2> QED BY <1>2, <1>3, <2>2
<1>8. phase' \in {"preparing", "gathering", "retiring"} =>
         \A n \in Fresh' : wire'[Replacement(n)'] = WiresOf(n, cand', CandidateChannels')
  BY <1>2, <1>7
<1>9. plan.edges' = plan.edges
  BY <1>2
<1> QED BY <1>5, <1>6, <1>8, <1>9 DEF WiringInv, WiresOf

LEMMA WiringCommit ==
    ASSUME TypeOK, GenerationsInv, WiringInv, Commit
    PROVE  WiringInv'
<1>1. /\ phase = "preparing" /\ phase' = "gathering"
      /\ UNCHANGED <<plan, gen, chan, round, wire, cand>>
      /\ revoked' = revoked \cup {<<e, chan[e]>> : e \in {d \in plan.edges : ~Reused(d)}}
  BY DEF Commit, graphVars
<1>2. /\ plan.edges' = plan.edges /\ cand.edges' = cand.edges /\ Fresh' = Fresh
      /\ CandidateChannels' = CandidateChannels
      /\ \A e : Reused(e)' <=> Reused(e)
      /\ \A n : Current(n)' = Current(n) /\ Replacement(n)' = Replacement(n)
      /\ Candidate /\ Candidate'
  BY <1>1 DEF Fresh, Kept, CandidateChannels, Reused, Current, Replacement, Candidate
<1>3. ASSUME NEW e \in plan.edges, <<e, chan[e]>> \in revoked' PROVE ~Reused(e)
  BY <1>1, <1>3 DEF WiringInv
<1>4. ASSUME NEW x \in revoked' PROVE x[2] <= round /\ x[2] < round
  <2>1. CASE x \in revoked
    BY <1>2, <2>1 DEF WiringInv
  <2>2. ASSUME NEW e \in plan.edges, x = <<e, chan[e]>> PROVE x[2] <= round /\ x[2] < round
    BY <1>2, <2>2, WiringTypes DEF WiringInv, TypeOK
  <2> QED BY <1>1, <2>1, <2>2
<1>5. \A n \in Fresh : wire[Replacement(n)] = WiresOf(n, cand, CandidateChannels)
  BY <1>1 DEF WiringInv
<1>6. \A e \in plan.edges :
         /\ chan[e] \in 1..round /\ chan[e] < round
         /\ wire[Current(e[1])][e] = chan[e]
         /\ wire[Current(e[2])][e] = chan[e]
  BY <1>2 DEF WiringInv
<1>7. \A n \in Fresh' : wire'[Replacement(n)'] = WiresOf(n, cand, CandidateChannels)'
  BY <1>1, <1>2, <1>5 DEF WiresOf
<1> QED BY <1>1, <1>2, <1>3, <1>4, <1>6, <1>7 DEF WiringInv

LEMMA WiringSwap ==
    ASSUME TypeOK, GenerationsInv, WiringInv, Swap
    PROVE  WiringInv'
<1>1. /\ phase = "retiring" /\ phase' = "idle" /\ plan' = cand
      /\ gen' = [n \in Nodes |-> IF n \notin cand.nodes THEN 0
                                 ELSE IF n \in Kept THEN gen[n] ELSE round]
      /\ chan' = [e \in Edges |-> IF e \in cand.edges THEN CandidateChannels[e] ELSE 0]
      /\ wire' = [i \in Instance |-> IF i[1] \in Kept /\ i = Current(i[1])
                                     THEN WiresOf(i[1], cand, CandidateChannels) ELSE wire[i]]
      /\ UNCHANGED <<round, revoked>>
  BY DEF Swap
<1>2. Candidate /\ ~Candidate' /\ cand \in Plans /\ plan \in Plans
  BY <1>1 DEF Candidate, TypeOK
<1>3. /\ cand.nodes \subseteq Nodes /\ Kept \subseteq plan.nodes /\ Fresh = cand.nodes \ Kept
      /\ round \in 1..MaxRounds /\ round \in Nat \ {0}
  BY <1>2, PlanNodes, KeptNodes, WiringTypes DEF TypeOK
\* After the swap every operator of the graph holds its channels of the candidate.
<1>4. ASSUME NEW n \in cand.nodes
      PROVE  wire'[Current(n)'] = WiresOf(n, cand, CandidateChannels)
  <2>1. CASE n \in Kept
    <3>1. Current(n)' = Current(n)
      BY <1>1, <1>3, <2>1 DEF Current
    <3>2. Current(n) \in Instance /\ Current(n)[1] = n
      BY <1>3, <2>1, WiringTypes DEF Current
    <3> QED BY <1>1, <2>1, <3>1, <3>2
  <2>2. CASE n \notin Kept
    <3>1. Current(n)' = Replacement(n)
      BY <1>1, <1>3, <2>2 DEF Current, Replacement
    <3>2. Replacement(n) \in Instance /\ Replacement(n)[1] = n
      BY <1>3 DEF Replacement, Instance
    <3>3. wire'[Replacement(n)] = wire[Replacement(n)]
      BY <1>1, <2>2, <3>2
    <3>4. wire[Replacement(n)] = WiresOf(n, cand, CandidateChannels)
      BY <1>1, <1>3, <2>2 DEF WiringInv
    <3> QED BY <3>1, <3>3, <3>4
  <2> QED BY <2>1, <2>2
<1>5. ASSUME NEW e \in cand.edges
      PROVE  /\ chan'[e] = CandidateChannels[e]
             /\ wire'[Current(e[1])'][e] = CandidateChannels[e]
             /\ wire'[Current(e[2])'][e] = CandidateChannels[e]
  <2>1. e \in Edges /\ e[1] \in cand.nodes /\ e[2] \in cand.nodes
    BY <1>2, SourcesAreNodes
  <2>2. \A n \in {e[1], e[2]} : WiresOf(n, cand, CandidateChannels)[e] = CandidateChannels[e]
    BY <2>1 DEF WiresOf
  <2> QED BY <1>1, <1>4, <2>1, <2>2
<1>6. ASSUME NEW e \in cand.edges
      PROVE  CandidateChannels[e] \in 1..round /\ <<e, CandidateChannels[e]>> \notin revoked
  <2>1. e \in Edges /\ CandidateChannels[e] = IF Reused(e) THEN chan[e] ELSE round
    BY <1>2, SourcesAreNodes DEF CandidateChannels
  <2>2. CASE Reused(e)
    <3>1. e \in plan.edges
      BY <1>2, <2>2, ReusedChannelsExist DEF Reused, Kept
    <3> QED BY <2>1, <2>2, <3>1 DEF WiringInv
  <2>3. CASE ~Reused(e)
    <3>1. \A x \in revoked : x[2] \in Nat /\ x[2] < round
      BY <1>2, WiringTypes DEF WiringInv
    <3> QED BY <1>3, <2>1, <2>3, <3>1
  <2> QED BY <2>2, <2>3
<1>7. \A e \in cand.edges :
         /\ chan'[e] \in 1..round' /\ <<e, chan'[e]>> \notin revoked'
         /\ wire'[Current(e[1])'][e] = chan'[e]
         /\ wire'[Current(e[2])'][e] = chan'[e]
  <2>1. SUFFICES ASSUME NEW e \in cand.edges
                 PROVE  /\ chan'[e] \in 1..round' /\ <<e, chan'[e]>> \notin revoked'
                        /\ wire'[Current(e[1])'][e] = chan'[e]
                        /\ wire'[Current(e[2])'][e] = chan'[e]
    OBVIOUS
  <2>2. chan'[e] = CandidateChannels[e] /\ round' = round /\ revoked' = revoked
    BY <1>1, <1>5
  <2> QED BY <1>5, <1>6, <2>2
<1>8. \A x \in revoked' : x[2] <= round'
  BY <1>1 DEF WiringInv
<1>9. plan'.edges = cand.edges
  BY <1>1
<1> QED BY <1>1, <1>2, <1>7, <1>8, <1>9 DEF WiringInv

LEMMA WiringStep ==
    ASSUME TypeOK, GenerationsInv, WiringInv, [Next]_vars
    PROVE  WiringInv'
<1>1. CASE ~Swap /\ ~Commit /\ ~\E P \in Plans : Reconcile(P)
  <2>1. /\ UNCHANGED <<plan, gen, chan, round, cand, wire, revoked>>
        /\ Candidate' => Candidate
        /\ phase' \in {"preparing", "gathering", "retiring"} =>
              phase \in {"preparing", "gathering", "retiring"}
        /\ phase \in {"gathering", "retiring"} => phase' \in {"gathering", "retiring"}
    BY <1>1, WiringFrame DEF graphVars
  <2>2. /\ plan.edges' = plan.edges /\ Fresh' = Fresh
        /\ CandidateChannels' = CandidateChannels
        /\ \A n : WiresOf(n, cand, CandidateChannels)' = WiresOf(n, cand, CandidateChannels)
        /\ \A e : Reused(e)' <=> Reused(e)
        /\ \A n : Current(n)' = Current(n) /\ Replacement(n)' = Replacement(n)
    BY <2>1 DEF Fresh, Kept, CandidateChannels, Reused, Current, Replacement, WiresOf
  <2> QED BY <2>1, <2>2 DEF WiringInv
<1> QED BY <1>1, WiringReconcile, WiringCommit, WiringSwap

LEMMA WiringInit == Init => WiringInv
<1> SUFFICES ASSUME Init PROVE WiringInv
  OBVIOUS
<1>1. FirstPlan.nodes \subseteq Nodes
  BY PlanNodes, ReconcileAssumption
<1>2. ASSUME NEW e \in plan.edges
      PROVE  chan[e] = 1 /\ wire[Current(e[1])][e] = 1 /\ wire[Current(e[2])][e] = 1
  <2>1. plan = FirstPlan /\ e \in Edges /\ e[1] \in FirstPlan.nodes /\ e[2] \in FirstPlan.nodes
    BY SourcesAreNodes, ReconcileAssumption DEF Init
  <2>2. \A n \in {e[1], e[2]} : Current(n) = <<n, 1>> /\ <<n, 1>> \in Instance
    <3>1. ASSUME NEW n \in {e[1], e[2]}
          PROVE  Current(n) = <<n, 1>> /\ <<n, 1>> \in Instance
      <4>1. n \in FirstPlan.nodes /\ n \in Nodes
        BY <1>1, <2>1
      <4>2. gen[n] = 1
        BY <4>1 DEF Init
      <4>3. 1 \in 1..MaxRounds
        BY ReconcileAssumption
      <4> QED BY <4>1, <4>2, <4>3 DEF Current, Instance
    <3> QED BY <3>1
  <2>3. \A n \in {e[1], e[2]} : wire[<<n, 1>>][e] = 1
    BY <2>1, <2>2 DEF Init
  <2> QED BY <2>1, <2>2, <2>3 DEF Init
<1>3. round = 1 /\ revoked = {} /\ phase = "new"
  BY DEF Init
<1> QED BY <1>2, <1>3 DEF WiringInv, Candidate

LEMMA WiringHolds == Spec => []WiringInv
<1>1. IndInv => TypeOK /\ GenerationsInv
  BY DEF IndInv
<1> QED BY <1>1, WiringInit, WiringStep, IndHolds, PTL DEF Spec

\* Between calls the two ends of every edge hold the same channel, the one the runtime
\* lists, and it was not revoked: a retained operator next to a replaced one is rewired
\* by _commit_reconciliation, and what is revoked is never reused.
THEOREM EndsHoldOneChannel == Spec => []EndsShareChannel
<1>1. WiringInv => EndsShareChannel
  BY DEF WiringInv, EndsShareChannel
<1> QED BY <1>1, WiringHolds, PTL

\* The report that PipelineBundleRuntime publishes is that of the graph that runs,
\* however the call ended.
THEOREM ReportMatches == Spec => []PublishedIsRunning
<1>1. Init => published = plan
  BY DEF Init
<1>2. published = plan /\ [Next]_vars => (published = plan)'
  <2>1. ASSUME NEW P \in Plans, Reconcile(P) PROVE UNCHANGED <<plan, published>>
    BY <2>1 DEF Reconcile, graphVars
  <2> QED BY <2>1, GraphFrame DEF Swap, graphVars
<1>3. published = plan => PublishedIsRunning
  BY DEF PublishedIsRunning
<1> QED BY <1>1, <1>2, <1>3, PTL DEF Spec

(***************************************************************************)
(* What a reconciliation retains.                                          *)
(***************************************************************************)
\* Queue settings are not edited.
SettingsKept == \A P, Q \in Plans : P.policy = Q.policy

\* A node with the same signature has the same sources, with the same signatures.
LEMMA SameSources ==
    ASSUME NEW P \in Plans, NEW Q \in Plans, NEW n \in Nodes,
           Signature(P, n) = Signature(Q, n)
    PROVE  /\ Sources(P, n) = Sources(Q, n)
           /\ \A m \in Sources(P, n) : Signature(P, m) = Signature(Q, m)
<1>1. Sources(P, n) \subseteq Nodes /\ Sources(Q, n) \subseteq Nodes
  BY SourcesAreNodes
<1>2. {Signature(P, m) : m \in Sources(P, n)} = {Signature(Q, m) : m \in Sources(Q, n)}
  BY SignatureIs
<1>3. \A m \in Nodes : Signature(P, m)[1] = m /\ Signature(Q, m)[1] = m
  BY SignatureIs
<1> QED BY <1>1, <1>2, <1>3

\* With the same queue settings, a node with the same signature has the same identifier.
LEMMA SameIdentifier ==
    ASSUME SettingsKept, NEW P \in Plans, NEW Q \in Plans
    PROVE  \A n \in Nodes : Signature(P, n) = Signature(Q, n) => Identifier(P, n) = Identifier(Q, n)
<1>1. PICK top \in Nat, rank \in [Nodes -> Nat] :
         \A k \in Nodes : rank[k] < top /\ \A m \in Sources(P, k) : rank[m] < rank[k]
  BY NodesAreRanked
<1> DEFINE Same(n) == Signature(P, n) = Signature(Q, n) => Identifier(P, n) = Identifier(Q, n)
           T == {j \in Nat : \A n \in Nodes : rank[n] < j => Same(n)}
<1>2. 0 \in T
  BY <1>1
<1>3. ASSUME NEW j \in Nat, j \in T PROVE j + 1 \in T
  <2>1. SUFFICES ASSUME NEW n \in Nodes, rank[n] < j + 1, Signature(P, n) = Signature(Q, n)
                 PROVE  Identifier(P, n) = Identifier(Q, n)
    BY <1>3
  <2>2. /\ Sources(P, n) = Sources(Q, n) /\ Sources(P, n) \subseteq Nodes
        /\ \A m \in Sources(P, n) : Signature(P, m) = Signature(Q, m)
    BY <2>1, SameSources, SourcesAreNodes
  <2>3. \A m \in Sources(P, n) : rank[m] < j
    BY <1>1, <2>1, <2>2
  <2>4. \A m \in Sources(P, n) : Identifier(P, m) = Identifier(Q, m)
    BY <1>3, <2>2, <2>3
  <2>5. P.policy = Q.policy
    BY DEF SettingsKept
  <2>6. {<<Identifier(P, m), P.policy[<<m, n>>]>> : m \in Sources(P, n)} =
        {<<Identifier(Q, m), Q.policy[<<m, n>>]>> : m \in Sources(Q, n)}
    <3>1. \A m \in Sources(P, n) : <<Identifier(P, m), P.policy[<<m, n>>]>> =
                                  <<Identifier(Q, m), Q.policy[<<m, n>>]>>
      BY <2>4, <2>5, Zenon
    <3> QED BY <2>2, <3>1, Zenon
  <2> QED BY <2>1, <2>6, IdentifierIs
<1>4. top \in T
  <2> HIDE DEF T
  <2> QED BY <1>2, <1>3, AllNumbers
<1> QED BY <1>1, <1>4

\* What feeds a retained operator is retained.
LEMMA RetainedUpstream ==
    ASSUME SettingsKept, NEW P \in Plans, NEW Q \in Plans, NEW e \in P.edges,
           e[2] \in Retained(P, Q)
    PROVE  e[1] \in Retained(P, Q)
<1> DEFINE n == e[2]
           m == e[1]
<1>1. /\ n \in Nodes /\ m \in Nodes /\ m \in Sources(P, n) /\ m \in P.nodes
      /\ Signature(P, n) = Signature(Q, n)
  BY SourcesAreNodes DEF Retained
<1> HIDE DEF n, m
<1>2. Sources(P, n) = Sources(Q, n) /\ Signature(P, m) = Signature(Q, m)
  BY <1>1, SameSources
<1>3. m \in Q.nodes /\ Identifier(P, m) = Identifier(Q, m)
  BY <1>1, <1>2, SourcesAreNodes, SameIdentifier
<1>4. Incoming(P, m) = Incoming(Q, m)
  <2>1. /\ Sources(P, m) = Sources(Q, m) /\ Sources(P, m) \subseteq Nodes
        /\ \A k \in Sources(P, m) : Signature(P, k) = Signature(Q, k)
    BY <1>1, <1>2, SameSources, SourcesAreNodes
  <2>2. \A k \in Sources(P, m) : Identifier(P, k) = Identifier(Q, k)
    BY <2>1, SameIdentifier
  <2>3. P.policy = Q.policy
    BY DEF SettingsKept
  <2>4. \A k \in Sources(P, m) : <<Identifier(P, k), P.policy[<<k, m>>]>> =
                                 <<Identifier(Q, k), Q.policy[<<k, m>>]>>
    BY <2>2, <2>3, Zenon
  <2> QED BY <2>1, <2>4, Zenon DEF Incoming
<1> QED BY <1>1, <1>2, <1>3, <1>4 DEF Retained, m

\* Nobody runs before the start, and no operator of the candidate was cancelled.  An operator
\* is wired to its edges and waits on the channel of one of them.  What the call under way
\* does not replace runs, or crashed by itself.
RunsInv ==
    /\ phase \in {"new", "starting"} =>
          NoTasks /\ cancel = {} /\ killed = {}
    /\ \A i \in cancel \cup killed : i[2] <= round /\ (Candidate => i[2] < round)
    /\ \A i \in Instance : reading[i] # <<>> => task[i] = "reading"
    /\ \A n \in plan.nodes :
          /\ wire[Current(n)] = WiresOf(n, plan, chan)
          /\ reading[Current(n)] # <<>> =>
                \E e \in plan.edges : e[2] = n /\ reading[Current(n)] = <<e, chan[e]>>
    /\ phase \in {"idle", "preparing", "disposing", "gathering", "retiring"} =>
          \A n \in plan.nodes :
             (phase \in {"gathering", "retiring"} => n \in Kept) =>
                \/ task[Current(n)] = "crashed"
                \/ Alive(Current(n)) /\ Current(n) \notin cancel \cup killed
    /\ phase \in {"gathering", "retiring"} => running

\* A plan has operators: the bundle of a plan without any has no tasks, and a runtime
\* without tasks is taken as not started when it is reconciled.
NoPlanIsEmpty == \A P \in Plans : P.nodes # {}

\* The channel that a retained operator waits on is not revoked.
LEMMA RetainedIsNotRevoked ==
    ASSUME TypeOK, WiringInv, RunsInv, SettingsKept, NEW n \in plan.nodes,
           reading[Current(n)] # <<>>, reading[Current(n)] \in revoked
    PROVE  phase \in {"gathering", "retiring"} /\ n \notin Kept
<1>1. PICK e \in plan.edges : e[2] = n /\ reading[Current(n)] = <<e, chan[e]>>
  BY DEF RunsInv
<1>2. phase \in {"gathering", "retiring"} /\ ~Reused(e)
  BY <1>1 DEF WiringInv
<1>3. ASSUME n \in Kept PROVE e[1] \in Kept /\ e \in cand.edges
  BY <1>1, <1>3, RetainedUpstream, ReusedChannelsExist DEF Kept, TypeOK
<1> QED BY <1>1, <1>2, <1>3 DEF Reused

LEMMA RunsTask ==
    ASSUME TypeOK, GenerationsInv, LiveInv, WiringInv, RunsInv, SettingsKept,
           NEW i \in Instance, TaskStep(i)
    PROVE  RunsInv'
<1> USE DEF graphVars, callVars
<1> DEFINE n == i[1]
<1>1. /\ UNCHANGED <<plan, gen, chan, round, cand, killed, wire, revoked, phase, running>>
      /\ Alive(i) /\ n \in plan.nodes /\ i = Current(n)
  BY TaskFrame DEF LiveInv
<1>2. \A m : Current(m)' = Current(m)
  BY <1>1 DEF Current
<1>3. \A j \in Instance : j # i => task'[j] = task[j] /\ reading'[j] = reading[j]
  BY DEF TaskStep, Loop, Receive, ReadTimeout, ReadCanceled, Finish, Crash, Die, TypeOK
<1>4. \A m \in plan.nodes : Current(m) \in Instance /\ (m # n => Current(m) # i)
  BY <1>1, CurrentsAreInstances DEF Current
<1>5. phase \notin {"new", "starting"}
  BY <1>1 DEF RunsInv, NoTasks, Alive
<1>6. /\ cancel \subseteq cancel' /\ cancel' \subseteq cancel \cup {i}
      /\ i \in cancel' \ cancel => reading[i] # <<>> /\ reading[i] \in revoked
  <2>1. CASE ReadCanceled(i)
    BY <2>1, <1>1, WiringTypes DEF ReadCanceled, TypeOK, RunsInv
  <2> QED BY <2>1 DEF TaskStep, Loop, Receive, ReadTimeout, Finish, Crash, Die
<1>7. reading'[i] # <<>> => task'[i] = "reading"
  BY DEF TaskStep, Loop, Receive, ReadTimeout, ReadCanceled, Finish, Crash, Die, TypeOK, RunsInv
<1>8. reading'[i] # <<>> => \E e \in plan.edges : e[2] = n /\ reading'[i] = <<e, chan[e]>>
  <2>1. CASE reading'[i] = reading[i]
    BY <1>1, <2>1 DEF RunsInv
  <2>2. CASE reading'[i] # reading[i] /\ Loop(i)
    <3>1. PICK e \in Edges : e[2] = n /\ wire[i][e] # 0 /\ reading'[i] = <<e, wire[i][e]>>
      BY <2>2 DEF Loop, TypeOK
    <3>2. wire[i] = WiresOf(n, plan, chan)
      BY <1>1 DEF RunsInv
    <3>3. e \in plan.edges /\ wire[i][e] = chan[e]
      BY <3>1, <3>2 DEF WiresOf
    <3> QED BY <3>1, <3>3
  <2>3. CASE ~Loop(i)
    BY <2>1, <2>3 DEF TaskStep, Receive, ReadTimeout, ReadCanceled, Finish, Crash, Die, TypeOK
  <2> QED BY <2>1, <2>2, <2>3
<1>9. ASSUME i \notin cancel', i \notin killed
      PROVE  task'[i] = "crashed" \/ Alive(i)'
  BY <1>6, <1>9
  DEF TaskStep, Loop, Receive, ReadTimeout, ReadCanceled, Finish, Crash, Die, Alive, TypeOK
<1>10. Candidate' = Candidate /\ plan.edges' = plan.edges /\ Kept' = Kept
       /\ WiresOf(n, plan, chan)' = WiresOf(n, plan, chan)
  BY <1>1 DEF Candidate, Kept
<1>11. \A j \in (cancel \cup killed)' : j[2] <= round' /\ (Candidate' => j[2] < round')
  BY <1>1, <1>6, <1>10, WiringTypes DEF RunsInv, GenerationsInv, Current
<1>12. \A m \in plan.nodes :
          /\ wire'[Current(m)] = WiresOf(m, plan, chan)
          /\ reading'[Current(m)] # <<>> =>
                \E e \in plan.edges : e[2] = m /\ reading'[Current(m)] = <<e, chan[e]>>
  BY <1>1, <1>3, <1>4, <1>8 DEF RunsInv
<1>13. ASSUME phase \in {"idle", "preparing", "disposing", "gathering", "retiring"},
              NEW m \in plan.nodes, phase \in {"gathering", "retiring"} => m \in Kept
       PROVE  task'[Current(m)] = "crashed"
              \/ (Alive(Current(m))' /\ Current(m) \notin cancel' \cup killed)
  <2>1. CASE m = n
    <3>1. i \notin cancel \cup killed
      BY <1>1, <1>13, <2>1 DEF RunsInv, Alive
    <3>2. i \notin cancel'
      BY <1>1, <1>6, <1>13, <2>1, <3>1, RetainedIsNotRevoked
    <3> QED BY <1>1, <1>2, <1>9, <2>1, <3>1, <3>2
  <2>2. CASE m # n
    BY <1>2, <1>3, <1>4, <1>6, <1>13, <2>2 DEF RunsInv, Alive
  <2> QED BY <2>1, <2>2
<1>14. \A j \in Instance : reading'[j] # <<>> => task'[j] = "reading"
  BY <1>3, <1>7 DEF RunsInv
<1> HIDE DEF n
<1> QED
  BY <1>1, <1>2, <1>5, <1>10, <1>11, <1>12, <1>13, <1>14 DEF RunsInv

\* The steps of a call that leave the graph and the tasks alone.
LEMMA RunsUntouched ==
    ASSUME RunsInv,
           UNCHANGED <<plan, gen, chan, round, cand, wire, reading, task, cancel, killed, running>>,
           phase' \in {"new", "starting"} => phase \in {"new", "starting"},
           Candidate' => Candidate,
           phase' \in {"idle", "preparing", "disposing", "gathering", "retiring"} =>
               /\ phase \in {"idle", "preparing", "disposing", "gathering", "retiring"}
               /\ phase' \in {"gathering", "retiring"} <=> phase \in {"gathering", "retiring"}
    PROVE  RunsInv'
<1>1. /\ plan.edges' = plan.edges /\ Kept' = Kept
      /\ \A n : Current(n)' = Current(n) /\ WiresOf(n, plan, chan)' = WiresOf(n, plan, chan)
      /\ \A i : Alive(i)' <=> Alive(i)
  BY DEF Kept, Current, WiresOf, Alive
<1>2. NoTasks => NoTasks'
  BY DEF NoTasks
<1> QED BY <1>1, <1>2 DEF RunsInv

LEMMA RunsCalls ==
    ASSUME RunsInv,
           \/ Start \/ Disposed \/ Gather \/ Join \/ Stopped \/ PrepareFails
           \/ CallerCancelled \/ StopCancelled
           \/ \E n \in Nodes : \/ Prepare(n) \/ Dispose(n) \/ Retire(n) \/ Shutdown(n)
                               \/ DisposeCancelled(n) \/ StartStopCancelled(n)
    PROVE  RunsInv'
<1> USE DEF graphVars, instVars, callVars, Candidate
<1>1. UNCHANGED <<plan, gen, chan, round, cand, wire, reading, task, cancel, killed, running>>
  BY DEF Start, Disposed, Gather, Join, Stopped, PrepareFails, CallerCancelled, StopCancelled,
         Prepare, Dispose, Retire, Shutdown, DisposeCancelled, StartStopCancelled
<1>2. /\ phase' \in {"new", "starting"} => phase \in {"new", "starting"}
      /\ Candidate' => Candidate
      /\ phase' \in {"idle", "preparing", "disposing", "gathering", "retiring"} =>
            /\ phase \in {"idle", "preparing", "disposing", "gathering", "retiring"}
            /\ phase' \in {"gathering", "retiring"} <=> phase \in {"gathering", "retiring"}
  BY DEF Start, Disposed, Gather, Join, Stopped, PrepareFails, CallerCancelled, StopCancelled,
         Prepare, Dispose, Retire, Shutdown, DisposeCancelled, StartStopCancelled
<1> QED BY <1>1, <1>2, RunsUntouched

\* What stops or joins the whole graph cancels what belongs to it.
LEMMA RunsStop ==
    ASSUME TypeOK, GenerationsInv, RunsInv, StartFails \/ Stop \/ JoinTimeout
    PROVE  RunsInv'
<1> USE DEF graphVars, callVars
<1>1. /\ UNCHANGED <<plan, gen, chan, round, cand, wire, reading, task, running>>
      /\ phase' \in {"stopping", "joining"}
      /\ (cancel \cup killed)' \subseteq cancel \cup killed \cup {Current(n) : n \in plan.nodes}
  BY DEF StartFails, Stop, JoinTimeout
<1>2. ASSUME NEW n \in plan.nodes
      PROVE  Current(n)[2] <= round
  <2>1. gen[n] <= round
    BY DEF GenerationsInv
  <2> QED BY <2>1 DEF Current
<1>3. \A i \in (cancel \cup killed)' : i[2] <= round'
  BY <1>1, <1>2 DEF RunsInv
<1>4. /\ plan.edges' = plan.edges
      /\ \A n : Current(n)' = Current(n) /\ WiresOf(n, plan, chan)' = WiresOf(n, plan, chan)
  BY <1>1 DEF Current, WiresOf
<1> QED BY <1>1, <1>3, <1>4 DEF RunsInv, Candidate

\* The tasks of the graph are created.
LEMMA RunsStarted ==
    ASSUME TypeOK, GenerationsInv, RunsInv, StartTasks
    PROVE  RunsInv'
<1> USE DEF graphVars
<1>1. /\ UNCHANGED <<plan, gen, chan, round, cand, wire, reading, cancel, killed>>
      /\ phase' = "idle" /\ cancel = {} /\ killed = {} /\ NoTasks
      /\ task' = [i \in Instance |-> IF i[1] \in plan.nodes /\ i = Current(i[1])
                                     THEN "top" ELSE task[i]]
  BY DEF StartTasks, RunsInv
<1>2. \A i \in Instance : reading[i] = <<>>
  BY <1>1 DEF RunsInv, NoTasks
<1>3. \A n \in plan.nodes : Current(n) \in Instance /\ task'[Current(n)] = "top"
  BY <1>1, WiringTypes DEF Current
<1>4. /\ plan.edges' = plan.edges
      /\ \A n : Current(n)' = Current(n) /\ WiresOf(n, plan, chan)' = WiresOf(n, plan, chan)
  BY <1>1 DEF Current, WiresOf
<1> QED BY <1>1, <1>2, <1>3, <1>4 DEF RunsInv, Candidate, Alive

\* A candidate is built next to the graph.
LEMMA RunsReconcile ==
    ASSUME TypeOK, GenerationsInv, RunsInv, NEW P \in Plans, Reconcile(P)
    PROVE  RunsInv'
<1>1. PICK some \in SUBSET P.nodes : Build(P, some)
  BY DEF Reconcile
<1>2. /\ UNCHANGED <<plan, gen, chan, task, killed, cancel, reading, running>>
      /\ phase = "idle" /\ round' = round + 1
      /\ phase' \in {"preparing", "disposing"}
      /\ \A i \in Instance : i[2] # round + 1 => wire'[i] = wire[i]
  BY <1>1 DEF Build, Reconcile, graphVars
<1>3. \A n \in plan.nodes : wire'[Current(n)] = wire[Current(n)]
  <2>1. \A n \in plan.nodes : Current(n) \in Instance /\ Current(n)[2] # round + 1
    BY WiringTypes DEF Current
  <2> QED BY <1>2, <2>1
<1>4. \A i \in cancel \cup killed : i[2] < round + 1
  <2>1. \A i \in cancel \cup killed : i[2] \in Nat /\ i[2] <= round
    BY DEF RunsInv, TypeOK, Instance
  <2> QED BY <2>1, WiringTypes
<1>5. /\ plan.edges' = plan.edges
      /\ \A n : Current(n)' = Current(n) /\ WiresOf(n, plan, chan)' = WiresOf(n, plan, chan)
      /\ \A i : Alive(i)' <=> Alive(i)
  BY <1>2 DEF Current, WiresOf, Alive
<1>6. \A i \in cancel \cup killed : i[2] <= round' /\ i[2] < round'
  BY <1>2, <1>4, WiringTypes DEF TypeOK, Instance
<1> QED BY <1>2, <1>3, <1>5, <1>6 DEF RunsInv

\* The commit cancels what is not retained; the graph had tasks.
LEMMA RunsCommit ==
    ASSUME TypeOK, GenerationsInv, RunsInv, NoPlanIsEmpty, Commit
    PROVE  RunsInv'
<1>1. /\ UNCHANGED <<plan, gen, chan, round, cand, wire, reading, task>>
      /\ phase = "preparing" /\ phase' = "gathering"
      /\ running' = \E i \in Instance : i = Current(i[1]) /\ task[i] # "none"
      /\ cancel' = cancel \cup {Current(n) : n \in Removed}
      /\ killed' = killed \cup {Current(n) : n \in Removed}
  BY DEF Commit, graphVars
<1>2. /\ plan.edges' = plan.edges /\ Kept' = Kept
      /\ \A n : Current(n)' = Current(n) /\ WiresOf(n, plan, chan)' = WiresOf(n, plan, chan)
      /\ \A i : Alive(i)' <=> Alive(i)
  BY <1>1 DEF Kept, Current, WiresOf, Alive
<1>3. \A n \in plan.nodes : Current(n) \in Instance /\ Current(n)[1] = n /\ Current(n)[2] = gen[n]
                             /\ gen[n] <= round /\ gen[n] < round
  BY <1>1, WiringTypes DEF Current, GenerationsInv, Candidate
<1>4. \A i \in (cancel \cup killed)' : i[2] <= round' /\ i[2] < round'
  <2>1. \A i \in cancel \cup killed : i[2] <= round /\ i[2] < round
    BY <1>1 DEF RunsInv, Candidate
  <2>2. Removed \subseteq plan.nodes
    BY KeptNodes
  <2> QED BY <1>1, <1>3, <2>1, <2>2
<1>5. running'
  <2>1. PICK n \in plan.nodes : TRUE
    BY DEF NoPlanIsEmpty, TypeOK
  <2>2. task[Current(n)] # "none"
    BY <1>1, <2>1 DEF RunsInv, Alive
  <2> QED BY <1>1, <1>3, <2>1, <2>2
<1>6. ASSUME NEW n \in plan.nodes, n \in Kept
      PROVE  /\ Current(n) \in cancel' => Current(n) \in cancel
             /\ Current(n) \in killed' => Current(n) \in killed
  <2>1. \A m \in Removed : Current(m) # Current(n)
    BY <1>6, KeptNodes DEF Current
  <2> QED BY <1>1, <2>1
<1> QED BY <1>1, <1>2, <1>4, <1>5, <1>6 DEF RunsInv

\* The candidate takes over: retained operators are rewired and the new ones start.
LEMMA RunsSwap ==
    ASSUME TypeOK, GenerationsInv, LiveInv, WiringInv, RunsInv, SettingsKept, Swap
    PROVE  RunsInv'
<1>1. /\ plan' = cand /\ phase = "retiring" /\ phase' = "idle" /\ running
      /\ UNCHANGED <<round, killed, cancel, reading>>
      /\ gen' = [n \in Nodes |-> IF n \notin cand.nodes THEN 0
                                 ELSE IF n \in Kept THEN gen[n] ELSE round]
      /\ chan' = [e \in Edges |-> IF e \in cand.edges THEN CandidateChannels[e] ELSE 0]
      /\ wire' = [i \in Instance |-> IF i[1] \in Kept /\ i = Current(i[1])
                                     THEN WiresOf(i[1], cand, CandidateChannels) ELSE wire[i]]
      /\ task' = [i \in Instance |-> IF running /\ i[1] \in Fresh /\ i = Replacement(i[1])
                                     THEN "top" ELSE task[i]]
  BY DEF Swap, RunsInv
<1>2. /\ cand.nodes \subseteq Nodes /\ Kept \subseteq plan.nodes /\ Kept \subseteq cand.nodes
      /\ Fresh = cand.nodes \ Kept /\ round \in 1..MaxRounds
  BY PlanNodes, KeptNodes DEF TypeOK
<1>3. \A n \in plan.nodes : gen[n] \in Nat /\ gen[n] < round /\ Current(n) \in Instance
  BY <1>1, WiringTypes DEF GenerationsInv, Candidate
<1>4. ASSUME NEW n \in Kept
      PROVE  /\ Current(n)' = Current(n) /\ Current(n) \in Instance
             /\ wire'[Current(n)] = WiresOf(n, cand, CandidateChannels)
             /\ task'[Current(n)] = task[Current(n)]
  <2>1. Current(n)' = Current(n) /\ Current(n) \in Instance /\ Current(n)[1] = n
    BY <1>1, <1>2, <1>3 DEF Current
  <2> QED BY <1>1, <1>2, <2>1
<1>5. ASSUME NEW n \in Fresh
      PROVE  /\ Current(n)' = Replacement(n) /\ Replacement(n) \in Instance
             /\ wire'[Replacement(n)] = WiresOf(n, cand, CandidateChannels)
             /\ task'[Replacement(n)] = "top" /\ reading[Replacement(n)] = <<>>
             /\ Replacement(n) \notin cancel \cup killed
  <2>1. Current(n)' = Replacement(n) /\ Replacement(n) \in Instance
        /\ Replacement(n)[1] = n /\ Replacement(n)[2] = round
    BY <1>1, <1>2 DEF Current, Replacement, Instance
  <2>2. wire[Replacement(n)] = WiresOf(n, cand, CandidateChannels)
    BY <1>1 DEF WiringInv
  <2>3. wire'[Replacement(n)] = wire[Replacement(n)]
    BY <1>1, <1>2, <2>1
  <2>4. ~Alive(Replacement(n))
    <3>1. SUFFICES ASSUME Alive(Replacement(n)) PROVE FALSE
      OBVIOUS
    <3>2. n \in plan.nodes /\ Replacement(n) = Current(n)
      BY <2>1, <3>1 DEF LiveInv
    <3>3. Replacement(n)[2] = round /\ Current(n)[2] = gen[n]
      BY DEF Current, Replacement
    <3>4. gen[n] = round
      BY <3>2, <3>3
    <3> QED BY <1>2, <1>3, <3>2, <3>4
  <2>5. reading[Replacement(n)] = <<>>
    BY <2>1, <2>4 DEF RunsInv, Alive
  <2>6. Replacement(n) \notin cancel \cup killed
    BY <1>1, <1>2, <2>1 DEF RunsInv, Candidate
  <2> QED BY <1>1, <2>1, <2>2, <2>3, <2>5, <2>6
<1>6. \A n \in cand.nodes : WiresOf(n, cand, CandidateChannels) = WiresOf(n, plan', chan')
  BY <1>1 DEF WiresOf
<1>7. ASSUME NEW n \in cand.nodes
      PROVE  wire'[Current(n)'] = WiresOf(n, plan', chan')
  BY <1>2, <1>4, <1>5, <1>6
<1>8. ASSUME NEW n \in cand.nodes, reading[Current(n)'] # <<>>
      PROVE  \E e \in plan'.edges : e[2] = n /\ reading[Current(n)'] = <<e, chan'[e]>>
  <2>1. n \in Kept
    BY <1>2, <1>5, <1>8
  <2>2. PICK e \in plan.edges : e[2] = n /\ reading[Current(n)] = <<e, chan[e]>>
    BY <1>2, <1>4, <1>8, <2>1 DEF RunsInv
  <2>3. e[1] \in Kept /\ e \in cand.edges
    BY <2>1, <2>2, RetainedUpstream, ReusedChannelsExist DEF Kept, TypeOK
  <2>4. Reused(e) /\ e \in cand.edges /\ e \in Edges
    BY <2>1, <2>2, <2>3, SourcesAreNodes DEF Reused, TypeOK
  <2>5. chan'[e] = chan[e]
    BY <1>1, <2>4 DEF CandidateChannels
  <2> QED BY <1>1, <1>4, <2>1, <2>2, <2>4, <2>5
<1>9. ASSUME NEW n \in cand.nodes
      PROVE  task'[Current(n)'] = "crashed"
             \/ (task'[Current(n)'] \in {"top", "reading", "working"}
                   /\ Current(n)' \notin cancel \cup killed)
  <2>1. CASE n \in Kept
    <3>1. n \in plan.nodes /\ phase = "retiring"
      BY <1>1, <1>2, <2>1
    <3>2. task[Current(n)] = "crashed"
          \/ (Alive(Current(n)) /\ Current(n) \notin cancel \cup killed)
      BY <2>1, <3>1 DEF RunsInv
    <3> QED BY <1>1, <1>4, <2>1, <3>2 DEF Alive
  <2>2. CASE n \notin Kept
    BY <1>2, <1>5, <2>2
  <2> QED BY <2>1, <2>2
<1>10. \A i \in cancel \cup killed : i[2] <= round
  BY DEF RunsInv
<1>11. \A i \in Instance : reading'[i] # <<>> => task'[i] = "reading"
  <2>1. SUFFICES ASSUME NEW i \in Instance, reading[i] # <<>> PROVE task'[i] = "reading"
    BY <1>1
  <2>2. task[i] = "reading"
    BY <2>1 DEF RunsInv
  <2>3. ~(i[1] \in Fresh /\ i = Replacement(i[1]))
    BY <1>5, <2>1
  <2> QED BY <1>1, <2>1, <2>2, <2>3
<1> QED BY <1>1, <1>7, <1>8, <1>9, <1>10, <1>11 DEF RunsInv, Candidate, Alive, Current

LEMMA RunsInit == Init => RunsInv
<1> SUFFICES ASSUME Init PROVE RunsInv
  OBVIOUS
<1>1. /\ cancel = {} /\ killed = {} /\ phase = "new" /\ plan = FirstPlan
      /\ NoTasks /\ \A i \in Instance : reading[i] = <<>>
  BY DEF Init, NoTasks
<1>2. ASSUME NEW n \in plan.nodes
      PROVE  Current(n) \in Instance /\ wire[Current(n)] = WiresOf(n, plan, chan)
  <2>1. n \in Nodes /\ gen[n] = 1 /\ 1 \in 1..MaxRounds
    BY <1>1, PlanNodes, ReconcileAssumption DEF Init
  <2>2. Current(n) = <<n, 1>> /\ <<n, 1>> \in Instance
    BY <2>1 DEF Current, Instance
  <2>3. wire[<<n, 1>>] = [e \in Edges |->
            IF e \in FirstPlan.edges /\ n \in {e[1], e[2]} THEN 1 ELSE 0]
    BY <2>2 DEF Init
  <2>4. \A e \in FirstPlan.edges : e \in Edges /\ chan[e] = 1
    BY SourcesAreNodes, ReconcileAssumption DEF Init
  <2> QED BY <1>1, <2>2, <2>3, <2>4 DEF WiresOf
<1> QED BY <1>1, <1>2 DEF RunsInv, Candidate

LEMMA RunsStep ==
    ASSUME IndInv, WiringInv, RunsInv, SettingsKept, NoPlanIsEmpty, [Next]_vars
    PROVE  RunsInv'
<1>1. TypeOK /\ GenerationsInv /\ LiveInv
  BY DEF IndInv
<1>2. CASE \E i \in Instance : TaskStep(i)
  BY <1>1, <1>2, RunsTask
<1>3. CASE \E P \in Plans : Reconcile(P)
  BY <1>1, <1>3, RunsReconcile
<1>4. CASE Commit \/ Swap \/ StartTasks
  BY <1>1, <1>4, RunsCommit, RunsSwap, RunsStarted
<1>5. CASE StartFails \/ Stop \/ JoinTimeout
  BY <1>1, <1>5, RunsStop
<1>6. CASE \/ Start \/ Disposed \/ Gather \/ Join \/ Stopped \/ PrepareFails
           \/ CallerCancelled \/ StopCancelled
           \/ \E n \in Nodes : \/ Prepare(n) \/ Dispose(n) \/ Retire(n) \/ Shutdown(n)
                               \/ DisposeCancelled(n) \/ StartStopCancelled(n)
  BY <1>6, RunsCalls
<1>7. CASE UNCHANGED vars
  BY <1>7, RunsUntouched DEF vars, Candidate
<1> QED BY <1>2, <1>3, <1>4, <1>5, <1>6, <1>7 DEF Next, CallProgress

\* If no queue setting is edited, what a reconciliation retains goes on: between calls the
\* task of every operator of the graph is alive and not cancelled, unless it crashed by
\* itself.  What feeds a retained operator is then retained too, so that the channel it
\* waits on is never among those that are revoked.
THEOREM RetainedGoOn ==
    ASSUME SettingsKept, NoPlanIsEmpty
    PROVE  Spec => []RetainedKeepsRunning
<1>1. RunsInv => RetainedKeepsRunning
  BY DEF RunsInv, RetainedKeepsRunning
<1>2. IndInv /\ WiringInv /\ RunsInv /\ [Next]_vars => RunsInv'
  BY RunsStep
<1> QED BY <1>1, <1>2, RunsInit, IndHolds, WiringHolds, PTL DEF Spec
==============================================================================
