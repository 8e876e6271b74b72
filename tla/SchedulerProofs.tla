--------------------------- MODULE SchedulerProofs ---------------------------
(***************************************************************************)
(* Proofs about Scheduler, for any number of callers, functions and        *)
(* permits.                                                                *)
(*                                                                         *)
(* The inductive invariant says who has what.  The queue of the semaphore  *)
(* holds each waiting task once (Queue), so that waking its head gives a   *)
(* permit to a task that has none.  A caller has a permit exactly when     *)
(* run_sync is past the acquisition (Phases), and a function that is       *)
(* attended belongs to one such caller (Attended).  Counting the permits   *)
(* then needs only how one step changes each of the three sets.            *)
(***************************************************************************)
EXTENDS Scheduler, TLAPS, FiniteSetTheorems

States == {"none", "new", "waiting", "granted", "got"}
HoldingOf(f) == {c \in Callers : f[c] \in {"granted", "got"}}

\* The tasks in the queue w are those that wait, once each.
QueueOf(w, f) ==
    /\ \A i \in 1..Len(w) : f[w[i]] = "waiting"
    /\ \A i, k \in 1..Len(w) : w[i] = w[k] => i = k
Queue == QueueOf(waiters, acquire)

Phases ==
    \A c \in Callers :
        /\ pc[c] = "idle" => acquire[c] = "none"
        /\ pc[c] = "acquiring" => acquire[c] # "none"
        /\ pc[c] = "running" => acquire[c] = "got"

Attended ==
    /\ \A j \in Jobs : job[j] = "free" => caller[j] = None
    /\ \A j \in Jobs : caller[j] # None => pc[caller[j]] = "running"
    /\ \A i, j \in Jobs : caller[i] = caller[j] /\ caller[i] # None => i = j

IInv == TypeOK /\ Queue /\ Phases /\ Attended /\ PermitsAccounted

\* The sets that are counted are finite.
LEMMA Finite ==
    /\ \A f : IsFiniteSet(HoldingOf(f)) /\ Cardinality(HoldingOf(f)) \in Nat
    /\ Holding = HoldingOf(acquire) /\ Cardinality(Holding) \in Nat
    /\ IsFiniteSet(Active) /\ Cardinality(Active) \in Nat
    /\ IsFiniteSet(Abandoned) /\ Cardinality(Abandoned) \in Nat
<1>1. \A S, T : IsFiniteSet(S) /\ T \subseteq S => IsFiniteSet(T) /\ Cardinality(T) \in Nat
  BY FS_Subset, FS_CardinalityType
<1>2. \A f : HoldingOf(f) \subseteq Callers
  BY DEF HoldingOf
<1>3. Active \subseteq Jobs /\ Abandoned \subseteq Jobs
  BY DEF Active, Abandoned
<1>4. Holding = HoldingOf(acquire)
  BY DEF Holding, HoldingOf
<1>5. Holding \subseteq Callers
  BY DEF Holding
<1> QED
  BY <1>1, <1>2, <1>3, <1>4, <1>5, SchedulerAssumption

\* One caller more, or one less.
LEMMA OneMore ==
    ASSUME NEW S, NEW T, NEW x, IsFiniteSet(S), x \notin S, T = S \cup {x}
    PROVE  Cardinality(T) = Cardinality(S) + 1
  BY FS_AddElement

LEMMA OneLess ==
    ASSUME NEW S, NEW T, NEW x, IsFiniteSet(S), x \in S, T = S \ {x}
    PROVE  Cardinality(T) = Cardinality(S) - 1
  BY FS_RemoveElement

\* Waking the head of the queue: it leaves the queue and has a permit.
LEMMA WakeHead ==
    ASSUME NEW w \in Seq(Callers), w # <<>>, NEW f \in [Callers -> States], QueueOf(w, f),
           NEW g, g = [f EXCEPT ![Head(w)] = "granted"]
    PROVE  /\ g \in [Callers -> States] /\ Tail(w) \in Seq(Callers)
           /\ QueueOf(Tail(w), g)
           /\ Cardinality(HoldingOf(g)) = Cardinality(HoldingOf(f)) + 1
           /\ Head(w) \in Callers /\ f[Head(w)] = "waiting"
<1>1. Head(w) \in Callers /\ Head(w) = w[1] /\ 1 \in 1..Len(w)
  OBVIOUS
<1>2. f[Head(w)] = "waiting"
  BY <1>1 DEF QueueOf
<1>3. g \in [Callers -> States] /\ Tail(w) \in Seq(Callers)
  BY <1>1 DEF States
<1>4. QueueOf(Tail(w), g)
  <2>1. \A i \in 1..Len(Tail(w)) :
           i + 1 \in 1..Len(w) /\ Tail(w)[i] = w[i + 1] /\ w[i + 1] # w[1] /\ w[i + 1] \in Callers
    BY <1>1 DEF QueueOf
  <2>2. \A i \in 1..Len(Tail(w)) : g[Tail(w)[i]] = "waiting"
    BY <1>1, <2>1 DEF QueueOf
  <2>3. \A i, k \in 1..Len(Tail(w)) : Tail(w)[i] = Tail(w)[k] => i = k
    <3> TAKE i, k \in 1..Len(Tail(w))
    <3>1. i \in Nat /\ k \in Nat
      OBVIOUS
    <3> QED
      BY <2>1, <3>1 DEF QueueOf
  <2> QED
    BY <2>2, <2>3 DEF QueueOf
<1>5. HoldingOf(g) = HoldingOf(f) \cup {Head(w)} /\ Head(w) \notin HoldingOf(f)
  BY <1>1, <1>2 DEF HoldingOf
<1> QED
  BY <1>1, <1>2, <1>3, <1>4, <1>5, OneMore, Finite

\* A release from the state a of the acquire tasks adds one permit, whoever gets it, and
\* touches only a task that waits.
LEMMA ReleaseAddsOne ==
    ASSUME TypeOK, NEW a \in [Callers -> States], QueueOf(waiters, a), Release(a)
    PROVE  /\ value' \in Nat
           /\ waiters' \in Seq(Callers) /\ acquire' \in [Callers -> States]
           /\ Queue'
           /\ value' + Cardinality(HoldingOf(acquire')) = value + Cardinality(HoldingOf(a)) + 1
           /\ \A c \in Callers : acquire'[c] = a[c] \/ (a[c] = "waiting" /\ acquire'[c] = "granted")
<1>1. Cardinality(HoldingOf(a)) \in Nat /\ value \in Nat /\ waiters \in Seq(Callers)
  BY Finite DEF TypeOK
<1>2. CASE waiters = <<>>
  BY <1>1, <1>2 DEF Release, Queue
<1>3. CASE waiters # <<>>
  <2>1. /\ acquire' = [a EXCEPT ![Head(waiters)] = "granted"]
        /\ waiters' = Tail(waiters) /\ value' = value
    BY <1>3 DEF Release
  <2>2. /\ acquire' \in [Callers -> States] /\ waiters' \in Seq(Callers)
        /\ QueueOf(waiters', acquire')
        /\ Cardinality(HoldingOf(acquire')) = Cardinality(HoldingOf(a)) + 1
        /\ Head(waiters) \in Callers /\ a[Head(waiters)] = "waiting"
    BY <1>1, <1>3, <2>1, WakeHead
  <2> QED
    BY <1>1, <2>1, <2>2 DEF Queue
<1> QED
  BY <1>2, <1>3

\* A caller that does not wait can give its permit up without disturbing the queue.
LEMMA NoLongerHeld ==
    ASSUME IInv, NEW c \in Callers, acquire[c] \in {"granted", "got"}
    PROVE  /\ At(c, "none") \in [Callers -> States]
           /\ QueueOf(waiters, At(c, "none"))
           /\ Cardinality(HoldingOf(At(c, "none"))) = Cardinality(Holding) - 1
<1>1. At(c, "none") \in [Callers -> States]
  BY DEF At, States, IInv, TypeOK
<1>2. QueueOf(waiters, At(c, "none"))
  BY DEF QueueOf, Queue, At, IInv, TypeOK
<1>3. HoldingOf(At(c, "none")) = HoldingOf(acquire) \ {c} /\ c \in HoldingOf(acquire)
  BY DEF HoldingOf, At, IInv, TypeOK
<1>4. Cardinality(HoldingOf(At(c, "none"))) = Cardinality(HoldingOf(acquire)) - 1
  BY <1>3, OneLess, Finite
<1> QED
  BY <1>1, <1>2, <1>4 DEF HoldingOf, Holding

LEMMA InitIInv == Init => IInv
<1> SUFFICES ASSUME Init PROVE IInv
  OBVIOUS
<1>1. TypeOK /\ Queue /\ Phases /\ Attended
  BY SchedulerAssumption DEF Init, TypeOK, Queue, QueueOf, Phases, Attended
<1>2. Holding = {} /\ Abandoned = {}
  BY DEF Init, Holding, Abandoned, Active
<1>3. PermitsAccounted
  BY <1>2, FS_EmptySet, SchedulerAssumption DEF Init, PermitsAccounted
<1> QED
  BY <1>1, <1>3 DEF IInv

(***************************************************************************)
(* The steps of the semaphore and of run_sync.                             *)
(***************************************************************************)
\* Permits that are all accounted for are at most limit.
LEMMA WithinLimit ==
    ASSUME TypeOK, UNCHANGED <<limit, named, deadlines>>, PermitsAccounted', value' \in Nat
    PROVE  value' \in 0..limit
<1>1. Holding' = HoldingOf(acquire')
  BY DEF Holding, HoldingOf
<1>2. IsFiniteSet(Abandoned')
  <2>1. Abandoned' \subseteq Jobs
    BY DEF Abandoned, Active
  <2> QED
    BY <2>1, FS_Subset, SchedulerAssumption
<1>3. Cardinality(Holding') \in Nat /\ Cardinality(Abandoned') \in Nat
  BY <1>1, <1>2, Finite, FS_CardinalityType
<1>4. limit \in Nat
  BY SchedulerAssumption DEF TypeOK
<1> QED
  BY <1>3, <1>4 DEF PermitsAccounted

\* A task that gets a permit, or queues for one.
LEMMA TryAcquireIInv ==
    ASSUME IInv, NEW c \in Callers, TryAcquire(c), UNCHANGED <<limit, named, deadlines>>
    PROVE  IInv'
<1>1. /\ acquire[c] = "new" /\ acquire \in [Callers -> States] /\ waiters \in Seq(Callers)
      /\ value \in Nat /\ Cardinality(Holding) \in Nat /\ Cardinality(Abandoned) \in Nat
      /\ UNCHANGED <<pc, stop, job, caller, pool, serial>>
      /\ Abandoned' = Abandoned
  <2>1. Cardinality(Holding) \in Nat /\ Cardinality(Abandoned) \in Nat
    BY Finite
  <2>2. UNCHANGED <<pc, stop, job, caller, pool, serial>>
    BY DEF TryAcquire, jobVars
  <2>3. Abandoned' = Abandoned
    BY <2>2 DEF Abandoned, Active
  <2> QED
    BY <2>1, <2>2, <2>3 DEF TryAcquire, IInv, TypeOK, States
<1>2. CASE value > 0 /\ ~Queued
  <2>1. value' = value - 1 /\ acquire' = At(c, "got") /\ waiters' = waiters
    BY <1>2 DEF TryAcquire
  <2>2. HoldingOf(acquire') = HoldingOf(acquire) \cup {c} /\ c \notin HoldingOf(acquire)
    BY <1>1, <2>1 DEF HoldingOf, At
  <2>3. PermitsAccounted'
    <3>1. Cardinality(HoldingOf(acquire')) = Cardinality(HoldingOf(acquire)) + 1
      BY <2>2, OneMore, Finite
    <3> QED
      BY <1>1, <1>2, <2>1, <3>1 DEF IInv, PermitsAccounted, Holding, HoldingOf
  <2>4. TypeOK'
    <3>1. value' \in 0..limit
      BY <1>1, <1>2, <2>1, <2>3, WithinLimit DEF IInv
    <3> QED
      BY <1>1, <2>1, <3>1 DEF TypeOK, IInv, At
  <2>5. Queue'
    BY <1>1, <2>1 DEF Queue, QueueOf, At, IInv
  <2>6. Phases' /\ Attended'
    BY <1>1, <2>1 DEF Phases, Attended, At, IInv
  <2> QED
    BY <2>3, <2>4, <2>5, <2>6 DEF IInv
<1>3. CASE ~(value > 0 /\ ~Queued)
  <2>1. value' = value /\ acquire' = At(c, "waiting") /\ waiters' = Append(waiters, c)
    BY <1>3 DEF TryAcquire
  <2>2. HoldingOf(acquire') = HoldingOf(acquire)
    BY <1>1, <2>1 DEF HoldingOf, At
  <2>3. PermitsAccounted'
    BY <1>1, <2>1, <2>2 DEF IInv, PermitsAccounted, Holding, HoldingOf
  <2>4. TypeOK'
    BY <1>1, <2>1 DEF TypeOK, IInv, At
  <2>5. Queue'
    <3>1. \A i \in 1..Len(waiters) : waiters[i] \in Callers /\ waiters[i] # c
      BY <1>1 DEF IInv, Queue, QueueOf
    <3>2. \A i \in 1..Len(waiters') :
             \/ i \in 1..Len(waiters) /\ waiters'[i] = waiters[i]
             \/ i = Len(waiters) + 1 /\ waiters'[i] = c
      BY <1>1, <2>1
    <3> QED
      BY <1>1, <2>1, <3>1, <3>2 DEF IInv, Queue, QueueOf, At
  <2>6. Phases' /\ Attended'
    BY <1>1, <2>1 DEF Phases, Attended, At, IInv
  <2> QED
    BY <2>3, <2>4, <2>5, <2>6 DEF IInv
<1> QED
  BY <1>2, <1>3

\* A woken task runs, and may pass the turn on.
LEMMA TakeGrantIInv ==
    ASSUME IInv, NEW c \in Callers, TakeGrant(c), UNCHANGED <<limit, named, deadlines>>
    PROVE  IInv'
<1>1. /\ acquire[c] = "granted" /\ acquire \in [Callers -> States] /\ waiters \in Seq(Callers)
      /\ value \in Nat /\ Cardinality(Holding) \in Nat /\ Cardinality(Abandoned) \in Nat
      /\ UNCHANGED <<pc, stop, job, caller, pool, serial>>
      /\ Abandoned' = Abandoned
  <2>1. Cardinality(Holding) \in Nat /\ Cardinality(Abandoned) \in Nat
    BY Finite
  <2>2. UNCHANGED <<pc, stop, job, caller, pool, serial>>
    BY DEF TakeGrant, jobVars
  <2>3. Abandoned' = Abandoned
    BY <2>2 DEF Abandoned, Active
  <2> QED
    BY <2>1, <2>2, <2>3 DEF TakeGrant, IInv, TypeOK, States
<1>2. /\ At(c, "got") \in [Callers -> States]
      /\ QueueOf(waiters, At(c, "got"))
      /\ HoldingOf(At(c, "got")) = Holding
  BY <1>1 DEF At, States, QueueOf, Queue, HoldingOf, Holding, IInv
<1>3. CASE value > 0 /\ waiters # <<>>
  <2>1. /\ value' = value - 1
        /\ acquire' = [At(c, "got") EXCEPT ![Head(waiters)] = "granted"]
        /\ waiters' = Tail(waiters)
    BY <1>3 DEF TakeGrant
  <2>2. /\ acquire' \in [Callers -> States] /\ waiters' \in Seq(Callers)
        /\ QueueOf(waiters', acquire')
        /\ Cardinality(HoldingOf(acquire')) = Cardinality(Holding) + 1
        /\ Head(waiters) \in Callers /\ At(c, "got")[Head(waiters)] = "waiting"
    BY <1>1, <1>2, <1>3, <2>1, WakeHead
  <2>3. PermitsAccounted'
    BY <1>1, <1>3, <2>1, <2>2 DEF IInv, PermitsAccounted, Holding, HoldingOf
  <2>4. TypeOK'
    <3>1. value' \in 0..limit
      BY <1>1, <1>3, <2>1, <2>3, WithinLimit DEF IInv
    <3> QED
      BY <1>1, <2>2, <3>1 DEF TypeOK, IInv, States
  <2>5. Phases' /\ Attended'
    BY <1>1, <2>1, <2>2 DEF Phases, Attended, At, IInv
  <2> QED
    BY <2>2, <2>3, <2>4, <2>5 DEF IInv, Queue
<1>4. CASE ~(value > 0 /\ waiters # <<>>)
  <2>1. value' = value /\ acquire' = At(c, "got") /\ waiters' = waiters
    BY <1>4 DEF TakeGrant
  <2>2. PermitsAccounted'
    BY <1>1, <1>2, <2>1 DEF IInv, PermitsAccounted, Holding, HoldingOf
  <2>3. TypeOK' /\ Queue' /\ Phases' /\ Attended'
    BY <1>1, <1>2, <2>1 DEF TypeOK, Queue, Phases, Attended, At, IInv, States
  <2> QED
    BY <2>2, <2>3 DEF IInv
<1> QED
  BY <1>3, <1>4

\* A caller whose permit goes back while the functions and their callers are as before:
\* what GiveUp and SubmitFails have in common.
LEMMA PermitComesBack ==
    ASSUME IInv, NEW c \in Callers, acquire[c] \in {"granted", "got"}, pc[c] = "acquiring",
           Release(At(c, "none")), Returned(c), UNCHANGED <<job, caller, pool>>,
           serial' \in Pools \cup {None}, UNCHANGED <<limit, named, deadlines>>
    PROVE  IInv'
<1>1. /\ acquire \in [Callers -> States] /\ pc \in [Callers -> {"idle", "acquiring", "running"}]
      /\ stop \in [Callers -> BOOLEAN] /\ value \in Nat
      /\ Cardinality(Holding) \in Nat /\ Cardinality(Abandoned) \in Nat
      /\ Abandoned' = Abandoned /\ TypeOK
  <2>1. Cardinality(Holding) \in Nat /\ Cardinality(Abandoned) \in Nat
    BY Finite
  <2>2. Abandoned' = Abandoned
    BY DEF Abandoned, Active
  <2> QED
    BY <2>1, <2>2 DEF IInv, TypeOK, States
<1>2. /\ At(c, "none") \in [Callers -> States]
      /\ QueueOf(waiters, At(c, "none"))
      /\ Cardinality(HoldingOf(At(c, "none"))) = Cardinality(Holding) - 1
  BY NoLongerHeld
<1>3. /\ value' \in Nat
      /\ waiters' \in Seq(Callers) /\ acquire' \in [Callers -> States]
      /\ Queue'
      /\ value' + Cardinality(HoldingOf(acquire')) = value + Cardinality(HoldingOf(At(c, "none"))) + 1
      /\ \A d \in Callers : \/ acquire'[d] = At(c, "none")[d]
                            \/ At(c, "none")[d] = "waiting" /\ acquire'[d] = "granted"
  BY <1>1, <1>2, ReleaseAddsOne
<1>4. PermitsAccounted'
  <2>1. Cardinality(HoldingOf(acquire')) \in Nat
    BY Finite
  <2> QED
    BY <1>1, <1>2, <1>3, <2>1 DEF IInv, PermitsAccounted, Holding, HoldingOf
<1>5. TypeOK'
  BY <1>1, <1>3, <1>4, WithinLimit DEF TypeOK, Returned, States
<1>6. Phases' /\ Attended'
  BY <1>1, <1>3 DEF Phases, Attended, IInv, At, Returned
<1> QED
  BY <1>3, <1>4, <1>5, <1>6 DEF IInv

\* A caller that is stopped before it submits.
LEMMA GiveUpIInv ==
    ASSUME IInv, NEW c \in Callers, GiveUp(c), UNCHANGED <<limit, named, deadlines>>
    PROVE  IInv'
<1>1. /\ acquire \in [Callers -> States] /\ pc \in [Callers -> {"idle", "acquiring", "running"}]
      /\ waiters \in Seq(Callers) /\ pc[c] = "acquiring"
      /\ UNCHANGED <<job, caller, pool, serial>> /\ Returned(c)
      /\ Abandoned' = Abandoned
  <2>1. UNCHANGED <<job, caller, pool, serial>>
    BY DEF GiveUp, jobVars
  <2>2. Abandoned' = Abandoned
    BY <2>1 DEF Abandoned, Active
  <2> QED
    BY <2>1, <2>2 DEF GiveUp, IInv, TypeOK, States
<1>2. CASE acquire[c] \in {"granted", "got"} /\ Release(At(c, "none"))
  <2>1. serial' \in Pools \cup {None}
    BY <1>1 DEF IInv, TypeOK
  <2> QED
    BY <1>1, <1>2, <2>1, PermitComesBack
<1>3. ASSUME acquire[c] \in {"new", "waiting"}, acquire' = At(c, "none"), value' = value,
             waiters' \in Seq(Callers), Queue'
      PROVE  IInv'
  <2>1. HoldingOf(acquire') = HoldingOf(acquire)
    BY <1>1, <1>3 DEF HoldingOf, At
  <2>2. PermitsAccounted'
    BY <1>1, <1>3, <2>1 DEF IInv, PermitsAccounted, Holding, HoldingOf
  <2>3. TypeOK' /\ Phases' /\ Attended'
    BY <1>1, <1>3 DEF IInv, TypeOK, Phases, Attended, At, Returned
  <2> QED
    BY <1>3, <2>2, <2>3 DEF IInv
<1>4. CASE acquire[c] = "new" /\ acquire' = At(c, "none") /\ UNCHANGED <<value, waiters>>
  <2>1. Queue'
    BY <1>1, <1>4 DEF IInv, Queue, QueueOf, At
  <2> QED
    BY <1>1, <1>3, <1>4, <2>1
<1>5. ASSUME NEW i \in DOMAIN waiters, waiters[i] = c, waiters' = Without(waiters, i),
             acquire[c] = "waiting", acquire' = At(c, "none"), value' = value
      PROVE  IInv'
  <2>1. i \in 1..Len(waiters) /\ Len(waiters) \in Nat
    BY <1>1, <1>5
  <2>2. /\ waiters' \in Seq(Callers) /\ Len(waiters') = Len(waiters) - 1
        /\ \A k \in 1..(Len(waiters) - 1) :
              waiters'[k] = IF k < i THEN waiters[k] ELSE waiters[k + 1]
    BY <1>1, <1>5, <2>1 DEF Without
  <2>3. \A k \in 1..Len(waiters') :
           \/ k \in 1..Len(waiters) /\ k < i /\ waiters'[k] = waiters[k]
           \/ k + 1 \in 1..Len(waiters) /\ k >= i /\ waiters'[k] = waiters[k + 1]
    BY <2>1, <2>2
  <2>4. \A k \in 1..Len(waiters') : waiters'[k] \in Callers /\ waiters'[k] # c
                                 /\ acquire[waiters'[k]] = "waiting"
    <3>1. \A k \in 1..Len(waiters) : /\ waiters[k] \in Callers /\ acquire[waiters[k]] = "waiting"
                                     /\ k # i => waiters[k] # c
      BY <1>1, <1>5, <2>1 DEF IInv, Queue, QueueOf
    <3>2. \A k \in 1..Len(waiters') : k \in Nat /\ (k < i => k # i) /\ (k >= i => k + 1 # i)
      BY <2>1, <2>2
    <3> QED
      BY <2>3, <3>1, <3>2
  <2>5. \A k, l \in 1..Len(waiters') : waiters'[k] = waiters'[l] => k = l
    <3>1. \A k, l \in 1..Len(waiters) : waiters[k] = waiters[l] => k = l
      BY DEF IInv, Queue, QueueOf
    <3> TAKE k, l \in 1..Len(waiters')
    <3>2. k \in Nat /\ l \in Nat /\ i \in Nat
      BY <2>1, <2>2
    <3>3. CASE k < i
      BY <2>3, <3>1, <3>2, <3>3
    <3>4. CASE k >= i
      BY <2>3, <3>1, <3>2, <3>4
    <3> QED
      BY <3>2, <3>3, <3>4
  <2>6. Queue'
    BY <1>1, <1>5, <2>4, <2>5 DEF Queue, QueueOf, At
  <2> QED
    BY <1>3, <1>5, <2>2, <2>6
<1> QED
  BY <1>1, <1>2, <1>4, <1>5 DEF GiveUp

\* The permit stays with the caller while its function runs.
LEMMA SubmitIInv ==
    ASSUME IInv, NEW c \in Callers, NEW j \in Jobs, Submit(c, j), UNCHANGED <<limit, named, deadlines>>
    PROVE  IInv'
<1>1. /\ UNCHANGED <<value, waiters, acquire, stop>>
      /\ pc[c] = "acquiring" /\ acquire[c] = "got" /\ job[j] = "free"
      /\ job' = [job EXCEPT ![j] = "running"] /\ caller' = [caller EXCEPT ![j] = c]
      /\ pc' = [pc EXCEPT ![c] = "running"]
      /\ \E p \in PoolsFor : pool' = [pool EXCEPT ![j] = p] /\ serial' = p
  BY DEF Submit, semaphoreVars
<1>2. PoolsFor \subseteq Pools \cup {None}
  BY DEF PoolsFor, IInv, TypeOK
<1>3. c # None
  BY SchedulerAssumption
<1>4. Abandoned' = Abandoned
  BY <1>1, <1>3 DEF Abandoned, Active, IInv, TypeOK
<1>5. TypeOK'
  BY <1>1, <1>2 DEF IInv, TypeOK
<1>6. Queue' /\ Phases'
  BY <1>1 DEF IInv, TypeOK, Queue, QueueOf, Phases
<1>7. Attended'
  BY <1>1, <1>3 DEF IInv, TypeOK, Attended
<1>8. PermitsAccounted'
  BY <1>1, <1>4 DEF IInv, PermitsAccounted, Holding
<1> QED
  BY <1>5, <1>6, <1>7, <1>8 DEF IInv

\* The future is done and its caller releases.
LEMMA ReturnIInv ==
    ASSUME IInv, NEW c \in Callers, NEW j \in Jobs, Return(c, j), UNCHANGED <<limit, named, deadlines>>
    PROVE  IInv'
<1>1. /\ pc[c] = "running" /\ acquire[c] = "got" /\ caller[j] = c
      /\ job' = [job EXCEPT ![j] = "free"] /\ caller' = [caller EXCEPT ![j] = None]
      /\ Release(At(c, "none")) /\ Returned(c) /\ UNCHANGED <<pool, serial>>
      /\ acquire \in [Callers -> States] /\ value \in Nat /\ c # None /\ TypeOK
  BY SchedulerAssumption DEF Return, IInv, TypeOK, States, Phases
<1>2. Cardinality(Holding) \in Nat /\ Cardinality(Abandoned) \in Nat
  BY Finite
<1>3. Abandoned' = Abandoned
  BY <1>1 DEF Abandoned, Active, IInv, TypeOK
<1>4. /\ At(c, "none") \in [Callers -> States]
      /\ QueueOf(waiters, At(c, "none"))
      /\ Cardinality(HoldingOf(At(c, "none"))) = Cardinality(Holding) - 1
  BY <1>1, NoLongerHeld
<1>5. /\ value' \in Nat
      /\ waiters' \in Seq(Callers) /\ acquire' \in [Callers -> States]
      /\ Queue'
      /\ value' + Cardinality(HoldingOf(acquire')) = value + Cardinality(HoldingOf(At(c, "none"))) + 1
      /\ \A d \in Callers : \/ acquire'[d] = At(c, "none")[d]
                            \/ At(c, "none")[d] = "waiting" /\ acquire'[d] = "granted"
  BY <1>1, <1>4, ReleaseAddsOne
<1>6. PermitsAccounted'
  <2>1. Cardinality(HoldingOf(acquire')) \in Nat
    BY Finite
  <2> QED
    BY <1>1, <1>2, <1>3, <1>4, <1>5, <2>1 DEF IInv, PermitsAccounted, Holding, HoldingOf
<1>7. TypeOK'
  BY <1>1, <1>5, <1>6, WithinLimit DEF TypeOK, Returned, States
<1>8. Phases'
  BY <1>1, <1>5 DEF Phases, IInv, TypeOK, At, Returned
<1>9. Attended'
  BY <1>1 DEF Attended, IInv, TypeOK, Returned
<1> QED
  BY <1>5, <1>6, <1>7, <1>8, <1>9 DEF IInv

\* The permit of a cancelled caller is now that of its function.
LEMMA AbandonIInv ==
    ASSUME IInv, NEW c \in Callers, NEW j \in Jobs, Abandon(c, j), UNCHANGED <<limit, named, deadlines>>
    PROVE  IInv'
<1>1. /\ pc[c] = "running" /\ acquire[c] = "got" /\ caller[j] = c
      /\ caller' = [caller EXCEPT ![j] = None] /\ acquire' = At(c, "none") /\ Returned(c)
      /\ UNCHANGED <<value, waiters, job, pool, serial>>
      /\ acquire \in [Callers -> States] /\ value \in Nat /\ c # None
  BY SchedulerAssumption DEF Abandon, IInv, TypeOK, States, Phases
<1>2. Cardinality(Holding) \in Nat /\ Cardinality(Abandoned) \in Nat
  BY Finite
<1>3. /\ At(c, "none") \in [Callers -> States]
      /\ QueueOf(waiters, At(c, "none"))
      /\ Cardinality(HoldingOf(At(c, "none"))) = Cardinality(Holding) - 1
  BY <1>1, NoLongerHeld
<1>4. Abandoned' = Abandoned \cup {j} /\ j \notin Abandoned
  BY <1>1 DEF Abandoned, Active, IInv, TypeOK, Attended
<1>5. Cardinality(Abandoned') = Cardinality(Abandoned) + 1
  BY <1>4, OneMore, Finite
<1>6. PermitsAccounted'
  BY <1>1, <1>2, <1>3, <1>5 DEF IInv, PermitsAccounted, Holding, HoldingOf
<1>7. TypeOK' /\ Queue'
  BY <1>1, <1>3 DEF IInv, TypeOK, Queue, Returned, States
<1>8. Phases' /\ Attended'
  BY <1>1 DEF IInv, TypeOK, Phases, Attended, At, Returned
<1> QED
  BY <1>6, <1>7, <1>8 DEF IInv

\* An abandoned function ends and releases.
LEMMA ReleaseWhenFinishedIInv ==
    ASSUME IInv, NEW j \in Jobs, ReleaseWhenFinished(j), UNCHANGED <<limit, named, deadlines>>
    PROVE  IInv'
<1>1. /\ job[j] = "done" /\ caller[j] = None /\ job' = [job EXCEPT ![j] = "free"]
      /\ Release(acquire) /\ UNCHANGED <<pc, stop, caller, pool, serial>>
      /\ acquire \in [Callers -> States] /\ value \in Nat /\ TypeOK
  BY DEF ReleaseWhenFinished, IInv, TypeOK, States
<1>2. Cardinality(HoldingOf(acquire)) \in Nat /\ Cardinality(Abandoned) \in Nat
      /\ Cardinality(HoldingOf(acquire')) \in Nat
  BY Finite
<1>3. /\ value' \in Nat
      /\ waiters' \in Seq(Callers) /\ acquire' \in [Callers -> States]
      /\ Queue'
      /\ value' + Cardinality(HoldingOf(acquire')) = value + Cardinality(HoldingOf(acquire)) + 1
      /\ \A d \in Callers : acquire'[d] = acquire[d]
                            \/ (acquire[d] = "waiting" /\ acquire'[d] = "granted")
  BY <1>1, ReleaseAddsOne DEF IInv, Queue
<1>4. Abandoned' = Abandoned \ {j} /\ j \in Abandoned
  BY <1>1 DEF Abandoned, Active, IInv, TypeOK
<1>5. Cardinality(Abandoned') = Cardinality(Abandoned) - 1
  BY <1>4, OneLess, Finite
<1>6. PermitsAccounted'
  BY <1>1, <1>2, <1>3, <1>5 DEF IInv, PermitsAccounted, Holding, HoldingOf
<1>7. TypeOK'
  BY <1>1, <1>3, <1>6, WithinLimit DEF TypeOK, States
<1>8. Phases' /\ Attended'
  BY <1>1, <1>3 DEF IInv, TypeOK, Phases, Attended
<1> QED
  BY <1>3, <1>6, <1>7, <1>8 DEF IInv

\* A caller that begins, or is stopped: no permit moves.
LEMMA CallerIInv ==
    ASSUME IInv, NEW c \in Callers, Call(c) \/ Stop(c), UNCHANGED <<limit, named, deadlines>>
    PROVE  IInv'
<1>1. UNCHANGED <<value, waiters, job, caller, pool, serial>>
  BY DEF Call, Stop, semaphoreVars, jobVars
<1>2. Holding' = Holding /\ Abandoned' = Abandoned
  BY <1>1 DEF Call, Stop, semaphoreVars, Holding, Abandoned, Active, IInv, TypeOK, Phases, At
<1>3. TypeOK' /\ Queue' /\ Phases' /\ Attended'
  <2>1. CASE Call(c)
    BY <1>1, <2>1 DEF Call, IInv, TypeOK, Queue, QueueOf, Phases, Attended, At
  <2>2. CASE Stop(c)
    BY <1>1, <2>2 DEF Stop, semaphoreVars, IInv, TypeOK, Queue, QueueOf, Phases, Attended
  <2> QED
    BY <2>1, <2>2
<1>4. PermitsAccounted'
  BY <1>1, <1>2 DEF IInv, PermitsAccounted
<1> QED
  BY <1>3, <1>4 DEF IInv

\* Functions that run, are killed or end: they stay active, and their callers theirs.
LEMMA PoolIInv ==
    ASSUME IInv, UNCHANGED <<value, waiters, acquire, pc, stop, caller, pool>>,
           job' \in [Jobs -> {"free", "running", "killed", "done"}],
           \A j \in Jobs : job'[j] = "free" <=> job[j] = "free",
           serial' \in Pools \cup {None}, UNCHANGED <<limit, named, deadlines>>
    PROVE  IInv'
<1>1. Active' = Active /\ Abandoned' = Abandoned /\ Holding' = Holding
  BY DEF Active, Abandoned, Holding
<1>2. TypeOK' /\ Queue' /\ Phases' /\ Attended'
  BY DEF IInv, TypeOK, Queue, QueueOf, Phases, Attended
<1>3. PermitsAccounted'
  BY <1>1 DEF IInv, PermitsAccounted
<1> QED
  BY <1>2, <1>3 DEF IInv

LEMMA NextIInv == IInv /\ [Next]_vars => IInv'
<1> SUFFICES ASSUME IInv, [Next]_vars, UNCHANGED <<limit, named, deadlines>> PROVE IInv'
  BY DEF Next, vars
<1> DEFINE Steps == {"free", "running", "killed", "done"}
<1>1. /\ job \in [Jobs -> Steps] /\ serial \in Pools \cup {None}
      /\ pool \in [Jobs -> Pools \cup {None}]
  BY DEF IInv, TypeOK
<1>2. ASSUME NEW c \in Callers, Turn(c) PROVE IInv'
  <2>1. CASE SubmitFails(c)
    <3>1. /\ acquire[c] \in {"granted", "got"} /\ pc[c] = "acquiring"
          /\ Release(At(c, "none")) /\ Returned(c) /\ UNCHANGED <<job, caller, pool>>
          /\ serial' \in Pools \cup {None}
      BY <2>1 DEF SubmitFails
    <3> QED
      BY <3>1, PermitComesBack
  <2>2. CASE TryAcquire(c) \/ TakeGrant(c) \/ GiveUp(c)
    BY <2>2, TryAcquireIInv, TakeGrantIInv, GiveUpIInv
  <2>3. CASE \E j \in Jobs : Submit(c, j) \/ Return(c, j) \/ Abandon(c, j)
    BY <2>3, SubmitIInv, ReturnIInv, AbandonIInv
  <2> QED
    BY <1>2, <2>1, <2>2, <2>3 DEF Turn
<1>3. ASSUME NEW p, NEW s \in Pools \cup {None},
             UNCHANGED <<value, waiters, acquire, pc, stop, caller, pool>>,
             job' = Broken(p), serial' = s
      PROVE  IInv'
  <2>1. job' \in [Jobs -> Steps] /\ \A j \in Jobs : job'[j] = "free" <=> job[j] = "free"
    BY <1>1, <1>3 DEF Broken
  <2> QED
    BY <1>3, <2>1, PoolIInv
<1>4. ASSUME NEW j \in Jobs, JobEnds(j) \/ JobFails(j) PROVE IInv'
  <2>1. /\ UNCHANGED <<value, waiters, acquire, pc, stop, caller, pool>>
        /\ job' \in [Jobs -> Steps] /\ \A i \in Jobs : job'[i] = "free" <=> job[i] = "free"
        /\ serial' \in Pools \cup {None}
    BY <1>1, <1>4 DEF JobEnds, JobFails, semaphoreVars
  <2> QED
    BY <2>1, PoolIInv
<1>5. ASSUME NEW j \in Jobs, Deadline(j) \/ WorkerDies(j) PROVE IInv'
  <2>1. /\ UNCHANGED <<value, waiters, acquire, pc, stop, caller, pool>>
        /\ job' = Broken(pool[j]) /\ serial' \in Pools \cup {None}
    BY <1>1, <1>5 DEF Deadline, WorkerDies, semaphoreVars
  <2> QED
    BY <1>3, <2>1
<1>6. CASE Shutdown
  <2>1. /\ UNCHANGED <<value, waiters, acquire, pc, stop, caller, pool>>
        /\ job' = Broken(serial) \/ job' = job
        /\ serial' \in Pools \cup {None}
    BY <1>6 DEF Shutdown, semaphoreVars
  <2> QED
    BY <1>1, <1>3, <2>1, PoolIInv
<1>7. CASE UNCHANGED vars
  BY <1>1, <1>7, PoolIInv DEF vars
<1>8. ASSUME NEW j \in Jobs, ReleaseWhenFinished(j) PROVE IInv'
  BY <1>8, ReleaseWhenFinishedIInv
<1> QED
  BY <1>2, <1>4, <1>5, <1>6, <1>7, <1>8, CallerIInv DEF Next, Step, JobTurn

(***************************************************************************)
(* The theorems.                                                           *)
(***************************************************************************)
\* The invariant that the others follow from, through every cancellation, kill and
\* failure of run_sync.
THEOREM Invariance == Spec => []IInv
  BY InitIInv, NextIInv, PTL DEF Spec

\* The state of the scheduler is well formed; in particular the semaphore never holds
\* more than max_concurrency permits.
THEOREM TypeCorrect == Spec => []TypeOK
<1>1. IInv => TypeOK
  BY DEF IInv
<1> QED
  BY <1>1, Invariance, PTL

\* run_sync never loses or doubles a permit: each is with the semaphore, with a caller,
\* or with a function whose caller was cancelled.
THEOREM PermitsAlwaysAccounted == Spec => []PermitsAccounted
<1>1. IInv => PermitsAccounted
  BY DEF IInv
<1> QED
  BY <1>1, Invariance, PTL

\* An attended function stands for the permit of its caller, so the functions at work
\* are no more than the permits.
LEMMA FewActive == IInv => AtMostLimit
<1> SUFFICES ASSUME IInv PROVE Cardinality(Active) <= limit
  BY DEF AtMostLimit
<1> DEFINE Own == Active \ Abandoned
<1> DEFINE Theirs == {caller[j] : j \in Own}
<1>1. Own \subseteq Jobs /\ \A j \in Own : caller[j] \in Callers /\ caller[j] # None
  BY DEF Active, Abandoned, IInv, TypeOK
<1>2. Theirs \subseteq Holding
  BY <1>1 DEF Holding, IInv, Attended, Phases
<1>3. IsFiniteSet(Own) /\ IsFiniteSet(Theirs) /\ Cardinality(Own) = Cardinality(Theirs)
  <2>1. IsFiniteSet(Own)
    BY FS_Subset, Finite
  <2>2. [j \in Own |-> caller[j]] \in Bijection(Own, Theirs)
    <3> DEFINE f == [j \in Own |-> caller[j]]
    <3>1. f \in [Own -> Theirs]
      OBVIOUS
    <3>2. \A i, k \in Own : f[i] = f[k] => i = k
      BY <1>1 DEF IInv, Attended
    <3>3. \A t \in Theirs : \E k \in Own : f[k] = t
      OBVIOUS
    <3> QED
      BY <3>1, <3>2, <3>3 DEF Bijection, Injection, Surjection, IsInjective
  <2>3. ExistsBijection(Own, Theirs)
    BY <2>2 DEF ExistsBijection
  <2>4. IsFiniteSet(Theirs) /\ Cardinality(Theirs) = Cardinality(Own)
    BY <2>1, <2>3, FS_Bijection
  <2> QED
    BY <2>1, <2>4
<1>4. Cardinality(Own) <= Cardinality(Holding) /\ Cardinality(Own) \in Nat
  <2>1. IsFiniteSet(Holding)
    BY Finite
  <2> QED
    BY <1>2, <1>3, <2>1, FS_Subset, FS_CardinalityType
<1>5. Cardinality(Active) = Cardinality(Own) + Cardinality(Abandoned)
  <2>1. Active = Own \cup Abandoned /\ Own \cap Abandoned = {}
    BY DEF Abandoned
  <2>2. Cardinality(Own \cap Abandoned) = 0
    BY <2>1, FS_EmptySet
  <2> QED
    <3> HIDE DEF Own
    <3>1. Cardinality(Own \cup Abandoned)
             = Cardinality(Own) + Cardinality(Abandoned) - Cardinality(Own \cap Abandoned)
      BY <1>3, Finite, FS_Union
    <3>2. Cardinality(Active) = Cardinality(Own) + Cardinality(Abandoned) - 0
      BY <2>1, <2>2, <3>1
    <3> QED
      BY <1>4, <3>2, Finite
<1>6. /\ value \in Nat /\ limit \in Nat /\ Cardinality(Holding) \in Nat
      /\ Cardinality(Abandoned) \in Nat
  BY Finite, SchedulerAssumption DEF IInv, TypeOK
<1> QED
  BY <1>4, <1>5, <1>6 DEF IInv, PermitsAccounted

\* Never more functions than max_concurrency are at work under one key, those that
\* outlive their callers included.
THEOREM NeverMoreThanLimit == Spec => []AtMostLimit
  BY FewActive, Invariance, PTL

\* A named pool, whose limit is one, works for one function at a time: the deadline that
\* kills its worker hits no other function.
THEOREM DeadlineHitsOne == Spec => []AloneInPool
<1>1. IInv => AloneInPool
  <2> SUFFICES ASSUME IInv, named, NEW i \in Active, NEW j \in Active, i # j PROVE FALSE
    BY DEF AloneInPool
  <2>1. Cardinality(Active) <= 1
    BY FewActive, SchedulerAssumption DEF AtMostLimit, IInv, TypeOK
  <2>2. {i, j} \subseteq Active /\ IsFiniteSet({i, j}) /\ Cardinality({i, j}) = 2
    <3>1. IsFiniteSet({i}) /\ Cardinality({i}) = 1
      BY FS_Singleton
    <3>2. {i, j} = {i} \cup {j} /\ j \notin {i}
      OBVIOUS
    <3> QED
      BY <3>1, <3>2, FS_AddElement
  <2>3. Cardinality({i, j}) <= Cardinality(Active)
    BY <2>2, Finite, FS_Subset
  <2> QED
    BY <2>1, <2>2, <2>3, Finite
<1> QED
  BY <1>1, Invariance, PTL
=============================================================================
