------------------------------ MODULE Scheduler ------------------------------
(***************************************************************************)
(* ExecutionScheduler.run_sync (runtime/pipelines/execution_scheduler.py)  *)
(* for the calls of one concurrency key: a semaphore limits how many       *)
(* functions run in the thread pool, or in the process pool of the key.    *)
(*                                                                         *)
(* A caller that is cancelled does not stop its function, so the permit    *)
(* passes to the function, which gives it back when it ends.  A caller     *)
(* waits for its permit in a task of its own (_acquire), which may get it  *)
(* in the very turn of the event loop that cancels the caller.             *)
(*                                                                         *)
(* The semaphore is asyncio's: a permit that is released goes straight to  *)
(* the first waiter, and nobody takes one while somebody is queued.        *)
(***************************************************************************)
EXTENDS Naturals, Sequences, FiniteSets

CONSTANTS
    Callers,    \* the tasks that call run_sync with this key
    Jobs,       \* names for the functions that were submitted
    Pools,      \* names for the process pools
    Profiles,   \* what the calls may ask for: <<limit, named, deadlines>>
    None        \* no caller, or no pool

ASSUME SchedulerAssumption ==
    /\ IsFiniteSet(Callers) /\ IsFiniteSet(Jobs)
    /\ Profiles \subseteq (Nat \ {0}) \X BOOLEAN \X BOOLEAN
    /\ \A p \in Profiles : (p[3] => p[2]) /\ (p[2] => p[1] = 1)
    /\ None \notin Callers \cup Pools

VARIABLES
    limit,      \* max_concurrency of the calls
    named,      \* they use a process pool named by the key
    deadlines,  \* with a deadline: the pool is in _terminable_process_pools
    value,      \* Semaphore._value
    waiters,    \* the futures of Semaphore._waiters that are not done
    acquire,    \* caller -> what its acquire_task is at
    pc,         \* caller -> where run_sync is
    stop,       \* caller -> its cancel_event is set, or its task is cancelled
    job,        \* job -> what its future and its function are at
    caller,     \* job -> the caller that awaits it, or None
    pool,       \* job -> the pool it was submitted to
    serial      \* _serial_process_pools[key]

semaphoreVars == <<value, waiters, acquire>>
jobVars == <<job, caller, pool, serial>>
vars == <<limit, named, deadlines, value, waiters, acquire, pc, stop, job, caller, pool, serial>>

(***************************************************************************)
(* The semaphore.                                                          *)
(***************************************************************************)
\* The waiter at position i is gone.
Without(s, i) == [k \in 1..(Len(s) - 1) |-> IF k < i THEN s[k] ELSE s[k + 1]]

\* A permit comes back while the acquire tasks are at a.
Release(a) ==
    IF waiters = <<>>
    THEN value' = value + 1 /\ acquire' = a /\ UNCHANGED waiters
    ELSE /\ acquire' = [a EXCEPT ![Head(waiters)] = "granted"]
         /\ waiters' = Tail(waiters)
         /\ UNCHANGED value

At(c, state) == [acquire EXCEPT ![c] = state]

\* Somebody is queued, a waiter that was woken and has not run yet included.
Queued == waiters # <<>> \/ \E c \in Callers : acquire[c] = "granted"

\* The acquire task runs: it takes a permit, or waits behind the others.
TryAcquire(c) ==
    /\ acquire[c] = "new"
    /\ IF value > 0 /\ ~Queued
       THEN value' = value - 1 /\ acquire' = At(c, "got") /\ UNCHANGED waiters
       ELSE waiters' = Append(waiters, c) /\ acquire' = At(c, "waiting") /\ UNCHANGED value
    /\ UNCHANGED <<pc, stop, jobVars>>

\* It resumes after its future was set, and wakes the next one if there are more permits.
TakeGrant(c) ==
    /\ acquire[c] = "granted"
    /\ IF value > 0 /\ waiters # <<>>
       THEN /\ value' = value - 1
            /\ acquire' = [At(c, "got") EXCEPT ![Head(waiters)] = "granted"]
            /\ waiters' = Tail(waiters)
       ELSE acquire' = At(c, "got") /\ UNCHANGED <<value, waiters>>
    /\ UNCHANGED <<pc, stop, jobVars>>

(***************************************************************************)
(* run_sync                                                                *)
(***************************************************************************)
Call(c) ==
    /\ pc[c] = "idle"
    /\ pc' = [pc EXCEPT ![c] = "acquiring"]
    /\ acquire' = At(c, "new")
    /\ UNCHANGED <<value, waiters, stop, jobVars>>

\* The cancel event is set, or the caller's task is cancelled.
Stop(c) ==
    /\ pc[c] # "idle" /\ ~stop[c]
    /\ stop' = [stop EXCEPT ![c] = TRUE]
    /\ UNCHANGED <<semaphoreVars, pc, jobVars>>

Returned(c) == pc' = [pc EXCEPT ![c] = "idle"] /\ stop' = [stop EXCEPT ![c] = FALSE]

\* A caller that is stopped before it submits: whatever its acquire task has, or is
\* about to get, goes back.
\* Mutant: a permit that arrived in the turn of the cancellation is forgotten.
GiveUpForgetful(c) ==
    /\ pc[c] = "acquiring" /\ stop[c]
    /\ \/ /\ acquire[c] \in {"new", "got"}
          /\ acquire' = At(c, "none") /\ UNCHANGED <<value, waiters>>
       \/ /\ acquire[c] = "waiting"
          /\ \E i \in DOMAIN waiters : waiters[i] = c /\ waiters' = Without(waiters, i)
          /\ acquire' = At(c, "none") /\ UNCHANGED value
       \/ /\ acquire[c] = "granted"
          /\ Release(At(c, "none"))
    /\ Returned(c)
    /\ UNCHANGED jobVars
GiveUp(c) ==
    /\ pc[c] = "acquiring" /\ stop[c]
    /\ \/ /\ acquire[c] = "new"
          /\ acquire' = At(c, "none") /\ UNCHANGED <<value, waiters>>
       \/ /\ acquire[c] = "waiting"
          /\ \E i \in DOMAIN waiters : waiters[i] = c /\ waiters' = Without(waiters, i)
          /\ acquire' = At(c, "none") /\ UNCHANGED value
       \/ /\ acquire[c] \in {"granted", "got"}
          /\ Release(At(c, "none"))
    /\ Returned(c)
    /\ UNCHANGED jobVars

\* The pool of the key, or a new one.
PoolsFor == IF ~named THEN {None}
            ELSE IF serial # None THEN {serial}
            ELSE Pools \ {pool[j] : j \in {i \in Jobs : job[i] # "free"}}

Submit(c, j) ==
    /\ pc[c] = "acquiring" /\ acquire[c] = "got" /\ ~stop[c]
    /\ job[j] = "free"
    /\ \E p \in PoolsFor :
          pool' = [pool EXCEPT ![j] = p] /\ serial' = p
    /\ job' = [job EXCEPT ![j] = "running"]
    /\ caller' = [caller EXCEPT ![j] = c]
    /\ pc' = [pc EXCEPT ![c] = "running"]
    /\ UNCHANGED <<semaphoreVars, stop>>

\* The pool broke while it was idle: the submission fails, and the next one will have
\* a new pool.
SubmitFails(c) ==
    /\ named /\ serial # None
    /\ pc[c] = "acquiring" /\ acquire[c] = "got" /\ ~stop[c]
    /\ serial' = None
    /\ Release(At(c, "none"))
    /\ Returned(c)
    /\ UNCHANGED <<job, caller, pool>>

\* The future is done: the caller returns or raises, and releases.
Return(c, j) ==
    /\ pc[c] = "running" /\ caller[j] = c /\ job[j] = "done" /\ ~stop[c]
    /\ job' = [job EXCEPT ![j] = "free"] /\ caller' = [caller EXCEPT ![j] = None]
    /\ Release(At(c, "none"))
    /\ Returned(c)
    /\ UNCHANGED <<pool, serial>>

\* A caller that is stopped leaves its permit to the function.
\* Mutant: it releases the permit at once.
AbandonAndRelease(c, j) ==
    /\ pc[c] = "running" /\ caller[j] = c /\ stop[c]
    /\ caller' = [caller EXCEPT ![j] = None]
    /\ Release(At(c, "none"))
    /\ Returned(c)
    /\ UNCHANGED <<job, pool, serial>>
Abandon(c, j) ==
    /\ pc[c] = "running" /\ caller[j] = c /\ stop[c]
    /\ caller' = [caller EXCEPT ![j] = None]
    /\ acquire' = At(c, "none")
    /\ Returned(c)
    /\ UNCHANGED <<value, waiters, job, pool, serial>>

\* release_when_finished()
ReleaseWhenFinished(j) ==
    /\ job[j] = "done" /\ caller[j] = None
    /\ job' = [job EXCEPT ![j] = "free"]
    /\ Release(acquire)
    /\ UNCHANGED <<pc, stop, caller, pool, serial>>

(***************************************************************************)
(* The pools.                                                              *)
(***************************************************************************)
\* A function ends.
JobEnds(j) ==
    /\ job[j] = "running"
    /\ job' = [job EXCEPT ![j] = "done"]
    /\ UNCHANGED <<semaphoreVars, pc, stop, caller, pool, serial>>

Broken(p) == [i \in Jobs |-> IF job[i] = "running" /\ pool[i] = p THEN "killed" ELSE job[i]]

\* The deadline of a function passes: the workers of its pool are killed, and the
\* next call gets another pool.  A worker may also die by itself; the pool is then
\* replaced when the future fails.
Deadline(j) ==
    /\ deadlines /\ job[j] = "running"
    /\ job' = Broken(pool[j])
    /\ serial' = IF serial = pool[j] THEN None ELSE serial
    /\ UNCHANGED <<semaphoreVars, pc, stop, caller, pool>>
WorkerDies(j) ==
    /\ named /\ job[j] = "running"
    /\ job' = Broken(pool[j])
    /\ UNCHANGED <<semaphoreVars, pc, stop, caller, pool, serial>>

\* The executor fails the future of a killed function: observe_process_failure()
\* runs before anything that awaits the future.
JobFails(j) ==
    /\ job[j] = "killed"
    /\ job' = [job EXCEPT ![j] = "done"]
    /\ serial' = IF serial = pool[j] THEN None ELSE serial
    /\ UNCHANGED <<semaphoreVars, pc, stop, caller, pool>>

\* shutdown(): a pool that can be terminated is; the functions of another one go on.
Shutdown ==
    /\ named /\ serial # None
    /\ job' = IF deadlines THEN Broken(serial) ELSE job
    /\ serial' = None
    /\ UNCHANGED <<semaphoreVars, pc, stop, caller, pool>>

(***************************************************************************)
(* The specification.                                                      *)
(***************************************************************************)
Init ==
    /\ \E p \in Profiles : limit = p[1] /\ named = p[2] /\ deadlines = p[3]
    /\ value = limit /\ waiters = <<>>
    /\ acquire = [c \in Callers |-> "none"]
    /\ pc = [c \in Callers |-> "idle"] /\ stop = [c \in Callers |-> FALSE]
    /\ job = [j \in Jobs |-> "free"] /\ caller = [j \in Jobs |-> None]
    /\ pool = [j \in Jobs |-> None] /\ serial = None

\* The event loop runs what is ready.
Turn(c) ==
    \/ TryAcquire(c) \/ TakeGrant(c) \/ GiveUp(c) \/ SubmitFails(c)
    \/ \E j \in Jobs : Submit(c, j) \/ Return(c, j) \/ Abandon(c, j)
JobTurn(j) == JobEnds(j) \/ JobFails(j) \/ ReleaseWhenFinished(j)

Step ==
    \/ \E c \in Callers : Call(c) \/ Stop(c) \/ Turn(c)
    \/ \E j \in Jobs : JobTurn(j) \/ Deadline(j) \/ WorkerDies(j)
    \/ Shutdown
Next == Step /\ UNCHANGED <<limit, named, deadlines>>

Spec == Init /\ [][Next]_vars

\* The event loop runs, and every function ends, by itself or by its deadline
\* if it has one.
FairSpec ==
    /\ Spec
    /\ \A c \in Callers : WF_vars(Turn(c) /\ UNCHANGED <<limit, named, deadlines>>)
    /\ \A j \in Jobs : WF_vars((JobTurn(j) \/ Deadline(j)) /\ UNCHANGED <<limit, named, deadlines>>)

(***************************************************************************)
(* Properties.                                                             *)
(***************************************************************************)
Active == {j \in Jobs : job[j] # "free"}
Abandoned == {j \in Active : caller[j] = None}
Holding == {c \in Callers : acquire[c] \in {"granted", "got"}}

TypeOK ==
    /\ <<limit, named, deadlines>> \in Profiles
    /\ value \in 0..limit
    /\ waiters \in Seq(Callers)
    /\ acquire \in [Callers -> {"none", "new", "waiting", "granted", "got"}]
    /\ pc \in [Callers -> {"idle", "acquiring", "running"}]
    /\ stop \in [Callers -> BOOLEAN]
    /\ job \in [Jobs -> {"free", "running", "killed", "done"}]
    /\ caller \in [Jobs -> Callers \cup {None}]
    /\ pool \in [Jobs -> Pools \cup {None}]
    /\ serial \in Pools \cup {None}

\* Never more functions than the limit are at work, those whose caller was cancelled
\* included.
AtMostLimit == Cardinality(Active) <= limit

\* Every permit is with the semaphore, a caller, or a function that was abandoned:
\* none is lost or doubled by a cancellation, whenever it comes.
PermitsAccounted == value + Cardinality(Holding) + Cardinality(Abandoned) = limit

\* A named pool works for one function at a time: a deadline kills no other.
AloneInPool ==
    \A i, j \in Active : named /\ i # j => pool[i] # pool[j]

\* Every call returns, whether it is cancelled or not.
CallsReturn == \A c \in Callers : pc[c] # "idle" ~> pc[c] = "idle"
=============================================================================
