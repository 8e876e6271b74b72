------------------------- MODULE OrchestratorProofs -------------------------
(***************************************************************************)
(* What the orchestrator's passes guarantee, for any pipelines, demands,   *)
(* configurations and bounds.                                              *)
(*                                                                         *)
(* IInv follows a pass from await to await: whose it is, what it may bring *)
(* into the local bundle when it gets there, and what it can no longer     *)
(* take out of it.  Origins, for the remote group, rests on the assumption *)
(* that no remote pipeline is rejected.                                    *)
(***************************************************************************)
EXTENDS Orchestrator, TLAPS

-----------------------------------------------------------------------------
(* The inductive invariant.                                                *)

\* What each variable that the argument is about may hold.
Types ==
    /\ stored \in Configs /\ snap \in Configs
    /\ leased \subseteq Demands
    /\ plan \subseteq Pipelines /\ desired \subseteq Pipelines
    /\ bundle = NoPlan \/ bundle \subseteq Pipelines
    /\ prunes \in 0..2
    /\ api.op \in {"open", "release"}
    /\ api = [op |-> api.op, demand |-> api.demand, at |-> api.at]
    /\ verdict = [p \in Pipelines |-> verdict[p]]

\* Who makes the pass that is under way, and how far stop() has come: the pump
\* goes before the origins, and these before the bundle.
Turns ==
    /\ turn = Nothing => at = Nothing /\ plan = {} /\ ~interrupt
    /\ turn = "api" => api.at \in {"queue", "again"}
    /\ turn = "stop" =>
        /\ at \in {"pumpWait", "closing", "originStop", "dropping", "stopped"}
        /\ stop /\ ~interrupt
        /\ at \in {"originStop", "dropping"} => pump = Nothing
        /\ at = "dropping" => origins = {}
    /\ at = "stopped" => turn = "stop"

\* What a pass prepares is what runs already, while it prunes; and later what its
\* activation checks passed, of a configuration that was stored when they ended.
Checked ==
    /\ at = "preflight" => prunes = 0 /\ desired \subseteq snap.pipelines \cup Demands
    /\ at \in {"preparing", "committing"} =>
        IF prunes > 0 THEN LocalOf(plan) \subseteq Running
        ELSE \A p \in LocalOf(plan) : verdict[p] = "passed" /\ p \in confirmed \cup Demands

\* The pass has looked for pipelines of ended demands, and stopped them, once.
Pruned ==
    /\ at \notin {"read", "raised"}
    /\ prunes = 2 => at \notin {"prune", "preparing", "committing", "dropping"}

\* A released demand is in no plan of the call's own pass, and out of the bundle
\* from its first prune on; no plan of a later pass has it.
Released ==
    api.op = "release" =>
        /\ api.demand \in Demands \ leased
        /\ turn = "api" => api.demand \notin plan /\ (Pruned => api.demand \notin Running)
        /\ api.at = "answered" => api.demand \notin plan /\ api.demand \notin Running

\* The pipeline of an opened demand is in whatever a later pass prepares.
Opened ==
    (~stop /\ api.op = "open" /\ api.at = "answered" /\ api.demand \in leased \ Unfit) =>
        /\ api.demand \in Running
        /\ at # "dropping"
        /\ at \in {"preparing", "committing"} => api.demand \in plan
        /\ at = "preflight" => api.demand \in desired

IInv == Types /\ Turns /\ Checked /\ Released /\ Opened /\ StopLeavesNothing

USE OrchestratorAssumption
    DEF world, who, pass, memory, remote, history, counts, Pipelines, Nothing, NoPlan

-----------------------------------------------------------------------------
(* IInv is inductive.                                                      *)

\* What steps outside the passes leave of Checked.
LEMMA CheckedStays ==
    ASSUME IInv, UNCHANGED <<at, snap, desired, plan, prunes, bundle, verdict, confirmed>>
    PROVE  Checked'
  BY DEF IInv, Checked, Running, LocalOf

\* Configurations are saved and reloads asked for, leases end, the processing
\* server restarts.
LEMMA EnvironmentKeeps ==
    ASSUME IInv, at \notin Ends,
           \/ \E c \in Configs : Save(c)
           \/ Saved \/ AskReload \/ ServerRestart \/ \E d \in Demands : EndLease(d)
    PROVE  IInv'
<1> USE DEF IInv
<1>1. ASSUME NEW c \in Configs, Save(c) PROVE IInv'
  <2>1. Checked'
    BY <1>1, CheckedStays DEF Save
  <2> QED
    BY <1>1, <2>1 DEF Types, Turns, Released, Opened, StopLeavesNothing, Running, Pruned, Save
<1>2. CASE Saved
  <2>1. Checked'
    BY <1>2, CheckedStays DEF Saved, TriggerReload
  <2> QED
    BY <1>2, <2>1 DEF Types, Turns, Released, Opened, StopLeavesNothing, Running, Pruned, Saved,
       TriggerReload
<1>3. CASE AskReload
  <2>1. Checked'
    BY <1>3, CheckedStays DEF AskReload, TriggerReload
  <2> QED
    BY <1>3, <2>1 DEF Types, Turns, Released, Opened, StopLeavesNothing, Running, Pruned,
       AskReload, TriggerReload
<1>4. CASE ServerRestart
  <2>1. Checked'
    BY <1>4, CheckedStays DEF ServerRestart, Fault
  <2> QED
    BY <1>4, <2>1 DEF Types, Turns, Released, Opened, StopLeavesNothing, Running, Pruned,
       ServerRestart, Fault
<1>5. ASSUME NEW d \in Demands, EndLease(d) PROVE IInv'
  <2>1. Checked'
    BY <1>5, CheckedStays DEF EndLease, TriggerReload
  <2> QED
    BY <1>5, <2>1 DEF Types, Turns, Released, Opened, StopLeavesNothing, Running, Pruned,
       EndLease, TriggerReload
<1> QED
  BY <1>1, <1>2, <1>3, <1>4, <1>5

\* The loop, the API calls and stop() begin and end their passes.
LEMMA CallersKeep ==
    ASSUME IInv,
           \/ LoopLeaves \/ CallLeaves
           \/ /\ at \notin Ends
              /\ \/ \E d \in Demands : Call("open", d) \/ Call("release", d)
                 \/ Wake \/ CancelCall \/ \E c \in {"loop", "api"} : BeginPass(c)
                 \/ StopBegins \/ StopAll
    PROVE  IInv'
<1> USE DEF IInv
<1>1. CASE LoopLeaves
  <2>1. Checked'
    BY <1>1 DEF Types, Checked, Running, LocalOf, LoopLeaves, Forget, Ends
  <2> QED
    BY <1>1, <2>1 DEF Types, Turns, Released, Opened, StopLeavesNothing, Running, Pruned,
       LoopLeaves, Forget, Ends
<1>2. CASE CallLeaves
  <2>1. Checked'
    BY <1>2 DEF Types, Checked, Running, LocalOf, CallLeaves, Forget, TriggerReload, Ends
  <2> QED
    BY <1>2, <2>1 DEF Types, Turns, Released, Opened, StopLeavesNothing, Running, Pruned,
       CallLeaves, Forget, TriggerReload, Ends
<1>3. ASSUME NEW d \in Demands, NEW op \in {"open", "release"}, Call(op, d) PROVE IInv'
  <2>1. Checked'
    BY <1>3, CheckedStays DEF Call, TriggerReload
  <2> QED
    BY <1>3, <2>1 DEF Types, Turns, Released, Opened, StopLeavesNothing, Running, Pruned, Call,
       TriggerReload
<1>4. CASE Wake
  <2>1. Checked'
    BY <1>4, CheckedStays DEF Wake
  <2> QED
    BY <1>4, <2>1 DEF Types, Turns, Released, Opened, StopLeavesNothing, Running, Pruned, Wake
<1>5. CASE CancelCall
  <2>1. Checked'
    BY <1>5, CheckedStays DEF CancelCall, Fault, Awaits
  <2> QED
    BY <1>5, <2>1 DEF Types, Turns, Released, Opened, StopLeavesNothing, Running, Pruned,
       CancelCall, Fault, Awaits
<1>6. ASSUME NEW c \in {"loop", "api"}, BeginPass(c) PROVE IInv'
  <2>1. Checked'
    BY <1>6 DEF Types, Checked, Running, LocalOf, BeginPass
  <2> QED
    BY <1>6, <2>1 DEF Types, Turns, Released, Opened, StopLeavesNothing, Running, Pruned,
       BeginPass
<1>7. CASE StopBegins
  <2>1. Checked'
    BY <1>7, CheckedStays DEF StopBegins
  <2> QED
    BY <1>7, <2>1 DEF Types, Turns, Released, Opened, StopLeavesNothing, Running, Pruned,
       StopBegins
<1>8. CASE StopAll
  <2>1. Checked'
    BY <1>8 DEF Types, Checked, Running, LocalOf, StopAll
  <2> QED
    BY <1>8, <2>1 DEF Types, Turns, Released, Opened, StopLeavesNothing, Running, Pruned, StopAll
<1> QED
  BY <1>1, <1>2, <1>3, <1>4, <1>5, <1>6, <1>7, <1>8

\* A pass takes a step.
LEMMA PassKeeps ==
    ASSUME IInv, at \notin Ends, PassStep
    PROVE  IInv'
<1> USE DEF IInv
<1>1. CASE Read
  <2>1. Checked'
    BY <1>1 DEF Types, Checked, Running, LocalOf, Read, Step
  <2> QED
    BY <1>1, <2>1 DEF Types, Turns, Released, Opened, StopLeavesNothing, Running, Pruned, Read,
       Step
<1>2. CASE Prune
  <2>1. Checked'
    BY <1>2 DEF Types, Checked, Running, LocalOf, Prune, NothingToPrune, Allowed
  <2> QED
    BY <1>2, <2>1 DEF Types, Turns, Released, Opened, StopLeavesNothing, Running, Pruned, Prune,
       NothingToPrune, Allowed, LocalOf
<1>3. CASE Decide
  <2>1. Checked'
    BY <1>3 DEF Types, Checked, Running, LocalOf, Decide, Proceed, NothingToPrune, Allowed
  <2> QED
    BY <1>3, <2>1 DEF Types, Turns, Released, Opened, StopLeavesNothing, Running, Pruned, Decide,
       Proceed, NothingToPrune, Allowed, LocalOf
<1>4. ASSUME NEW bad \in SUBSET (Unfit \cap desired), Preflight(bad) PROVE IInv'
  <2>1. Checked'
    BY <1>4 DEF Types, Checked, Running, LocalOf, Preflight, Proceed, Allowed
  <2> QED
    BY <1>4, <2>1 DEF Types, Turns, Released, Opened, StopLeavesNothing, Running, Pruned,
       Preflight, Proceed, Allowed, LocalOf
<1>5. CASE Prepare
  <2>1. Checked'
    BY <1>5 DEF Types, Checked, Running, LocalOf, Prepare, Resume, Record
  <2> QED
    BY <1>5, <2>1 DEF Types, Turns, Released, Opened, StopLeavesNothing, Running, Pruned, Prepare,
       Resume, Record, LocalOf
<1>6. CASE PrepareFails
  <2>1. Checked'
    BY <1>6 DEF Types, Checked, Running, LocalOf, PrepareFails, Fault
  <2> QED
    BY <1>6, <2>1 DEF Types, Turns, Released, Opened, StopLeavesNothing, Running, Pruned,
       PrepareFails, Fault
<1>7. CASE Commit
  <2>1. Checked'
    BY <1>7 DEF Types, Checked, Running, LocalOf, Commit, Resume, Record
  <2> QED
    BY <1>7, <2>1 DEF Types, Turns, Released, Opened, StopLeavesNothing, Running, Pruned, Commit,
       Resume, Record, LocalOf
<1>8. CASE Drop
  <2>1. Checked'
    BY <1>8 DEF Types, Checked, Running, LocalOf, Drop, Resume, Record
  <2> QED
    BY <1>8, <2>1 DEF Types, Turns, Released, Opened, StopLeavesNothing, Running, Pruned, Drop,
       Resume, Record
<1>9. CASE SendSettings
  <2>1. Checked'
    BY <1>9 DEF Types, Checked, Running, LocalOf, SendSettings, Step, Fault
  <2> QED
    BY <1>9, <2>1 DEF Types, Turns, Released, Opened, StopLeavesNothing, Running, Pruned,
       SendSettings, Step, Fault
<1>10. CASE Ensure
  <2>1. Checked'
    BY <1>10 DEF Types, Checked, Running, LocalOf, Ensure, Fault
  <2> QED
    BY <1>10, <2>1 DEF Types, Turns, Released, Opened, StopLeavesNothing, Running, Pruned, Ensure,
       Fault
<1>11. CASE Push
  <2>1. Checked'
    BY <1>11 DEF Types, Checked, Running, LocalOf, Push, Step, Fault
  <2> QED
    BY <1>11, <2>1 DEF Types, Turns, Released, Opened, StopLeavesNothing, Running, Pruned, Push,
       Step, Fault
<1>12. CASE StopPump
  <2>1. Checked'
    BY <1>12 DEF Types, Checked, Running, LocalOf, StopPump
  <2> QED
    BY <1>12, <2>1 DEF Types, Turns, Released, Opened, StopLeavesNothing, Running, Pruned,
       StopPump
<1>13. CASE CloseTransport
  <2>1. Checked'
    BY <1>13 DEF Types, Checked, Running, LocalOf, CloseTransport, Step
  <2> QED
    BY <1>13, <2>1 DEF Types, Turns, Released, Opened, StopLeavesNothing, Running, Pruned,
       CloseTransport, Step
<1>14. CASE StopOrigins
  <2>1. Checked'
    BY <1>14 DEF Types, Checked, Running, LocalOf, StopOrigins
  <2> QED
    BY <1>14, <2>1 DEF Types, Turns, Released, Opened, StopLeavesNothing, Running, Pruned,
       StopOrigins
<1>15. ASSUME NEW p \in Remote, StartOrigin(p) PROVE IInv'
  <2>1. Checked'
    BY <1>15 DEF Types, Checked, Running, LocalOf, StartOrigin, Step, Fault
  <2> QED
    BY <1>15, <2>1 DEF Types, Turns, Released, Opened, StopLeavesNothing, Running, Pruned,
       StartOrigin, Step, Fault
<1>16. CASE OriginRaises
  <2>1. Checked'
    BY <1>16 DEF Types, Checked, Running, LocalOf, OriginRaises, Step, Fault
  <2> QED
    BY <1>16, <2>1 DEF Types, Turns, Released, Opened, StopLeavesNothing, Running, Pruned,
       OriginRaises, Step, Fault
<1>17. CASE StartPump
  <2>1. Checked'
    BY <1>17 DEF Types, Checked, Running, LocalOf, StartPump
  <2> QED
    BY <1>17, <2>1 DEF Types, Turns, Released, Opened, StopLeavesNothing, Running, Pruned,
       StartPump
<1>18. CASE Interrupted
  <2>1. Checked'
    BY <1>18 DEF Types, Checked, Running, LocalOf, Interrupted, Awaits
  <2> QED
    BY <1>18, <2>1 DEF Types, Turns, Released, Opened, StopLeavesNothing, Running, Pruned,
       Interrupted, Awaits
<1> QED
  BY <1>1, <1>2, <1>3, <1>4, <1>5, <1>6, <1>7, <1>8, <1>9, <1>10, <1>11, <1>12, <1>13, <1>14,
     <1>15, <1>16, <1>17, <1>18
    DEF PassStep

\* The pump touches neither the pass nor the bundle, and it is gone once stop()
\* is past it.
LEMMA PumpKeeps ==
    ASSUME IInv, PumpStep \/ PumpFails PROVE IInv'
<1>1. Around' = Around
  BY DEF PumpStep, PumpFails, PumpPush, PumpStreams, PumpRenews, PumpSuspended, PumpRetries,
         PumpCancelled, PumpResume, PumpSuspend, Around
<1>2. at # "stopped"
  BY DEF IInv, StopLeavesNothing, PumpStep, PumpFails, PumpPush, PumpStreams, PumpRenews,
         PumpSuspended, PumpRetries, PumpCancelled, PumpResume, PumpSuspend
<1>3. ~(turn = "stop" /\ at \in {"originStop", "dropping"})
  BY DEF IInv, Turns, PumpStep, PumpFails, PumpPush, PumpStreams, PumpRenews, PumpSuspended,
         PumpRetries, PumpCancelled, PumpResume, PumpSuspend
<1>4. Checked'
  BY <1>1, CheckedStays DEF Around
<1> QED
  BY <1>1, <1>2, <1>3, <1>4 DEF Around, IInv, Types, Turns, Released, Opened, StopLeavesNothing,
     Running, Pruned

\* IInv holds in every state of every behaviour of the orchestrator.
THEOREM Invariance == Spec => []IInv
<1>1. Init => IInv
  BY DEF Init, IInv, Types, Turns, Checked, Released, Opened, StopLeavesNothing, Running
<1>2. ASSUME IInv, [Next]_vars PROVE IInv'
  <2>1. CASE UNCHANGED vars
    BY <1>2, <2>1 DEF vars, IInv, Types, Turns, Checked, Released, Opened, StopLeavesNothing,
       Running, Pruned, LocalOf
  <2>2. CASE Next
    BY <1>2, <2>2, EnvironmentKeeps, CallersKeep, PassKeeps, PumpKeeps DEF Next, Leave
  <2> QED
    BY <1>2, <2>1, <2>2
<1> QED
  BY <1>1, <1>2, PTL DEF Spec

-----------------------------------------------------------------------------
(* What follows from it.                                                   *)

\* When the call that released a demand is answered, its pipeline is out of the
\* bundle, and no pass brings it back before somebody opens it again.
THEOREM ReleasesHold == Spec => []ReleasedIsGone
<1>1. IInv => ReleasedIsGone
  BY DEF IInv, Released, ReleasedIsGone
<1> QED
  BY <1>1, Invariance, PTL

\* The pipeline of a demand whose opening was answered is not taken away by a
\* later pass that fails, is cancelled or is overtaken, while its lease is active.
THEOREM OpeningsHold == Spec => []AnsweredRuns
<1>1. IInv => AnsweredRuns
  BY DEF IInv, Opened, AnsweredRuns
<1> QED
  BY <1>1, Invariance, PTL

\* When stop() returns, no bundle, origin or pump is left, wherever the loop's
\* pass was when it was cancelled.
THEOREM StopIsThorough == Spec => []StopLeavesNothing
  BY Invariance, PTL DEF IInv

\* No pipeline enters the local bundle but one that passed its latest activation
\* checks and was configured, or demanded, when these ended.
THEOREM OnlyCheckedStarts == Spec => StartsConfirmed
<1> DEFINE Fresh == \A p \in Running' \ Running :
                      verdict[p] = "passed" /\ p \in confirmed \cup Demands
<1>1. ASSUME IInv, [Next]_vars PROVE [Fresh]_vars
  <2>1. CASE bundle' = bundle
    BY <2>1 DEF Running
  <2>2. CASE Prepare \/ Commit \/ Drop
    BY <1>1, <2>2 DEF IInv, Types, Checked, Running, LocalOf, Prepare, Commit, Drop
  <2>3. bundle' = bundle \/ Prepare \/ Commit \/ Drop
    BY <1>1
    DEF vars, Next, Leave, LoopLeaves, CallLeaves, Save, Saved, AskReload, EndLease, Call,
        ServerRestart, Wake, CancelCall, BeginPass, StopBegins, StopAll, PassStep, Read, Prune,
        Decide, Preflight, PrepareFails, SendSettings, Ensure, Push, StopPump, CloseTransport,
        StopOrigins, StartOrigin, OriginRaises, StartPump, Interrupted, PumpStep, PumpFails,
        PumpPush, PumpStreams, PumpRenews, PumpSuspended, PumpRetries, PumpCancelled,
        PumpResume, PumpSuspend, Around
  <2> QED
    BY <2>1, <2>2, <2>3
<1> QED
  BY <1>1, Invariance, PTL DEF Spec, StartsConfirmed

-----------------------------------------------------------------------------
(* The origins.                                                            *)

\* The pump may still push, start and stop.
Live == pump \notin {Nothing, "over"}
\* A pump that is alive knows no pipeline outside the group on record, and the
\* record changes only once the pump is gone.
Origins ==
    /\ errors \subseteq Unfit
    /\ pushing \subseteq lastRemote /\ origins \subseteq lastRemote
    /\ ~Live => pushing = {}
    /\ at = "closing" => ~Live
    /\ at \in {"originStop", "originStart"} => pump = Nothing
    /\ at = "originStart" =>
        turn # "stop" /\ RemoteOf(plan) = lastRemote /\ left \subseteq lastRemote
    /\ Live => payload \subseteq lastRemote
    /\ Live /\ at # "pumpWait" => RemoteOf(lastPlan) \subseteq lastRemote
    /\ at = "ensure" => RemoteOf(plan) \subseteq RemoteOf(lastPlan)
    /\ turn # "stop" =>
        /\ at \in {"pumpWait", "closing", "originStop", "originStart"} =>
            RemoteOf(lastPlan) = RemoteOf(plan)
        /\ at \in {"preparing", "committing", "dropping"} /\ prunes = 0 =>
            RemoteOf(plan) = RemoteOf(desired)

\* If no remote pipeline is rejected, the remote part of a plan is that of the
\* pipelines wanted.
LEMMA RemoteOfPlan ==
    ASSUME Unfit \cap Remote = {}, NEW P, NEW E \in SUBSET Unfit
    PROVE  RemoteOf(Allowed(P \ E)) = RemoteOf(P)
  BY DEF RemoteOf, Allowed

\* Every step keeps Origins.
LEMMA OriginsKept ==
    ASSUME Unfit \cap Remote = {}, IInv, Origins, [Next]_vars PROVE Origins'
<1> USE DEF Origins, Live, RemoteOf
<1>1. CASE UNCHANGED vars
  BY <1>1 DEF vars
<1>2. ASSUME NEW c \in Configs, Save(c) PROVE Origins'
  BY <1>2 DEF Save
<1>3. CASE Saved
  BY <1>3 DEF Saved, TriggerReload
<1>4. CASE AskReload
  BY <1>4 DEF AskReload, TriggerReload
<1>5. CASE ServerRestart
  BY <1>5 DEF ServerRestart
<1>6. ASSUME NEW d \in Demands, EndLease(d) PROVE Origins'
  BY <1>6 DEF EndLease, TriggerReload
<1>7. CASE LoopLeaves
  BY <1>7 DEF LoopLeaves, Forget, Ends
<1>8. CASE CallLeaves
  BY <1>8 DEF CallLeaves, Forget, TriggerReload, Ends
<1>9. ASSUME NEW d \in Demands, NEW op \in {"open", "release"}, Call(op, d) PROVE Origins'
  BY <1>9 DEF Call, TriggerReload
<1>10. CASE Wake
  BY <1>10 DEF Wake
<1>11. CASE CancelCall
  BY <1>11 DEF CancelCall
<1>12. ASSUME NEW c \in {"loop", "api"}, BeginPass(c) PROVE Origins'
  BY <1>12 DEF BeginPass, IInv, Turns
<1>13. CASE StopBegins
  BY <1>13 DEF StopBegins
<1>14. CASE StopAll
  BY <1>14 DEF StopAll
<1>15. CASE Read
  BY <1>15 DEF Read, Step
<1>16. CASE Prune
  BY <1>16 DEF Prune
<1>17. CASE Decide
  BY <1>17, RemoteOfPlan DEF Decide, Proceed
<1>18. ASSUME NEW bad \in SUBSET (Unfit \cap desired), Preflight(bad) PROVE Origins'
  <2>1. RemoteOf(Allowed(desired \ bad)) = RemoteOf(desired)
    BY RemoteOfPlan
  <2>2. CASE stored # snap
    BY <1>18, <2>2 DEF Preflight
  <2>3. CASE stored = snap
    BY <1>18, <2>1, <2>3 DEF Preflight, Proceed
  <2> QED
    BY <2>2, <2>3
<1>19. CASE Prepare
  BY <1>19 DEF Prepare, Resume, Record
<1>20. CASE PrepareFails
  BY <1>20 DEF PrepareFails
<1>21. CASE Commit
  BY <1>21 DEF Commit, Resume, Record
<1>22. CASE Drop
  BY <1>22 DEF Drop, Resume, Record
<1>23. CASE SendSettings
  BY <1>23 DEF SendSettings, Step
<1>24. CASE Ensure
  BY <1>24 DEF Ensure
<1>25. CASE Push
  BY <1>25 DEF Push, Step
<1>26. CASE StopPump
  BY <1>26 DEF StopPump
<1>27. CASE CloseTransport
  BY <1>27 DEF CloseTransport, Step
<1>28. CASE StopOrigins
  BY <1>28 DEF StopOrigins
<1>29. ASSUME NEW p \in Remote, StartOrigin(p) PROVE Origins'
  BY <1>29 DEF StartOrigin, Step
<1>30. CASE OriginRaises
  BY <1>30 DEF OriginRaises, Step
<1>31. CASE StartPump
  BY <1>31 DEF StartPump
<1>32. CASE Interrupted
  BY <1>32 DEF Interrupted, Awaits
<1>33. CASE PumpStep \/ PumpFails
  BY <1>33 DEF PumpStep, PumpFails, PumpRuns, Around, PumpPush, PumpStreams, PumpRenews,
     PumpSuspended, PumpRetries, PumpCancelled, PumpResume, PumpSuspend
<1> QED
  BY <1>1, <1>2, <1>3, <1>4, <1>5, <1>6, <1>7, <1>8, <1>9, <1>10, <1>11, <1>12, <1>13, <1>14,
     <1>15, <1>16, <1>17, <1>18, <1>19, <1>20, <1>21, <1>22, <1>23, <1>24, <1>25, <1>26, <1>27,
     <1>28, <1>29, <1>30, <1>31, <1>32, <1>33
    DEF Next, Leave, PassStep

\* If no remote pipeline is rejected, the origins that run are of the group on
\* record, whenever the pump fails, reconnects or is replaced.  A rejected one
\* gets onto the payload when settings are sent, and the pump starts it.
THEOREM OnlyOriginsOfRecord ==
    ASSUME Unfit \cap Remote = {} PROVE Spec => []OriginsOfRecord
<1>1. Init => Origins
  BY DEF Init, Origins, Live, RemoteOf
<1>2. IInv /\ Origins /\ [Next]_vars => Origins'
  BY OriginsKept
<1>3. Origins => OriginsOfRecord
  BY DEF Origins, OriginsOfRecord
<1> QED
  BY <1>1, <1>2, <1>3, Invariance, PTL DEF Spec
=============================================================================
