---------------------------- MODULE Orchestrator ----------------------------
(***************************************************************************)
(* PipelinesOrchestrator (runtime/pipelines/distributed/orchestrator.py):  *)
(* the passes that bring what runs to what is configured, and who asks for *)
(* them.                                                                   *)
(*                                                                         *)
(* A pass reads the stored configuration, prunes the local pipelines of    *)
(* demands that ended, checks the activation of what it wants to run, and  *)
(* replaces the local bundle, and the origins and the pump of the          *)
(* processing server.  It awaits all along: the configuration, the leases  *)
(* and the pump go on changing.  The polling loop and the API calls that   *)
(* open or end a demand take turns by a lock; stop() cancels the loop and  *)
(* takes everything down.                                                  *)
(*                                                                         *)
(* The bundle's own life is module Reconcile's and the pump's stream is    *)
(* module EventStream's: here a reconciliation prepares and commits, and a *)
(* pump starts and stops origins.  One processing server has the remote    *)
(* pipelines.                                                              *)
(***************************************************************************)
EXTENDS Naturals

CONSTANTS
    Local,        \* the pipelines of the configuration that run here
    Remote,       \* those that run on the processing server
    Demands,      \* the pipelines of result demands; they run here
    Configs,      \* what may be stored: pipelines, settings and compositions
    FirstConfig,  \* what is stored at startup
    Unfit,        \* the pipelines whose activation checks may fail
    MaxEdits,     \* bound: edits of the configuration and explicit reloads
    MaxAsks,      \* bound: API calls
    MaxFaults     \* bound: operations that fail and calls that are cancelled

Pipelines == Local \cup Remote \cup Demands
Nothing == "none"

ASSUME OrchestratorAssumption ==
    /\ Nothing \notin Pipelines
    /\ Local \cap Remote = {} /\ Demands \cap (Local \cup Remote) = {}
    /\ \A c \in Configs : c.pipelines \subseteq Local \cup Remote
    /\ FirstConfig \in Configs
    /\ Unfit \subseteq Pipelines
    /\ {MaxEdits, MaxAsks, MaxFaults} \subseteq Nat

VARIABLES
    stored,       \* the configuration of the store
    saving,       \* a request has saved it and not yet called trigger_reload()
    leased,       \* the demands whose lease is active
    edits,        \* how often it was edited, or a reload asked for (bound)
    turn,         \* who holds _reconcile_lock, or runs stop()
    loop,         \* where the polling loop is
    api,          \* the API call: what it asks for and where it is
    stop,         \* the _stop event
    interrupt,    \* the one whose turn it is has a cancellation to come
    at,           \* where the pass is
    snap,         \* the configuration the pass has read
    desired,      \* the pipelines it wants to run
    plan,         \* those of its reconciliation
    prunes,       \* how many prunes it has left
    left,         \* the origins it has to start
    lastPlan,     \* _last_sig
    failedPlan,   \* _failed_local_plan
    lastSettings, \* _last_settings_sig
    lastScene,    \* _last_activation_compositions
    lastRemote,   \* _last_remote_sig
    errors,       \* _activation_errors
    retry,        \* _activation_retry_requested
    bundle,       \* the pipelines of _local_bundle
    origins,      \* _pipelines
    pump,         \* where the pump of the server's handle is
    payload,      \* config_payload of the handle
    pushing,      \* the pump's copy of it
    serving,      \* the pipelines the processing server runs
    verdict,      \* pipeline -> how its last activation checks ended (history)
    confirmed,    \* the pipelines configured when the latest checks ended (history)
    asks, faults  \* how many so far (bounds)

world == <<stored, saving, leased, edits>>
who == <<turn, loop, api, stop>>
pass == <<snap, desired, plan, prunes, left>>
memory == <<lastPlan, failedPlan, lastSettings, lastScene, lastRemote, errors, retry>>
remote == <<origins, pump, payload, pushing, serving>>
history == <<verdict, confirmed>>
counts == <<asks, faults>>
vars == <<stored, saving, leased, edits, turn, loop, api, stop, interrupt, at, snap, desired, plan, prunes,
          left, lastPlan, failedPlan, lastSettings, lastScene, lastRemote, errors, retry,
          bundle, origins, pump, payload, pushing, serving, verdict, confirmed, asks, faults>>

NoPlan == {Nothing}
Awaits == {"read", "preflight", "ensure", "settings", "preparing", "committing", "dropping",
           "pumpWait", "closing", "originStop", "originStart", "push"}
Ends == {"returned", "raised"}
LocalOf(P) == P \cap (Local \cup Demands)
RemoteOf(P) == P \cap Remote
Running == bundle \ NoPlan
Idle == turn = Nothing
Allowed(P) == {p \in P : p \in Demands => p \in leased}
Fault == faults < MaxFaults /\ faults' = faults + 1

Init ==
    /\ stored = FirstConfig /\ saving = FALSE /\ leased = {} /\ edits = 0
    /\ turn = Nothing /\ loop = "queue" /\ stop = FALSE /\ interrupt = FALSE
    /\ api = [op |-> "open", demand |-> Nothing, at |-> "idle"]
    /\ at = Nothing
    /\ snap = FirstConfig /\ desired = {} /\ plan = {} /\ prunes = 0 /\ left = {}
    /\ lastPlan = NoPlan /\ failedPlan = <<>> /\ lastRemote = NoPlan
    /\ lastSettings = Nothing /\ lastScene = Nothing
    /\ errors = {} /\ retry = FALSE
    /\ bundle = NoPlan
    /\ origins = {} /\ pump = Nothing /\ payload = {} /\ pushing = {} /\ serving = {}
    /\ verdict = [p \in Pipelines |-> Nothing] /\ confirmed = {}
    /\ asks = 0 /\ faults = 0

(***************************************************************************)
(* What happens around the passes.                                         *)
(***************************************************************************)
\* trigger_reload(): the plan that failed may be tried again, and so may the
\* activations.  The event it sets only shortens the loop's sleep.
TriggerReload ==
    /\ failedPlan' = <<>>
    /\ retry' = (errors # {})
    /\ UNCHANGED <<lastPlan, lastSettings, lastScene, lastRemote, errors>>

\* The configuration changes.  A request of the API first runs the activation checks
\* of the pipeline it writes (validate_pipeline_activation) and changes nothing when
\* they fail: this is the outcome of one that passed, which a pipeline of Unfit does
\* at one moment and not at another, or an edit of the file that a reload follows.  A
\* request runs the lifecycle handlers of what was saved before trigger_reload().
Save(c) ==
    /\ ~stop /\ ~saving /\ edits < MaxEdits /\ edits' = edits + 1
    /\ c # stored /\ stored' = c /\ saving' = TRUE
    /\ UNCHANGED <<leased, who, interrupt, at, pass, memory, bundle, remote, history, counts>>

Saved ==
    /\ saving /\ saving' = FALSE
    /\ TriggerReload
    /\ UNCHANGED <<stored, leased, edits, who, interrupt, at, pass, bundle, remote, history, counts>>

\* A reload with no pipeline edited: a camera or an extension changed.
AskReload ==
    /\ ~stop /\ edits < MaxEdits /\ edits' = edits + 1
    /\ TriggerReload
    /\ UNCHANGED <<stored, saving, leased, who, interrupt, at, pass, bundle, remote, history, counts>>

\* A lease runs out, or access to its result is denied.
EndLease(d) ==
    /\ d \in leased /\ leased' = leased \ {d}
    /\ TriggerReload
    /\ UNCHANGED <<stored, saving, edits, who, interrupt, at, pass, bundle, remote, history, counts>>

\* The processing server restarts and forgets its configuration.
ServerRestart ==
    /\ serving # {} /\ Fault
    /\ serving' = {}
    /\ UNCHANGED <<world, who, interrupt, at, pass, memory, bundle, origins, pump, payload, pushing,
                   history, asks>>

(***************************************************************************)
(* Who makes a pass, and what comes after it.                              *)
(***************************************************************************)
\* An API call opens a demand, or releases one, and wants a pass.
Call(op, d) ==
    /\ ~stop /\ api.at \in {"idle", "answered", "refused"}
    /\ asks < MaxAsks /\ asks' = asks + 1
    /\ \/ op = "open" /\ d \notin leased /\ leased' = leased \cup {d}
       \/ op = "release" /\ d \in leased /\ leased' = leased \ {d}
    /\ api' = [op |-> op, demand |-> d, at |-> "queue"]
    /\ TriggerReload
    /\ UNCHANGED <<stored, saving, edits, turn, loop, stop, interrupt, at, pass, bundle, remote, history,
                   faults>>

\* The lock is free and one of those who wait takes it.
BeginPass(caller) ==
    /\ turn = Nothing
    /\ \/ caller = "loop" /\ loop = "queue"
       \/ caller = "api" /\ api.at \in {"queue", "again"}
    /\ turn' = caller /\ at' = "read"
    /\ UNCHANGED <<world, loop, api, stop, interrupt, pass, memory, bundle, remote, history, counts>>

\* The poll interval, or a reload, ends the sleep.
Wake ==
    /\ loop = "sleep"
    /\ loop' = IF stop THEN "done" ELSE "queue"
    /\ UNCHANGED <<world, turn, api, stop, interrupt, at, pass, memory, bundle, remote, history, counts>>

\* The request is cancelled while its pass is at an await.
CancelCall ==
    /\ turn = "api" /\ ~interrupt /\ at \in Awaits
    /\ Fault
    /\ interrupt' = TRUE
    /\ UNCHANGED <<world, who, at, pass, memory, bundle, remote, history, asks>>

\* What a pass knows is gone with it.
Forget == snap' = FirstConfig /\ desired' = {} /\ plan' = {} /\ prunes' = 0 /\ left' = {}

\* The loop logs what a pass raised; a cancellation ends it.
\* Mutant: an exception of a pass ends the loop.
LoopEndsOnError ==
    /\ turn = "loop" /\ at \in Ends
    /\ loop' = IF interrupt \/ at = "raised" THEN "done" ELSE "sleep"
    /\ Forget
    /\ turn' = Nothing /\ at' = Nothing /\ interrupt' = FALSE
    /\ UNCHANGED <<world, api, stop, memory, bundle, remote, history, counts>>
LoopLeaves ==
    /\ turn = "loop" /\ at \in Ends
    /\ loop' = IF interrupt THEN "done" ELSE "sleep"
    /\ Forget
    /\ turn' = Nothing /\ at' = Nothing /\ interrupt' = FALSE
    /\ UNCHANGED <<world, api, stop, memory, bundle, remote, history, counts>>

\* A call that opened a demand releases it again if the pass raised, or if the
\* bundle has not its pipeline; if the lease ended, another pass comes first.
CallLeaves ==
    LET d == api.demand
        opens == api.op = "open" /\ api.at = "queue"
        lapsed == at = "returned" /\ opens /\ d \notin leased
        refused == opens /\ d \in leased /\ (at = "raised" \/ d \notin Running)
        good == at = "returned" /\ api.at = "queue"
    IN  /\ turn = "api" /\ at \in Ends
        /\ api' = [api EXCEPT !.at = IF lapsed THEN "again"
                                     ELSE IF refused \/ ~good THEN "refused" ELSE "answered"]
        /\ \/ refused /\ leased' = leased \ {d} /\ TriggerReload
           \/ ~refused /\ UNCHANGED <<leased, memory>>
        /\ turn' = Nothing /\ at' = Nothing /\ interrupt' = FALSE
        /\ Forget /\ UNCHANGED <<stored, saving, edits, loop, stop, bundle, remote, history, counts>>

(***************************************************************************)
(* A pass.  The cancellation of its caller is raised at the await; only a  *)
(* commit and the wait for the pump go on.                                 *)
(***************************************************************************)
\* Where the pass goes on, and when.
Step(here, next) == at = here /\ ~interrupt /\ at' = next

Read ==
    /\ Step("read", "prune")
    /\ snap' = stored /\ prunes' = 2
    /\ UNCHANGED <<world, who, interrupt, desired, plan, left, memory, bundle, remote,
                   history, counts>>

\* _prune_revoked_local_demands: the bundle is reconciled to the pipelines that
\* are still allowed, or stopped; if all are, nothing is done.
\* Mutant: nothing is pruned.
NeverPrune == bundle = bundle
NothingToPrune == bundle = NoPlan \/ Allowed(Running) = Running
Prune ==
    /\ at = "prune" /\ prunes > 0
    /\ \/ /\ NothingToPrune /\ prunes = 2
          /\ prunes' = 1 /\ UNCHANGED <<plan, at>>
       \/ /\ ~NothingToPrune
          /\ plan' = Allowed(Running)
          /\ at' = IF plan' = {} THEN "dropping" ELSE "preparing"
          /\ UNCHANGED prunes
    /\ UNCHANGED <<world, who, interrupt, snap, desired, left, memory, bundle, remote,
                   history, counts>>

\* What a pass does once it knows the activation errors errs.  Without a change
\* it sends the settings, or makes sure the server has its configuration.
Proceed(wanted, errs, fresh) ==
    LET accepted == Allowed(wanted \ errs)
        group == RemoteOf(accepted)
    IN  /\ plan' = accepted
        /\ \/ /\ wanted = lastPlan /\ ~fresh /\ snap.settings # lastSettings
              /\ \/ /\ group # {} /\ pump = Nothing
                    /\ at' = "returned" /\ UNCHANGED <<lastSettings, payload>>
                 \/ /\ group = {}
                    /\ at' = "returned" /\ lastSettings' = snap.settings /\ UNCHANGED payload
                 \/ /\ group # {} /\ pump # Nothing
                    /\ at' = "settings" /\ payload' = group /\ UNCHANGED lastSettings
              /\ UNCHANGED <<lastPlan, failedPlan>>
           \/ /\ wanted = lastPlan /\ ~fresh /\ snap.settings = lastSettings
              /\ at' = IF group = {} \/ pump = Nothing THEN "returned" ELSE "ensure"
              /\ UNCHANGED <<lastPlan, failedPlan, lastSettings, payload>>
           \/ /\ wanted # lastPlan \/ fresh
              /\ LocalOf(accepted) # {} \/ bundle # NoPlan
              /\ at' = IF LocalOf(accepted) # {} THEN "preparing" ELSE "dropping"
              /\ UNCHANGED <<lastPlan, failedPlan, lastSettings, payload>>
           \/ /\ wanted # lastPlan \/ fresh
              /\ LocalOf(accepted) = {} /\ bundle = NoPlan
              /\ lastPlan' = wanted /\ failedPlan' = <<>> /\ lastSettings' = snap.settings
              /\ at' = IF group = lastRemote THEN "returned" ELSE "pumpWait"
              /\ UNCHANGED payload

\* The demands that are still leased join the configured pipelines.
Decide ==
    LET wanted == snap.pipelines \cup leased
        check == \/ wanted # lastPlan \/ retry
                 \/ errors # {} /\ (snap.settings # lastSettings \/ snap.scene # lastScene)
    IN  /\ at = "prune" /\ (prunes = 0 \/ (prunes = 1 /\ NothingToPrune))
        /\ desired' = wanted /\ prunes' = 0
        /\ \/ /\ failedPlan = <<wanted, snap.settings>>
              /\ at' = "returned"
              /\ UNCHANGED <<plan, retry, lastPlan, failedPlan, lastSettings, payload>>
           \/ /\ failedPlan # <<wanted, snap.settings>> /\ check
              /\ at' = "preflight" /\ retry' = FALSE
              /\ UNCHANGED <<plan, lastPlan, failedPlan, lastSettings, payload>>
           \/ /\ failedPlan # <<wanted, snap.settings>> /\ ~check
              /\ Proceed(wanted, errors, FALSE)
              /\ UNCHANGED retry
        /\ UNCHANGED <<world, who, interrupt, snap, left, lastScene, lastRemote, errors, bundle,
                       origins, pump, pushing, serving, history, counts>>

\* Every pipeline is validated, cameras and models asked; bad are those that
\* fail.  A configuration saved meanwhile ends the pass.
\* Mutant: the configuration is not read again.
PreflightTrusting(bad) ==
    /\ at = "preflight" /\ ~interrupt
    /\ errors' = bad
    /\ verdict' = [p \in Pipelines |-> IF p \in bad THEN "failed"
                                       ELSE IF p \in desired THEN "passed" ELSE verdict[p]]
    /\ confirmed' = stored.pipelines
    /\ lastScene' = snap.scene
    /\ Proceed(desired, bad, TRUE)
    /\ UNCHANGED <<world, who, interrupt, snap, desired, prunes, left, lastRemote, retry, bundle,
                   origins, pump, pushing, serving, counts>>
Preflight(bad) ==
    /\ at = "preflight" /\ ~interrupt
    /\ errors' = bad
    /\ verdict' = [p \in Pipelines |-> IF p \in bad THEN "failed"
                                       ELSE IF p \in desired THEN "passed" ELSE verdict[p]]
    /\ confirmed' = stored.pipelines
    /\ \/ /\ stored # snap
          /\ retry' = TRUE /\ at' = "returned"
          /\ UNCHANGED <<plan, lastPlan, failedPlan, lastSettings, lastScene, payload>>
       \/ /\ stored = snap
          /\ lastScene' = snap.scene
          /\ Proceed(desired, bad, TRUE)
          /\ UNCHANGED retry
    /\ UNCHANGED <<world, who, interrupt, snap, desired, prunes, left, lastRemote, bundle,
                   origins, pump, pushing, serving, counts>>

\* Once the local part runs, the plan is on record; then comes the remote part.
Record ==
    /\ lastPlan' = desired /\ failedPlan' = <<>> /\ lastSettings' = snap.settings
    /\ at' = IF RemoteOf(plan) = lastRemote THEN "returned" ELSE "pumpWait"
    /\ UNCHANGED <<lastScene, lastRemote, errors, retry>>

\* After a change of the bundle: a prune has come to its end, stop() or the plan.
Resume ==
    \/ turn = "stop" /\ at' = "stopped" /\ UNCHANGED <<prunes, memory>>
    \/ turn # "stop" /\ prunes > 0 /\ prunes' = prunes - 1 /\ at' = "prune" /\ UNCHANGED memory
    \/ turn # "stop" /\ prunes = 0 /\ Record /\ UNCHANGED prunes

\* The operators are prepared.  A first bundle is started; the running one is
\* reconciled by a commit that nothing interrupts.
Prepare ==
    /\ at = "preparing" /\ ~interrupt
    /\ \/ /\ bundle = NoPlan
          /\ bundle' = LocalOf(plan) /\ Resume
       \/ /\ bundle # NoPlan
          /\ at' = "committing" /\ UNCHANGED <<bundle, prunes, memory>>
    /\ UNCHANGED <<world, who, interrupt, snap, desired, plan, left, remote, history, counts>>

\* The plan does not compile, or an operator cannot be built or prepared.
\* Mutant: the running bundle is given up.
PrepareFailsDropping ==
    /\ at = "preparing" /\ ~interrupt /\ Fault
    /\ \/ prunes > 0 /\ at' = "raised" /\ UNCHANGED failedPlan
       \/ prunes = 0 /\ at' = "returned" /\ failedPlan' = <<desired, snap.settings>>
    /\ bundle' = NoPlan
    /\ UNCHANGED <<world, who, interrupt, pass, lastPlan, lastSettings, lastScene, lastRemote, errors,
                   retry, remote, history, asks>>
PrepareFails ==
    /\ at = "preparing" /\ ~interrupt /\ Fault
    /\ \/ prunes > 0 /\ at' = "raised" /\ UNCHANGED failedPlan
       \/ prunes = 0 /\ at' = "returned" /\ failedPlan' = <<desired, snap.settings>>
    /\ UNCHANGED <<world, who, interrupt, pass, lastPlan, lastSettings, lastScene, lastRemote, errors,
                   retry, bundle, remote, history, asks>>

Commit ==
    /\ at = "committing"
    /\ bundle' = LocalOf(plan)
    /\ \/ interrupt /\ at' = "raised" /\ UNCHANGED <<prunes, memory>>
       \/ ~interrupt /\ Resume
    /\ UNCHANGED <<world, who, interrupt, snap, desired, plan, left, remote, history, counts>>

\* The bundle is stopped.
Drop ==
    /\ at = "dropping" /\ ~interrupt
    /\ bundle' = NoPlan
    /\ Resume
    /\ UNCHANGED <<world, who, interrupt, snap, desired, plan, left, remote, history, counts>>

\* The settings are pushed, or the configuration again; a failure is logged.
SendSettings ==
    /\ Step("settings", "returned")
    /\ \/ serving' = payload /\ lastSettings' = snap.settings /\ UNCHANGED faults
       \/ Fault /\ UNCHANGED <<serving, lastSettings>>
    /\ UNCHANGED <<world, who, interrupt, pass, lastPlan, failedPlan, lastScene, lastRemote, errors,
                   retry, bundle, origins, pump, payload, pushing, history, asks>>

Ensure ==
    /\ at = "ensure" /\ ~interrupt
    /\ \/ Fault /\ at' = "returned" /\ UNCHANGED payload
       \/ RemoteOf(plan) \subseteq serving /\ at' = "returned" /\ UNCHANGED <<payload, faults>>
       \/ /\ ~(RemoteOf(plan) \subseteq serving)
          /\ at' = "push" /\ payload' = RemoteOf(plan) /\ UNCHANGED faults
    /\ UNCHANGED <<world, who, interrupt, pass, memory, bundle, origins, pump, pushing, serving,
                   history, asks>>

Push ==
    /\ Step("push", "returned")
    /\ \/ serving' = payload /\ UNCHANGED faults
       \/ Fault /\ UNCHANGED serving
    /\ UNCHANGED <<world, who, interrupt, pass, memory, bundle, origins, pump, payload, pushing,
                   history, asks>>

\* _stop_remote: the pump was cancelled and is waited for; the clause around
\* that wait takes a cancellation of the caller too.
\* Mutant: the origins are stopped before the pump is.
StopPumpLater ==
    /\ at = "pumpWait"
    /\ at' = "originStop"
    /\ interrupt' = FALSE
    /\ UNCHANGED <<world, who, pass, memory, bundle, remote, history, counts>>
StopPump ==
    /\ at = "pumpWait" /\ pump \in {Nothing, "over"}
    /\ at' = "closing"
    /\ interrupt' = FALSE
    /\ UNCHANGED <<world, who, pass, memory, bundle, remote, history, counts>>

\* Mutant: the handle of the server is kept.
CloseWithoutClear ==
    /\ Step("closing", "originStop")
    /\ UNCHANGED <<world, who, interrupt, pass, memory, bundle, remote, history, counts>>
CloseTransport ==
    /\ Step("closing", "originStop")
    /\ pump' = Nothing /\ payload' = {}
    /\ UNCHANGED <<world, who, interrupt, pass, memory, bundle, origins, pushing, serving, history,
                   counts>>

\* The origins are stopped, and the new group is on record before it starts.
StopOrigins ==
    /\ at = "originStop" /\ ~interrupt
    /\ origins' = {}
    /\ \/ /\ turn = "stop"
          /\ at' = IF bundle = NoPlan THEN "stopped" ELSE "dropping"
          /\ UNCHANGED <<left, lastRemote>>
       \/ /\ turn # "stop"
          /\ at' = "originStart" /\ left' = RemoteOf(plan) /\ lastRemote' = RemoteOf(plan)
    /\ UNCHANGED <<world, who, interrupt, snap, desired, plan, prunes, lastPlan, failedPlan,
                   lastSettings, lastScene, errors, retry, bundle, pump, payload, pushing, serving,
                   history, counts>>

\* An origin that does not compile is skipped.
StartOrigin(p) ==
    /\ Step("originStart", "originStart")
    /\ p \in left /\ left' = left \ {p}
    /\ \/ origins' = origins \cup {p} /\ UNCHANGED faults
       \/ Fault /\ UNCHANGED origins
    /\ UNCHANGED <<world, who, interrupt, snap, desired, plan, prunes, memory, bundle, pump,
                   payload, pushing, serving, history, asks>>

\* start() of an origin raises.
OriginRaises ==
    /\ left # {} /\ Step("originStart", "raised") /\ Fault
    /\ UNCHANGED <<world, who, interrupt, pass, memory, bundle, remote, history, asks>>

StartPump ==
    /\ at = "originStart" /\ ~interrupt /\ left = {}
    /\ \/ RemoteOf(plan) = {} /\ at' = "returned" /\ UNCHANGED <<pump, payload, pushing>>
       \/ /\ RemoteOf(plan) # {} /\ at' = "push"
          /\ pump' = "push" /\ payload' = RemoteOf(plan) /\ pushing' = RemoteOf(plan)
    /\ UNCHANGED <<world, who, interrupt, pass, memory, bundle, origins, serving, history, counts>>

\* CancelledError is raised at the await.
Interrupted ==
    /\ interrupt /\ at \in Awaits \ {"committing", "pumpWait"}
    /\ at' = "raised"
    /\ UNCHANGED <<world, who, interrupt, pass, memory, bundle, remote, history, counts>>

(***************************************************************************)
(* The pump of the processing server.                                      *)
(***************************************************************************)
PumpRuns == at # "pumpWait"
Around == <<world, who, interrupt, at, pass, memory, bundle, payload, history>>

PumpPush ==
    /\ PumpRuns /\ pump = "push"
    /\ serving' = pushing /\ pump' = "resume"
    /\ UNCHANGED <<Around, origins, pushing, counts>>

\* _resume_remote_origins: those that have none get an origin, until stop().
PumpResume(p) ==
    /\ PumpRuns /\ pump = "resume" /\ ~stop
    /\ p \in pushing \ origins
    /\ origins' = origins \cup {p}
    /\ UNCHANGED <<Around, pump, pushing, serving, counts>>

PumpStreams ==
    /\ PumpRuns /\ pump = "resume"
    /\ stop \/ pushing \subseteq origins
    /\ pump' = "stream"
    /\ UNCHANGED <<Around, origins, pushing, serving, counts>>

\* The push, an origin or the stream fails: all origins of the server stop.
PumpFails ==
    /\ PumpRuns /\ pump \in {"push", "resume", "stream"} /\ Fault
    /\ pump' = "suspend"
    /\ UNCHANGED <<Around, origins, pushing, serving, asks>>

\* A ready event of another epoch: they stop and start again.
PumpRenews ==
    /\ PumpRuns /\ pump = "stream" /\ serving = {}
    /\ pump' = "renew"
    /\ UNCHANGED <<Around, origins, pushing, serving, counts>>

\* _suspend_remote_origins, one by one.
PumpSuspend(p) ==
    /\ PumpRuns /\ pump \in {"suspend", "renew"}
    /\ p \in origins /\ origins' = origins \ {p}
    /\ UNCHANGED <<Around, pump, pushing, serving, counts>>

PumpSuspended ==
    /\ PumpRuns /\ pump \in {"suspend", "renew"} /\ origins = {}
    /\ pump' = IF pump = "renew" THEN "resume" ELSE "sleep"
    /\ UNCHANGED <<Around, origins, pushing, serving, counts>>

\* The backoff ends; the handle may have another configuration by now.
PumpRetries ==
    /\ PumpRuns /\ pump = "sleep"
    /\ pump' = "push" /\ pushing' = payload
    /\ UNCHANGED <<Around, origins, serving, counts>>

\* Mutant: the pump takes its cancellation for a failure of the stream.
PumpGoesOn ==
    /\ ~PumpRuns /\ pump \notin {Nothing, "over", "sleep"}
    /\ pump' = "sleep" /\ pushing' = {}
    /\ UNCHANGED <<Around, origins, serving, counts>>
PumpCancelled ==
    /\ ~PumpRuns /\ pump \notin {Nothing, "over"}
    /\ pump' = "over" /\ pushing' = {}
    /\ UNCHANGED <<Around, origins, serving, counts>>

PumpStep ==
    \/ PumpPush \/ PumpStreams \/ PumpRenews \/ PumpSuspended \/ PumpRetries \/ PumpCancelled
    \/ \E p \in Remote : PumpResume(p) \/ PumpSuspend(p)

(***************************************************************************)
(* stop().  The server has no request left when it is called.              *)
(***************************************************************************)
StopBegins ==
    /\ ~stop /\ ~saving /\ api.at \in {"idle", "answered", "refused"}
    /\ stop' = TRUE
    /\ \/ turn = "loop" /\ interrupt' = TRUE /\ UNCHANGED loop
       \/ turn # "loop" /\ loop' = "done" /\ UNCHANGED interrupt
    /\ UNCHANGED <<world, turn, api, at, pass, memory, bundle, remote, history, counts>>

StopAll ==
    /\ stop /\ loop = "done" /\ turn = Nothing
    /\ turn' = "stop" /\ at' = "pumpWait"
    /\ UNCHANGED <<world, loop, api, stop, interrupt, pass, memory, bundle, remote, history, counts>>

(***************************************************************************)
(* The specification.  A coroutine that is not suspended is not            *)
(* interleaved: what a caller does right after its pass belongs to it.     *)
(***************************************************************************)
PassStep ==
    \/ Read \/ Prune \/ Decide
    \/ \E bad \in SUBSET (Unfit \cap desired) : Preflight(bad)
    \/ Prepare \/ PrepareFails \/ Commit \/ Drop
    \/ SendSettings \/ Ensure \/ Push
    \/ StopPump \/ CloseTransport \/ StopOrigins
    \/ \E p \in Remote : StartOrigin(p)
    \/ OriginRaises \/ StartPump \/ Interrupted

Leave == LoopLeaves \/ CallLeaves

Next ==
    \/ Leave
    \/ /\ at \notin Ends
       /\ \/ \E c \in Configs : Save(c)
          \/ Saved \/ AskReload
          \/ \E d \in Demands : EndLease(d) \/ Call("open", d) \/ Call("release", d)
          \/ ServerRestart \/ Wake \/ CancelCall
          \/ \E c \in {"loop", "api"} : BeginPass(c)
          \/ PassStep \/ PumpStep \/ PumpFails
          \/ StopBegins \/ StopAll

\* The event loop runs what is ready, the lock serves its waiters in order, and
\* stop() is not postponed once it has begun.  Nothing else has to happen.
Fairness ==
    /\ WF_vars(Leave) /\ WF_vars(PassStep) /\ WF_vars(PumpStep) /\ WF_vars(Wake)
    /\ WF_vars(BeginPass("loop")) /\ SF_vars(BeginPass("api"))
    /\ WF_vars(StopAll)

Spec == Init /\ [][Next]_vars /\ Fairness

(***************************************************************************)
(* Properties.                                                             *)
(***************************************************************************)
\* The shape of the state.
TypeOK ==
    /\ stored \in Configs /\ snap \in Configs
    /\ leased \subseteq Demands
    /\ turn \in {Nothing, "loop", "api", "stop"}
    /\ loop \in {"queue", "sleep", "done"}
    /\ at \in Awaits \cup Ends \cup {Nothing, "prune", "stopped"}
    /\ {desired, plan, errors, Running} \subseteq SUBSET Pipelines
    /\ {origins, payload, pushing, serving, left} \subseteq SUBSET Remote
    /\ pump \in {Nothing, "push", "resume", "stream", "suspend", "renew", "sleep", "over"}
    /\ prunes \in 0..2

\* When the call that released a demand is answered, its pipeline does not run,
\* and while nobody opens it again it never does, whatever pass was under way.
ReleasedIsGone ==
    api.op = "release" /\ api.at = "answered" /\ api.demand \notin leased
        => api.demand \notin Running

\* A demand whose opening was answered runs for as long as it is leased: no
\* later pass that fails, is cancelled or is overtaken by an edit takes its
\* pipeline away, if its own activation checks do not fail.
AnsweredRuns ==
    ~stop /\ api.op = "open" /\ api.at = "answered" /\ api.demand \in leased \ Unfit
        => api.demand \in Running

\* What starts in the local bundle has passed its latest activation checks, and
\* was still configured when those ended: an edit while they waited for a camera
\* starts nothing of the configuration before it.
StartsConfirmed ==
    [][\A p \in Running' \ Running : verdict[p] = "passed" /\ p \in confirmed \cup Demands]_vars

\* Whatever origin runs is of the group on record: a pump that reconnects
\* brings no origin back while, or after, a pass replaces them.
OriginsOfRecord == origins \subseteq lastRemote

\* Once stop() is through, no bundle, no origin and no pump is left.
StopLeavesNothing ==
    at = "stopped" => bundle = NoPlan /\ origins = {} /\ pump = Nothing

\* The pipeline of a demand that ended does not run for ever, though prunes may
\* fail and the plan with it.
ReleasedStops ==
    \A d \in Demands : d \notin leased ~> (d \in leased \/ d \notin Running)

\* Every call is answered, and stop() returns, whatever the pump is doing.
CallsReturn ==
    /\ api.at = "queue" ~> api.at \in {"answered", "refused"}
    /\ stop ~> at = "stopped"

\* A pipeline rejected by its latest activation checks does not get into what the
\* processing server is sent.
RejectedStaysOut == [][\A p \in payload' \ payload : verdict'[p] # "failed"]_vars

=============================================================================
