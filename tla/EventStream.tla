----------------------------- MODULE EventStream -----------------------------
(***************************************************************************)
(* The event stream from a processing server to the origin: numbering,     *)
(* replay and acknowledgement in ProcessingServerRuntime                   *)
(* (distributed/processing_server.py), the checks of the transport         *)
(* (distributed/transport.py), and the pump of the orchestrator that       *)
(* pushes the configuration, reads the stream and fills the inbox of the   *)
(* origin pipeline (distributed/orchestrator.py).                          *)
(*                                                                         *)
(* The event epoch and the stream instance of the server are drawn anew    *)
(* together: both are one number here.  Either end may restart at any      *)
(* time, a connection loses what it carries when it breaks, and the        *)
(* request of an acknowledgement may be lost or arrive late.               *)
(***************************************************************************)
EXTENDS Naturals, Sequences, FiniteSets

CONSTANTS
    Streams,       \* which streams there may be: private ones (TRUE), public ones (FALSE)
    Kinds,         \* kinds of events the server publishes on a private and on a public stream
    MaxReplay,     \* _replay_events.maxlen
    QueueSize,     \* the queue of a subscriber of the broadcaster
    InboxSize,     \* the inbox of the origin pipeline
    WireSize,      \* how many messages the connection buffers
    \* bounds, of a public and of a private stream:
    MaxEvents,     \* events published in an epoch
    MaxEpochs,     \* epochs
    MaxBreaks,     \* connections that break
    MaxRestarts    \* restarts of the origin

ASSUME StreamAssumption ==
    /\ Streams \subseteq BOOLEAN
    /\ Kinds \in [BOOLEAN -> SUBSET {"packet", "batch", "large"}]
    /\ MaxReplay \in Nat \ {0} /\ QueueSize \in Nat \ {0, 1}
    /\ InboxSize \in Nat \ {0} /\ WireSize \in Nat \ {0}
    /\ {MaxEvents, MaxBreaks, MaxRestarts} \subseteq [BOOLEAN -> Nat]
    /\ MaxEpochs \in [BOOLEAN -> Nat \ {0}]

Epochs == UNION {1..MaxEpochs[s] : s \in Streams}
Numbers == UNION {1..MaxEvents[s] : s \in Streams}

VARIABLES
    private,    \* the pipelines of the server carry private artifacts
    \* the server
    epoch,      \* _event_epoch and _stream_instance_id
    published,  \* epoch -> _event_seq
    replay,     \* _replay_events
    acked,      \* _last_acked_event_id
    failed,     \* _private_error is set
    synced,     \* the bundle of the origin's configuration is active
    \* one connection
    live,       \* the generator of the response runs
    serving,    \* stream_epoch of a public stream, stream_instance_id of a private one
    cursor,     \* cursor of a private stream
    snapshot,   \* the replay of a public stream
    queue,      \* its queue at the broadcaster
    wire,       \* what was sent and not read
    acks,       \* the acknowledgements under way
    \* the origin
    pump,       \* where the pump is
    known,      \* event_epoch of the pump, or the instance its transport adopted
    cur,        \* last_event_id
    inbox,      \* the inbox of the origin pipeline
    \* history and bounds
    handled,    \* the events the pump handled since it was created, in order
    admitted,   \* the events any pump handled
    lost,       \* the events a full replay or a full queue dropped
    breaks, restarts

serverVars == <<epoch, published, replay, acked, failed, synced>>
connVars == <<live, serving, cursor, snapshot, queue, wire>>
pumpVars == <<pump, known, cur, inbox>>
historyVars == <<handled, admitted, lost>>
vars == <<private, epoch, published, replay, acked, failed, synced, live, serving, cursor, snapshot, queue,
          wire, acks, pump, known, cur, inbox, handled, admitted, lost, breaks, restarts>>

Event == [epoch : Epochs, id : Numbers, kind : Kinds[private]]
Ready(e) == [epoch |-> e, id |-> 0, kind |-> "ready"]
ContinuityError == [epoch |-> 0, id |-> 0, kind |-> "error"]
Mark == [epoch |-> 0, id |-> 0, kind |-> "mark"]
Name(event) == <<event.epoch, event.id>>

\* The events with a number above n, of a sequence in the order of the numbers.
Above(n, events) ==
    LET below == {k \in DOMAIN events : events[k].id <= n}
    IN  SubSeq(events, Cardinality(below) + 1, Len(events))

(***************************************************************************)
(* The server                                                              *)
(***************************************************************************)
\* A queue that is full is emptied: a resync mark and the event stay.
Enqueue(q, event) == IF Len(q) < QueueSize THEN Append(q, event) ELSE <<Mark, event>>
Dropped(q) == IF Len(q) < QueueSize THEN {} ELSE {Name(q[k]) : k \in DOMAIN q}

\* A deque at its maxlen drops its first element.
Evict == IF Len(replay) = MaxReplay THEN Tail(replay) ELSE replay
Evicted == IF Len(replay) = MaxReplay THEN {Name(Head(replay))} ELSE {}

\* A subscriber gets a mark instead of an event over the size limit of the broadcaster.
Outgoing(event) == IF event.kind = "large" THEN Mark ELSE event

PublishPublic(event) ==
    /\ ~private
    /\ replay' = Append(Evict, event)
    /\ IF live
       THEN /\ queue' = Enqueue(queue, Outgoing(event))
            /\ lost' = lost \cup Evicted \cup Dropped(queue)
                           \cup (IF Outgoing(event) = Mark THEN {Name(event)} ELSE {})
       ELSE UNCHANGED queue /\ lost' = lost \cup Evicted
    /\ UNCHANGED failed

PublishPrivate(event) ==
    /\ private
    /\ IF failed THEN UNCHANGED <<replay, failed, lost>>
       ELSE IF event.kind = "large" THEN failed' = TRUE /\ UNCHANGED <<replay, lost>>
       ELSE replay' = Append(Evict, event) /\ lost' = lost \cup Evicted /\ UNCHANGED failed
    /\ UNCHANGED queue

\* The bundle publishes.  One that an edit outdated still runs, but the pump pushes
\* before it reads, which replaces it.
Publish(kind) ==
    LET event == [epoch |-> epoch, id |-> published[epoch] + 1, kind |-> kind]
    IN  /\ synced /\ published[epoch] < MaxEvents[private]
        /\ published' = [published EXCEPT ![epoch] = @ + 1]
        /\ PublishPublic(event) \/ PublishPrivate(event)
        /\ UNCHANGED <<epoch, acked, synced, live, serving, cursor, snapshot, wire, acks,
                       pumpVars, handled, admitted, breaks, restarts>>

\* stop(): the counters and the replay are cleared and the epoch is drawn anew.
Reset ==
    /\ epoch < MaxEpochs[private]
    /\ epoch' = epoch + 1
    /\ replay' = <<>> /\ acked' = 0 /\ failed' = FALSE
    /\ UNCHANGED published

\* Subscribers are woken before and after the reset.
\* Mutant: they are not.
QuietReset == UNCHANGED queue
WakeSubscribers ==
    queue' = IF live /\ ~private THEN Enqueue(Enqueue(queue, Mark), Mark) ELSE queue

\* apply_config(): the bundle is replaced if the configuration is another one;
\* its start may fail, and the next push tries again.
Apply(started) ==
    IF synced THEN started /\ UNCHANGED <<serverVars, queue, lost>>
    ELSE /\ Reset
         /\ synced' = started
         /\ WakeSubscribers
         /\ UNCHANGED lost

\* The generator of a public stream: the current epoch, then the replay, then the
\* queue, without what belongs to another epoch.
Announce ==
    /\ live /\ ~private /\ serving = 0 /\ Len(wire) < WireSize
    /\ serving' = epoch
    /\ wire' = Append(wire, Ready(epoch))
    /\ UNCHANGED <<serverVars, live, cursor, snapshot, queue, acks, pumpVars, historyVars,
                   breaks, restarts>>

Sent(event) ==
    (IF serving # epoch THEN <<Ready(epoch)>> ELSE <<>>)
        \o (IF event.epoch = epoch THEN <<event>> ELSE <<>>)

SendPublic ==
    /\ live /\ ~private /\ serving # 0 /\ Len(wire) < WireSize
    /\ \/ /\ snapshot # <<>>
          /\ wire' = wire \o Sent(Head(snapshot))
          /\ snapshot' = Tail(snapshot) /\ UNCHANGED queue
       \/ /\ snapshot = <<>> /\ queue # <<>>
          /\ wire' = wire \o Sent(Head(queue))
          /\ queue' = Tail(queue) /\ UNCHANGED snapshot
    /\ serving' = epoch
    /\ UNCHANGED <<serverVars, live, cursor, acks, pumpVars, historyVars, breaks, restarts>>

\* next_private_event(): the event after the cursor, or why there is none.
Unavailable ==
    \/ serving # epoch
    \/ failed
    \/ cursor > published[epoch] \/ cursor < acked
    \/ cursor < published[epoch] /\ \A k \in DOMAIN replay : replay[k].id # cursor + 1
\* Mutant: the last event is held back.
HasNextButOne == cursor + 1 < published[epoch]
HasNext == cursor < published[epoch]

SendPrivate ==
    /\ live /\ private /\ Len(wire) < WireSize
    /\ ~Unavailable /\ HasNext
    /\ \E k \in DOMAIN replay : replay[k].id = cursor + 1 /\ wire' = Append(wire, replay[k])
    /\ cursor' = cursor + 1
    /\ UNCHANGED <<serverVars, live, serving, snapshot, queue, acks, pumpVars, historyVars,
                   breaks, restarts>>

SendError ==
    /\ live /\ private /\ Len(wire) < WireSize
    /\ Unavailable
    /\ wire' = Append(wire, ContinuityError)
    /\ live' = FALSE
    /\ UNCHANGED <<serverVars, serving, cursor, snapshot, queue, acks, pumpVars, historyVars,
                   breaks, restarts>>

\* ack(): what is acknowledged leaves the replay, unless it is of another epoch.
\* Mutant: the epoch is not compared.
AcknowledgeAnyEpoch(a) ==
    IF a.id > acked
    THEN acked' = a.id /\ replay' = Above(a.id, replay)
    ELSE UNCHANGED <<acked, replay>>
Acknowledge(a) ==
    IF a.epoch = epoch /\ a.id > acked
    THEN acked' = a.id /\ replay' = Above(a.id, replay)
    ELSE UNCHANGED <<acked, replay>>

(***************************************************************************)
(* The pump                                                                *)
(***************************************************************************)
Disconnect ==
    /\ live' = FALSE /\ serving' = 0 /\ cursor' = 0
    /\ snapshot' = <<>> /\ queue' = <<>> /\ wire' = <<>>

\* The transport of a private stream asks for the instance before it pushes.
CheckStatus ==
    /\ pump = "down"
    /\ pump' = IF private /\ known \notin {0, epoch} THEN "suspended" ELSE "checked"
    /\ UNCHANGED <<serverVars, connVars, acks, known, cur, inbox, historyVars, breaks, restarts>>

\* push_config() answers, and a private transport adopts or compares the instance.
Adopted == IF private /\ known = 0 THEN epoch' ELSE known

Push ==
    /\ pump = "checked"
    /\ Apply(TRUE)
    /\ IF private
       THEN pump' = IF known \in {0, epoch'} THEN "pushed" ELSE "suspended"
       ELSE pump' = "pushed"
    /\ known' = Adopted
    /\ UNCHANGED <<live, serving, cursor, snapshot, wire, acks, cur, inbox, handled, admitted,
                   breaks, restarts>>

\* It fails, or its answer is lost: the pump waits and tries again.
PushFails ==
    /\ pump = "checked"
    /\ Apply(FALSE) \/ Apply(TRUE)
    /\ pump' = "down" /\ breaks < MaxBreaks[private] /\ breaks' = breaks + 1
    /\ UNCHANGED <<live, serving, cursor, snapshot, wire, acks, known, cur, inbox, handled,
                   admitted, restarts>>

\* The orchestrator pushes to a server that lost its configuration
\* (_ensure_remote_configs), whatever the pump does.  The transport is the pump's.
Ensure ==
    /\ ~synced /\ pump # "suspended"
    /\ private => known \in {0, epoch}
    /\ Apply(TRUE)
    /\ known' = Adopted
    /\ UNCHANGED <<live, serving, cursor, snapshot, wire, acks, pump, cur, inbox, handled,
                   admitted, breaks, restarts>>

\* replay_after(): the cursor counts only in its own epoch.
ReplayAfter(after, e) == Above(IF e \in {0, epoch} THEN after ELSE 0, replay)

\* stream_events(): the response starts.
\* Mutant: the cursor is not sent.
OpenWithoutCursor ==
    /\ pump = "pushed"
    /\ IF private /\ known # epoch
       THEN pump' = "suspended" /\ UNCHANGED connVars
       ELSE /\ pump' = "open"
            /\ live' = TRUE /\ wire' = <<>> /\ queue' = <<>>
            /\ serving' = IF private THEN epoch ELSE 0
            /\ cursor' = 0
            /\ snapshot' = IF private THEN <<>> ELSE ReplayAfter(cur, known)
    /\ UNCHANGED <<serverVars, acks, known, cur, inbox, historyVars, breaks, restarts>>
Open ==
    /\ pump = "pushed"
    /\ IF private /\ known # epoch
       THEN pump' = "suspended" /\ UNCHANGED connVars
       ELSE /\ pump' = "open"
            /\ live' = TRUE /\ wire' = <<>> /\ queue' = <<>>
            /\ serving' = IF private THEN epoch ELSE 0
            /\ cursor' = IF private THEN cur ELSE 0
            /\ snapshot' = IF private THEN <<>> ELSE ReplayAfter(cur, known)
    /\ UNCHANGED <<serverVars, acks, known, cur, inbox, historyVars, breaks, restarts>>

Read == pump = "open" /\ wire # <<>> /\ wire' = Tail(wire)

\* A new epoch: the origin pipelines are stopped and started, the cursor is reset.
\* Mutant: they are not.
AdoptKeepingOrigins ==
    /\ Read /\ Head(wire).kind = "ready"
    /\ known' = Head(wire).epoch
    /\ cur' = IF Head(wire).epoch # known THEN 0 ELSE cur
    /\ UNCHANGED <<serverVars, live, serving, cursor, snapshot, queue, acks, pump, inbox,
                   historyVars, breaks, restarts>>
Adopt ==
    /\ Read /\ Head(wire).kind = "ready"
    /\ known' = Head(wire).epoch
    /\ cur' = IF Head(wire).epoch # known THEN 0 ELSE cur
    /\ inbox' = IF Head(wire).epoch # known THEN <<>> ELSE inbox
    /\ UNCHANGED <<serverVars, live, serving, cursor, snapshot, queue, acks, pump,
                   historyVars, breaks, restarts>>

\* What is read is admitted if it is the next of a private stream, or a later one of
\* the known epoch of a public stream.
Expected(event) ==
    IF private THEN event.kind # "error" /\ event.id = cur + 1
    ELSE event.epoch = known /\ event.id > cur

\* A packet is put in the inbox, which blocks if it is private and else drops the
\* oldest; a batch of observability is applied on the spot.
Put(event) ==
    IF event.kind = "batch" THEN UNCHANGED inbox
    ELSE \/ Len(inbox) < InboxSize /\ inbox' = Append(inbox, event)
         \/ ~private /\ Len(inbox) = InboxSize /\ inbox' = Append(Tail(inbox), event)

\* Then the cursor moves and the pump acknowledges.
\* Mutant: the pump neither moves it nor waits for the acknowledgement.
AdmitKeepingCursor(event) ==
    /\ Put(event)
    /\ UNCHANGED cur
    /\ acks' = acks \cup {[epoch |-> known, id |-> event.id]}
    /\ pump' = "open"
    /\ handled' = Append(handled, Name(event))
    /\ admitted' = admitted \cup {Name(event)}
Admit(event) ==
    /\ Put(event)
    /\ cur' = event.id
    /\ acks' = acks \cup {[epoch |-> known, id |-> event.id]}
    /\ pump' = "acking"
    /\ handled' = Append(handled, Name(event))
    /\ admitted' = admitted \cup {Name(event)}

\* Otherwise a private stream is suspended; a public one skips an event of another
\* epoch and acknowledges once more what it handled already.
Refuse(event) ==
    /\ IF private THEN pump' = "suspended" /\ UNCHANGED acks
       ELSE IF event.epoch # known THEN UNCHANGED <<pump, acks>>
       ELSE pump' = "acking" /\ acks' = acks \cup {[epoch |-> known, id |-> cur]}
    /\ UNCHANGED <<cur, inbox, handled, admitted>>

Receive ==
    /\ Read /\ Head(wire).kind # "ready"
    /\ IF Expected(Head(wire)) THEN Admit(Head(wire)) ELSE Refuse(Head(wire))
    /\ UNCHANGED <<serverVars, live, serving, cursor, snapshot, queue, known, lost,
                   breaks, restarts>>

\* An acknowledgement arrives.  The pump may wait for it, or have given up.
Awaited(a) == pump = "acking" /\ a = [epoch |-> known, id |-> cur]
AckArrives(a) ==
    /\ a \in acks
    /\ Acknowledge(a)
    /\ acks' = acks \ {a}
    /\ pump' = IF ~Awaited(a) THEN pump
               ELSE IF private /\ a.epoch # epoch THEN "suspended" ELSE "open"
    /\ UNCHANGED <<epoch, published, failed, synced, connVars, known, cur, inbox, historyVars,
                   breaks, restarts>>

\* The request or the answer is lost, or late: the data stream goes on.
AckFails ==
    /\ pump = "acking" /\ breaks < MaxBreaks[private]
    /\ pump' = "open" /\ breaks' = breaks + 1
    /\ \/ UNCHANGED acks
       \/ acks' = acks \ {[epoch |-> known, id |-> cur]}
    /\ UNCHANGED <<serverVars, connVars, known, cur, inbox, historyVars, restarts>>

\* The stream ends: the origin pipelines of a public stream are stopped.
StreamEnds ==
    /\ pump = "open" /\ ~live /\ wire = <<>>
    /\ pump' = "down"
    /\ inbox' = IF private THEN inbox ELSE <<>>
    /\ UNCHANGED <<serverVars, connVars, acks, known, cur, historyVars, breaks, restarts>>

\* The source of the origin pipeline.
Take ==
    /\ inbox # <<>>
    /\ inbox' = Tail(inbox)
    /\ UNCHANGED <<serverVars, connVars, acks, pump, known, cur, historyVars, breaks, restarts>>

(***************************************************************************)
(* Failures, and the operator of the system.                               *)
(***************************************************************************)
\* The connection breaks: some of what it carries is not read.
Cut == \E k \in 0..Len(wire) : wire' = SubSeq(wire, 1, k)
Break ==
    /\ live /\ breaks < MaxBreaks[private]
    /\ breaks' = breaks + 1
    /\ live' = FALSE /\ Cut
    /\ snapshot' = <<>> /\ queue' = <<>>
    /\ UNCHANGED <<serverVars, serving, cursor, acks, pumpVars, historyVars, restarts>>

\* The server restarts, and has no pipelines.
Crash ==
    /\ Reset
    /\ synced' = FALSE
    /\ live' = FALSE /\ Cut
    /\ snapshot' = <<>> /\ queue' = <<>>
    /\ UNCHANGED <<serving, cursor, acks, pumpVars, historyVars, breaks, restarts>>

\* Somebody else reconfigures the server; connections stay.
Reconfigure ==
    /\ synced
    /\ Reset
    /\ synced' = FALSE
    /\ WakeSubscribers
    /\ UNCHANGED <<live, serving, cursor, snapshot, wire, acks, pumpVars, historyVars,
                   breaks, restarts>>

\* _stop_remote() and a new pump: the origin restarts, its pipelines are switched
\* off and on, or they are edited, which the server will see as another configuration.
Restart(edited) ==
    /\ restarts < MaxRestarts[private] /\ restarts' = restarts + 1
    /\ pump' = "down" /\ known' = 0 /\ cur' = 0 /\ inbox' = <<>>
    /\ synced' = (synced /\ ~edited)
    /\ Disconnect
    /\ handled' = <<>>
    /\ UNCHANGED <<epoch, published, replay, acked, failed, acks, admitted, lost, breaks>>

(***************************************************************************)
(* The specification.                                                      *)
(***************************************************************************)
Init ==
    /\ private \in Streams
    /\ epoch = 1 /\ published = [e \in Epochs |-> 0] /\ replay = <<>>
    /\ acked = 0 /\ failed = FALSE /\ synced = FALSE
    /\ live = FALSE /\ serving = 0 /\ cursor = 0
    /\ snapshot = <<>> /\ queue = <<>> /\ wire = <<>> /\ acks = {}
    /\ pump = "down" /\ known = 0 /\ cur = 0 /\ inbox = <<>>
    /\ handled = <<>> /\ admitted = {} /\ lost = {}
    /\ breaks = 0 /\ restarts = 0

PumpStep ==
    \/ CheckStatus \/ Push \/ Open \/ Adopt \/ Receive \/ StreamEnds
    \/ \E a \in acks : AckArrives(a)
ServerStep == Announce \/ SendPublic \/ SendPrivate \/ SendError

Next ==
    /\ UNCHANGED private
    /\ \/ \E kind \in Kinds[private] : Publish(kind)
       \/ PumpStep \/ ServerStep
       \/ PushFails \/ Ensure \/ AckFails \/ Take \/ Break \/ Crash \/ Reconfigure
       \/ \E edited \in BOOLEAN : Restart(edited)

Spec == Init /\ [][Next]_vars

\* The event loops of both ends run, requests are answered, and the source of the
\* origin pipeline reads its inbox.  Nobody has to publish, fail or restart.
FairSpec ==
    Spec /\ WF_vars(PumpStep /\ UNCHANGED private) /\ WF_vars(ServerStep /\ UNCHANGED private)
         /\ WF_vars(Take /\ UNCHANGED private)

(***************************************************************************)
(* Properties.                                                             *)
(***************************************************************************)
TypeOK ==
    /\ epoch \in Epochs /\ published \in [Epochs -> Numbers \cup {0}]
    /\ replay \in Seq(Event) /\ Len(replay) <= MaxReplay
    /\ acked \in Numbers \cup {0} /\ failed \in BOOLEAN /\ synced \in BOOLEAN
    /\ live \in BOOLEAN /\ serving \in Epochs \cup {0} /\ cursor \in Numbers \cup {0}
    /\ snapshot \in Seq(Event) /\ queue \in Seq(Event \cup {Mark}) /\ Len(queue) <= QueueSize
    /\ wire \in Seq(Event \cup {Ready(e) : e \in Epochs} \cup {ContinuityError})
    /\ acks \subseteq [epoch : Epochs, id : Numbers]
    /\ pump \in {"down", "checked", "pushed", "open", "acking", "suspended"}
    /\ known \in Epochs \cup {0} /\ cur \in Numbers \cup {0}
    /\ inbox \in Seq(Event) /\ Len(inbox) <= InboxSize
    /\ handled \in Seq(Epochs \X Numbers)
    /\ admitted \subseteq Epochs \X Numbers
    /\ lost \subseteq (Epochs \cup {0}) \X (Numbers \cup {0})
    /\ breaks \in 0..MaxBreaks[private] /\ restarts \in 0..MaxRestarts[private]

\* The pump handles events as EventContract says.
Contract == INSTANCE EventContract WITH gapless <- private, suspended <- (pump = "suspended")
KeepsContract == Contract!Spec

\* What the server forgets because it was acknowledged was admitted by the origin,
\* in the epoch of the server: a late acknowledgement of an earlier epoch, whose
\* numbers are the same, discards nothing.
AckFollowsAdmission ==
    acked > 0 => \A i \in 1..acked : <<epoch, i>> \in admitted \cup lost

\* The inbox never mixes observations from before and after a reset of the server.
InboxOfOneEpoch == \A k \in DOMAIN inbox : inbox[k].epoch = known

\* A private stream is suspended only for another instance of the server, an event
\* that was too large or a replay that lost the next event, or because the origin
\* restarted within the instance and begins before what an earlier pump
\* acknowledged.  A stream that only reconnects resumes.
SuspendedForCause ==
    pump = "suspended" =>
        known # epoch \/ failed \/ <<epoch, cur + 1>> \in lost \/ (restarts > 0 /\ cur < acked)

\* The origin of a public stream learns of the epoch of the server again and again, even
\* if the server is idle in it.
EpochIsAdopted == []<>(private \/ ~synced \/ known = epoch)

\* Every event of a private stream is admitted, or the stream is suspended, or the
\* server is reset.
AdmittedOrSuspended ==
    \A i \in Numbers :
        (private /\ published[epoch] >= i)
            ~> (published[epoch] < i \/ ~synced \/ pump = "suspended" \/ <<epoch, i>> \in admitted)
=============================================================================
