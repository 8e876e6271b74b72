----------------------------- MODULE Occurrence -----------------------------
(***************************************************************************)
(* One occurrence of the activity history, from the pipelines that record  *)
(* it to the list a browser shows (runtime/notifications/occurrences.py,   *)
(* runtime.py, events.py and activity_media.py, runtime/pipelines/         *)
(* occurrence_sink.py, the stream of app.py and its client in              *)
(* frontend/src/ui/App.tsx).                                               *)
(*                                                                         *)
(* Everything is durable in one database and every operation on it is one  *)
(* transaction in a thread.  What follows a transaction is not in it: the  *)
(* upsert of the notification, the event that announces it, the deletion   *)
(* of the images, the event that withdraws what was erased.  Recorders,    *)
(* annotations, a person who erases or revokes, and the retention sweep    *)
(* interleave between those steps, and a restart may fall anywhere.        *)
(*                                                                         *)
(* The occurrence has one participant and one member, so a CLOSE of it     *)
(* closes the occurrence; its sink requests a (simulated) notice, so its   *)
(* notification is not silent and its events go to the global feed.        *)
(***************************************************************************)
EXTENDS Naturals, Sequences

CONSTANTS
    Recorders,    \* the sinks that may record it, one pipeline run each
    QueueSize,    \* the events the feed of a browser holds
    Setups        \* who takes part, and how often (see Setup)

(* A setup has the sinks and the browser that take part, what the sinks    *)
(* are configured to do, and bounds: whether the occurrence gets to its    *)
(* expiry, who sweeps (the periodic task, requests of the activity page),  *)
(* the contributions that reach the store, what a person asks for, the     *)
(* notifications of other sources and the lists the browser wants of       *)
(* itself, and the faults: restarts, dropped connections, failing steps.   *)
Sweepers == {"sweep", "request"}
Setup == [sinks : SUBSET Recorders, browser : BOOLEAN, sweeps : SUBSET Sweepers,
          captures : BOOLEAN, enrich : BOOLEAN, expires : BOOLEAN,
          records : Nat, asks : SUBSET {"erase", "revoke"}, others : Nat, faults : Nat]

None == "none"
(* Who works on an occurrence beside its recorders. *)
Others == {"annotator", "person"} \cup Sweepers

ASSUME OccurrenceAssumption ==
    /\ QueueSize \in Nat /\ QueueSize >= 2
    /\ Setups \subseteq Setup
    /\ Recorders \cap (Others \cup {None}) = {}

VARIABLES
    setup,        \* the setup of this behaviour
    doc,          \* its row of table occurrence
    due,          \* the clock has passed its expires_at
    delivery,     \* the status of its row of occurrence_delivery
    row,          \* what its notification says
    images,       \* its captures: kept, past their own expiry, or delete_pending
    job,          \* where each of those who work on it is
    courier,      \* the recorder that has a requested delivery to finish
    reference,    \* an annotation of its evidence is under way
    crops,        \* the recorders with a selected image in their capture queue
    lock,         \* who holds _occurrence_recorder_lock
    boot,         \* where the startup of the server is
    queue,        \* the queue of the browser's subscription
    wire,         \* the event its generator has sent to the browser
    connection,   \* whether its stream is open
    shown,        \* what the list of the browser shows of the occurrence
    timer,        \* a refresh of the list is scheduled
    page,         \* the request of the list
    lost,         \* what an error or a restart has cut off (history)
    records, asks, others, faults   \* how many so far (bounds)

store == <<doc, due, delivery, row, images>>
stream == <<queue, wire, connection>>
browser == <<shown, timer, page>>
process == <<courier, reference, crops, lock, boot>>
view == <<stream, browser>>
bounds == <<records, asks, others, faults>>
vars == <<setup, store, job, process, view, lost, bounds>>

(* What a document and a notification say: the revision and whether there  *)
(* are enrichments in it.  A card, which is what events and lists have of  *)
(* a notification, leaves them out (_to_public): it is a revision, or      *)
(* nothing, 0.                                                             *)
NoContent == [rev |-> 0, notes |-> FALSE]
Content == [rev : Nat, notes : BOOLEAN]
Projection(d) == [rev |-> d.rev, notes |-> d.notes]

Erased(d) == d.status \in {"deleted", "expired"}
Open(d) == d.status \in {"OPEN", "UPDATE"}
(* _save() gives every change of a document the next revision. *)
Saved(d) == [d EXCEPT !.rev = @ + 1]
(* What the checks of the transactions call unavailable. *)
Available == doc.status # None /\ ~Erased(doc) /\ ~due

Card(r) == r.rev

Event == [op : {"row"}, of : Nat]
    \cup [op : {"invalidate", "resync", "other", None}, of : {0}]
Plain(op) == [op |-> op, of |-> 0]
NoEvent == Plain(None)

Jobs == Recorders \cup Others
Places == {"idle", "recording", "publish", "announce", "receipt", "interrupt",
           "erase", "revoke", "withdraw", "callbacks", "remove", "maintain"}
Pages == [state : {None, "asked", "failed"}, of : {0}, early : {FALSE}]
    \cup [state : {"answered"}, of : Nat, early : BOOLEAN]
NoPage == [state |-> None, of |-> 0, early |-> FALSE]

TypeOK ==
    /\ doc \in [status : {None, "OPEN", "UPDATE", "CLOSE", "deleted", "expired"},
                rev : Nat, notes : BOOLEAN, allowed : BOOLEAN, observing : BOOLEAN]
    /\ due \in BOOLEAN
    /\ delivery \in {None, "requested", "confirmed", "unknown"}
    /\ row \in Content /\ shown \in Nat
    /\ images \in {None, "kept", "old", "pending"}
    /\ job \in [Jobs -> [at : Places, of : Nat]]
    /\ courier \in Recorders \cup {None} /\ lock \in Recorders \cup {None}
    /\ reference \in BOOLEAN /\ timer \in BOOLEAN
    /\ crops \subseteq Recorders
    /\ boot \in {"up", "expire", "deliveries", "close", "publish", "maintain"}
    /\ queue \in Seq(Event) /\ Len(queue) <= QueueSize
    /\ wire \in Event
    /\ connection \in {"open", "down"}
    /\ page \in Pages
    /\ lost \subseteq {"row", "images", "feed", "page"}

Idle == [w \in Jobs |-> [at |-> "idle", of |-> 0]]

Init ==
    /\ setup \in Setups
    /\ doc = [status |-> None, rev |-> 0, notes |-> FALSE, allowed |-> FALSE,
              observing |-> FALSE]
    /\ due = FALSE /\ delivery = None /\ row = NoContent /\ images = None
    /\ job = Idle /\ courier = None /\ reference = FALSE /\ crops = {} /\ lock = None
    /\ boot = "up"
    /\ queue = <<>> /\ wire = NoEvent /\ connection = "down"
    /\ shown = 0 /\ timer = FALSE
    /\ page = NoPage
    /\ lost = {}
    /\ records = 0 /\ asks = {} /\ others = 0 /\ faults = 0

At(w, where) == boot = "up" /\ job[w].at = where
MoveWith(w, where, rev) == job' = [job EXCEPT ![w] = [at |-> where, of |-> rev]]
Move(w, where) == MoveWith(w, where, 0)
Fault == faults < setup.faults /\ faults' = faults + 1

-----------------------------------------------------------------------------
(* Publishing: a transaction that upserts the notification from the        *)
(* document as it is then, and later, on the loop, an event.               *)

(* What follows in the job of `w' once it has published. *)
Then(w) ==
    IF w = lock \/ w \notin Recorders THEN "idle"
    ELSE IF w = courier THEN "receipt" ELSE "recording"

Publish(w) ==
    /\ At(w, "publish")
    /\ row' = IF Available THEN Projection(doc) ELSE row
    /\ IF Available
       THEN /\ MoveWith(w, "announce", doc.rev)
            /\ UNCHANGED lock
       ELSE /\ Move(w, Then(w))
            /\ lock' = IF lock = w THEN None ELSE lock
    /\ lost' = IF Available THEN lost \ {"row"} ELSE lost
    /\ UNCHANGED <<setup, doc, due, delivery, images, courier, reference, crops, boot, view, bounds>>

(* EventBroadcaster.publish: a queue that is full is emptied, and its      *)
(* reader told to fetch the history again.                                 *)
(* Mutant: the oldest event makes room, and nobody is told.                *)
PutOverOldest(q, e) == Append(IF Len(q) < QueueSize THEN q ELSE Tail(q), e)
Put(q, e) == IF Len(q) < QueueSize THEN Append(q, e) ELSE <<Plain("resync"), e>>
Broadcast(e) == queue' = IF connection = "open" THEN Put(queue, e) ELSE queue

Announce(w) ==
    /\ At(w, "announce")
    /\ Broadcast([op |-> "row", of |-> job[w].of])
    /\ Move(w, Then(w))
    /\ lock' = IF lock = w THEN None ELSE lock
    /\ UNCHANGED <<setup, store, courier, reference, crops, boot, wire, connection, browser, lost, bounds>>

-----------------------------------------------------------------------------
(* Recording.                                                              *)

(* prepare(): the sink registers itself as a recorder of the objective. *)
Register(r) ==
    /\ At(r, "idle") /\ lock = None /\ r \in setup.sinks
    /\ records < setup.records
    /\ Move(r, "recording")
    /\ UNCHANGED <<setup, store, process, view, lost, bounds>>

(* record() of a contribution: a new document, a change of the one there   *)
(* is, or nothing.  A `late' one is not newer than what was observed.      *)
Create(r, lifecycle) ==
    /\ doc.status = None /\ lifecycle # "CLOSE"
    /\ doc' = [status |-> "OPEN", rev |-> 1, notes |-> FALSE, allowed |-> TRUE,
               observing |-> TRUE]
    /\ delivery' = "requested" /\ courier' = r

Change(lifecycle, late) ==
    /\ Available /\ Open(doc)
    /\ doc' = Saved([doc EXCEPT !.status = IF lifecycle = "CLOSE" THEN "CLOSE" ELSE "UPDATE",
                                !.observing = @ \/ ~late])
    /\ UNCHANGED <<delivery, courier>>

(* The sink hands an image to its capture worker and asks for annotations  *)
(* of evidence that made a change.                                         *)
Record(r) ==
    /\ At(r, "recording") /\ records < setup.records
    /\ records' = records + 1
    /\ \E lifecycle \in {"OPEN", "UPDATE", "CLOSE"}, late \in BOOLEAN :
          /\ Create(r, lifecycle) \/ Change(lifecycle, late)
          /\ crops' = IF setup.captures /\ lifecycle # "CLOSE" THEN crops \cup {r} ELSE crops
          /\ reference' = (reference \/ (setup.enrich /\ Open(doc') /\ doc'.allowed))
    /\ Move(r, "publish")
    /\ UNCHANGED <<setup, due, row, images, lock, boot, view, lost, asks, others, faults>>

(* One that changes nothing (the occurrence is closed) leaves an image all *)
(* the same; what is refused leaves none and is no action here.            *)
RecordClosed(r) ==
    /\ At(r, "recording") /\ records < setup.records
    /\ Available /\ doc.status = "CLOSE" /\ setup.captures
    /\ records' = records + 1
    /\ crops' = crops \cup {r}
    /\ UNCHANGED <<setup, store, job, courier, reference, lock, boot, view, lost, asks, others, faults>>

(* finish_delivery(): the receipt of the simulated notice; an erased       *)
(* occurrence has no delivery left and the packet ends in an error.        *)
Receipt(r) ==
    /\ At(r, "receipt")
    /\ delivery' = IF delivery = "requested" THEN "confirmed" ELSE delivery
    /\ courier' = None
    /\ Move(r, "recording")
    /\ UNCHANGED <<setup, doc, due, row, images, reference, crops, lock, boot, view, lost, bounds>>

(* shutdown(): the pending record and the capture queue are waited for,    *)
(* then the recorder unregisters; the last one of its objective marks the  *)
(* occurrence interrupted, and keeps the lock until it is published.       *)
Registered(r) == job[r].at # "idle" /\ r # lock

(* Mutant: the recorder is still counted when it asks whether it is the last. *)
UnregisterCounted(r) ==
    /\ At(r, "recording") /\ r \notin crops /\ lock = None
    /\ Move(r, "idle") /\ UNCHANGED lock
    /\ UNCHANGED <<setup, store, courier, reference, crops, boot, view, lost, bounds>>

Unregister(r) ==
    /\ At(r, "recording") /\ r \notin crops /\ lock = None
    /\ IF \E other \in Recorders \ {r} : Registered(other)
       THEN Move(r, "idle") /\ UNCHANGED lock
       ELSE Move(r, "interrupt") /\ lock' = r
    /\ UNCHANGED <<setup, store, courier, reference, crops, boot, view, lost, bounds>>

(* Mutant: what is interrupted is not published. *)
InterruptSilently(r) ==
    /\ At(r, "interrupt")
    /\ doc' = IF Open(doc) /\ ~due /\ doc.observing
              THEN Saved([doc EXCEPT !.observing = FALSE]) ELSE doc
    /\ Move(r, "idle") /\ lock' = None
    /\ UNCHANGED <<setup, due, delivery, row, images, courier, reference, crops, boot, view, bounds, lost>>

Interrupt(r) ==
    /\ At(r, "interrupt")
    /\ IF Open(doc) /\ ~due /\ doc.observing
       THEN /\ doc' = Saved([doc EXCEPT !.observing = FALSE])
            /\ Move(r, "publish") /\ UNCHANGED lock
       ELSE Move(r, "idle") /\ lock' = None /\ UNCHANGED doc
    /\ UNCHANGED <<setup, due, delivery, row, images, courier, reference, crops, boot, view, lost, bounds>>

(* capture_occurrence(): the document is read and the image added under    *)
(* the lock of the store.                                                  *)
(* Mutant: it is added for whatever document there was. *)
CaptureAnyway(r) ==
    /\ boot = "up" /\ r \in crops
    /\ images' = "kept"
    /\ crops' = crops \ {r}
    /\ UNCHANGED <<setup, doc, due, delivery, row, job, courier, reference, lock, boot, view, lost, bounds>>

Capture(r) ==
    /\ boot = "up" /\ r \in crops
    /\ images' = IF Available THEN "kept" ELSE images
    /\ crops' = crops \ {r}
    /\ UNCHANGED <<setup, doc, due, delivery, row, job, courier, reference, lock, boot, view, lost, bounds>>

(* enrich(): the annotation of an earlier contribution, refused when the   *)
(* enrichment was revoked since (privacy_revision and enrichment_allowed   *)
(* change together).                                                       *)
(* Mutant: the transaction trusts the check of the gate. *)
EnrichTrusting ==
    /\ At("annotator", "idle") /\ reference
    /\ reference' = FALSE
    /\ IF Available
       THEN /\ doc' = Saved([doc EXCEPT !.notes = TRUE])
            /\ Move("annotator", "publish")
       ELSE UNCHANGED <<doc, job>>
    /\ UNCHANGED <<setup, due, delivery, row, images, courier, crops, lock, boot, view, lost, bounds>>

Enrich ==
    /\ At("annotator", "idle") /\ reference
    /\ reference' = FALSE
    /\ IF Available /\ doc.allowed
       THEN /\ doc' = Saved([doc EXCEPT !.notes = TRUE])
            /\ Move("annotator", "publish")
       ELSE UNCHANGED <<doc, job>>
    /\ UNCHANGED <<setup, due, delivery, row, images, courier, crops, lock, boot, view, lost, bounds>>

-----------------------------------------------------------------------------
(* Erasing and revoking: asked for at the revision a person has seen.      *)

Ask ==
    /\ At("person", "idle") /\ Available
    /\ \E what \in setup.asks \ asks :
          asks' = asks \cup {what} /\ MoveWith("person", what, doc.rev)
    /\ UNCHANGED <<setup, store, process, view, lost, records, others, faults>>

Tombstone(reason) == [status |-> reason, rev |-> doc.rev + 1, notes |-> FALSE,
                      allowed |-> FALSE, observing |-> FALSE]
(* The transaction of erase(): the tombstone replaces the document, and    *)
(* the notification and the delivery go with it.                           *)
EraseRows(reason) ==
    /\ doc' = Tombstone(reason)
    /\ row' = NoContent /\ delivery' = None

Erase ==
    /\ At("person", "erase")
    /\ IF doc.rev = job["person"].of /\ ~Erased(doc)
       THEN EraseRows("deleted") /\ MoveWith("person", "withdraw", row.rev)
       ELSE Move("person", "idle") /\ UNCHANGED <<doc, row, delivery>>
    /\ UNCHANGED <<setup, due, images, process, view, lost, bounds>>

(* revoke_enrichment() also scrubs the notification. *)
Scrubbed(d) == Saved([d EXCEPT !.notes = FALSE, !.allowed = FALSE])
Revoke ==
    /\ At("person", "revoke")
    /\ IF doc.rev = job["person"].of /\ Available
       THEN /\ doc' = Scrubbed(doc)
            /\ row' = IF row = NoContent THEN row ELSE Projection(Scrubbed(doc))
            /\ MoveWith("person", "withdraw", row.rev)
       ELSE Move("person", "idle") /\ UNCHANGED <<doc, row>>
    /\ UNCHANGED <<setup, due, delivery, images, process, view, lost, bounds>>

(* _invalidate_occurrence(): what the feed still holds of the notification *)
(* is discarded and its withdrawal published, then the callbacks of the    *)
(* orchestrator and the extensions run.                                    *)
(* (SelectSeq, spelt out so that it can be reasoned about.)                *)
Discard(q) ==
    LET upTo[k \in 0..Len(q)] ==
            IF k = 0 THEN <<>>
            ELSE IF q[k].op \in {"row", "invalidate"} THEN upTo[k - 1]
            ELSE Append(upTo[k - 1], q[k])
    IN  upTo[Len(q)]

Withdraw(w) ==
    /\ At(w, "withdraw")
    /\ IF job[w].of = 0
       THEN UNCHANGED queue
       ELSE queue' = IF connection = "open"
                     THEN Put(Discard(queue), Plain("invalidate")) ELSE queue
    /\ Move(w, "callbacks")
    /\ UNCHANGED <<setup, store, process, wire, connection, browser, lost, bounds>>

CallbacksReturn ==
    /\ At("person", "callbacks")
    /\ Move("person", IF Erased(doc) THEN "remove" ELSE "publish")
    /\ UNCHANGED <<setup, store, process, view, lost, bounds>>

(* A callback that raises ends the request: an erased occurrence keeps its *)
(* images.                                                                 *)
CallbackRaises ==
    /\ At("person", "callbacks") /\ Fault
    /\ Move("person", "idle")
    /\ lost' = IF Erased(doc) THEN lost \cup {"images"} ELSE lost
    /\ UNCHANGED <<setup, store, process, view, records, asks, others>>

(* ActivityMediaStore: a file that cannot be deleted stays indexed, as     *)
(* delete_pending.                                                         *)
RemoveImages ==
    /\ At("person", "remove")
    /\ \/ images' = None /\ UNCHANGED faults
       \/ images # None /\ Fault /\ images' = "pending"
    /\ Move("person", "idle")
    /\ UNCHANGED <<setup, doc, due, delivery, row, process, view, lost, records, asks, others>>

-----------------------------------------------------------------------------
(* Retention.                                                              *)

(* The clock passes the expiry of the images, and of the occurrence.       *)
ImagesExpire ==
    /\ images = "kept" /\ images' = "old"
    /\ UNCHANGED <<setup, doc, due, delivery, row, job, process, view, lost, bounds>>

Expire ==
    /\ doc.status # None /\ ~Erased(doc) /\ ~due /\ setup.expires
    /\ due' = TRUE
    /\ images' = IF images = "kept" THEN "old" ELSE images
    /\ UNCHANGED <<setup, doc, delivery, row, job, process, view, lost, bounds>>

(* expire_occurrences() of the periodic task and of requests, which may    *)
(* overlap: the due occurrences are listed, each is erased at its listed   *)
(* revision, their images are removed, the media maintained, and only then *)
(* are they withdrawn.                                                     *)
SweepBegins(s) ==
    /\ At(s, "idle") /\ s \in setup.sweeps
    /\ IF due /\ ~Erased(doc)
       THEN MoveWith(s, "erase", doc.rev)
       ELSE images \in {"old", "pending"} /\ Move(s, "maintain")
    /\ UNCHANGED <<setup, store, process, view, lost, bounds>>

SweepErases(s) ==
    /\ At(s, "erase")
    /\ IF doc.rev = job[s].of /\ ~Erased(doc)
       THEN EraseRows("expired") /\ MoveWith(s, "remove", row.rev)
       ELSE Move(s, "maintain") /\ UNCHANGED <<doc, row, delivery>>
    /\ UNCHANGED <<setup, due, images, process, view, lost, bounds>>

(* One file that cannot be deleted ends the sweep: what it erased is not   *)
(* withdrawn, by this sweep or a later one.                                *)
Deletable == IF images \in {"old", "pending"} THEN None ELSE images
SweepDeletes(s) ==
    \/ /\ At(s, "remove")
       /\ images' = None
       /\ MoveWith(s, "maintain", job[s].of)
    \/ /\ At(s, "maintain")
       /\ images' = Deletable
       /\ IF job[s].of = 0
          THEN Move(s, "idle")
          ELSE MoveWith(s, "withdraw", job[s].of)
SweepOfMedia(s) ==
    /\ SweepDeletes(s)
    /\ UNCHANGED <<setup, doc, due, delivery, row, process, view, lost, bounds>>

SweepStops(s) ==
    /\ \/ At(s, "remove") /\ images # None
       \/ At(s, "maintain") /\ images \in {"old", "pending"}
    /\ Fault
    /\ images' = "pending"
    /\ Move(s, "idle")
    /\ lost' = IF job[s].of = 0 THEN lost ELSE lost \cup {"feed"}
    /\ UNCHANGED <<setup, doc, due, delivery, row, process, view, records, asks, others>>

(* A callback that raises is raised after the others: it changes nothing.  *)
SweepEnds(s) ==
    /\ At(s, "callbacks")
    /\ Move(s, "idle")
    /\ UNCHANGED <<setup, store, process, view, lost, bounds>>

-----------------------------------------------------------------------------
(* The feed of the browser.                                                *)

Shows(card) == shown' = card
(* clearHistory(): the list is emptied and its requests are aborted. *)
Clear ==
    /\ Shows(0) /\ page' = NoPage
    /\ lost' = lost \ {"feed", "page"}

(* Mutant: the list is not refreshed when the stream opens. *)
ConnectOnly ==
    /\ boot = "up" /\ connection = "down" /\ setup.browser
    /\ connection' = "open"
    /\ UNCHANGED <<setup, store, job, process, queue, wire, browser, lost, bounds>>

(* onopen: the stream was down, so the list is refreshed in a while. *)
Connect ==
    /\ boot = "up" /\ connection = "down" /\ setup.browser
    /\ connection' = "open" /\ timer' = TRUE
    /\ UNCHANGED <<setup, store, job, process, queue, wire, shown, page, lost, bounds>>

(* Another source publishes a notification of its own. *)
OtherNotice ==
    /\ boot = "up" /\ connection = "open" /\ others < setup.others
    /\ others' = others + 1
    /\ Broadcast(Plain("other"))
    /\ UNCHANGED <<setup, store, job, process, wire, connection, browser, lost, records, asks, faults>>

(* The generator takes an event and asks event_visible(): a card goes out  *)
(* only if it is that of the notification now.                             *)
Visible(e) == e.op # "row" \/ e.of = Card(row)
Send ==
    /\ wire = NoEvent /\ queue # <<>>
    /\ queue' = Tail(queue)
    /\ wire' = IF Visible(Head(queue)) THEN Head(queue) ELSE NoEvent
    /\ UNCHANGED <<setup, store, job, process, connection, browser, lost, bounds>>

Receive ==
    /\ wire # NoEvent /\ wire' = NoEvent
    /\ \/ wire.op \in {"invalidate", "resync"} /\ Clear /\ timer' = TRUE
       \/ wire.op = "row" /\ Shows(wire.of) /\ UNCHANGED <<timer, page, lost>>
       \/ wire.op = "other" /\ UNCHANGED <<browser, lost>>
    /\ UNCHANGED <<setup, store, job, process, queue, connection, bounds>>

(* The list is requested when the timer fires, or when the browser wants   *)
(* it (a filter, at first); a new request aborts the one before.           *)
Refresh ==
    /\ \/ timer /\ timer' = FALSE /\ UNCHANGED others
       \/ /\ setup.browser /\ others < setup.others /\ others' = others + 1
          /\ UNCHANGED timer
    /\ page' = [NoPage EXCEPT !.state = "asked"]
    /\ UNCHANGED <<setup, store, job, process, stream, shown, lost, records, asks, faults>>

Answer ==
    /\ boot = "up" /\ page.state = "asked"
    /\ page' = [state |-> "answered", of |-> Card(row), early |-> connection = "down"]
    /\ UNCHANGED <<setup, store, job, process, stream, shown, timer, lost, bounds>>

(* The request fails: an error is shown until the next one, which nobody   *)
(* makes for the failure.                                                  *)
ListFails ==
    /\ page.state \in {"asked", "answered"} /\ Fault
    /\ page' = [NoPage EXCEPT !.state = "failed"]
    /\ UNCHANGED <<setup, store, job, process, stream, shown, timer, lost, records, asks, others>>

(* mergeNotificationPage(): what the page has replaces what is shown of    *)
(* it; what it has not stays.                                              *)
Arrive ==
    /\ page.state = "answered" /\ page' = NoPage
    /\ Shows(IF page.of = 0 THEN shown ELSE page.of)
    /\ lost' = IF page.early /\ page.of # 0 THEN lost \cup {"page"} ELSE lost
    /\ UNCHANGED <<setup, store, job, process, stream, timer, bounds>>

Disconnected ==
    /\ queue' = <<>> /\ wire' = NoEvent /\ connection' = "down"
    /\ Shows(0) /\ page' = NoPage /\ UNCHANGED timer

Disconnect ==
    /\ connection = "open" /\ Fault
    /\ Disconnected
    /\ lost' = lost \ {"feed", "page"}
    /\ UNCHANGED <<setup, store, job, process, records, asks, others>>

-----------------------------------------------------------------------------
(* A crash, and the startup of the server.                                 *)

Interrupts(w) == job[w].at = "publish"
Owes(w) == Erased(doc) /\ job[w].at \in {"withdraw", "callbacks", "remove"}
Crash ==
    /\ Fault
    /\ boot' = "expire"
    /\ job' = Idle /\ courier' = None /\ reference' = FALSE /\ crops' = {} /\ lock' = None
    /\ Disconnected
    /\ lost' = (lost \ {"feed", "page"})
                 \cup (IF boot = "publish" \/ \E w \in Jobs : Interrupts(w)
                       THEN {"row"} ELSE {})
                 \cup (IF \E w \in {"person"} \cup Sweepers : Owes(w) THEN {"images"} ELSE {})
    /\ UNCHANGED <<setup, store, records, asks, others>>

(* recover(): who would have finished a requested delivery is gone. *)
Unfinished(status) == IF status = "requested" THEN "unknown" ELSE status

(* expire_occurrences() before there is a media store, recover(), and the  *)
(* media's own maintenance, which fails the startup when it fails.         *)
Startup ==
    /\ \/ /\ boot = "expire" /\ boot' = "deliveries"
          /\ IF due /\ ~Erased(doc) THEN EraseRows("expired") ELSE UNCHANGED <<doc, row, delivery>>
          /\ UNCHANGED <<images, lost>>
       \/ /\ boot = "deliveries" /\ boot' = "close"
          /\ delivery' = Unfinished(delivery)
          /\ UNCHANGED <<doc, row, images, lost>>
       \/ /\ boot = "close"
          /\ IF Open(doc)
             THEN /\ doc' = Saved([doc EXCEPT !.status = "CLOSE"])
                  /\ boot' = "publish"
             ELSE boot' = "maintain" /\ UNCHANGED doc
          /\ UNCHANGED <<row, delivery, images, lost>>
       \/ /\ boot = "publish" /\ boot' = "maintain"
          /\ row' = IF Available THEN Projection(doc) ELSE row
          /\ lost' = IF Available THEN lost \ {"row"} ELSE lost
          /\ UNCHANGED <<doc, delivery, images>>
       \/ /\ boot = "maintain" /\ boot' = "up"
          /\ images' = Deletable
          /\ UNCHANGED <<doc, row, delivery, lost>>
    /\ UNCHANGED <<setup, due, job, courier, reference, crops, lock, view, bounds>>

StartupFails ==
    /\ boot = "maintain" /\ images \in {"old", "pending"} /\ Fault
    /\ images' = "pending" /\ boot' = "expire"
    /\ UNCHANGED <<setup, doc, due, delivery, row, job, courier, reference, crops, lock, view, lost, records, asks, others>>

-----------------------------------------------------------------------------
Recording(r) == Publish(r) \/ Announce(r) \/ Receipt(r) \/ Interrupt(r) \/ Capture(r)
Person == Publish("person") \/ Announce("person") \/ Erase \/ Revoke
    \/ Withdraw("person") \/ CallbacksReturn \/ RemoveImages
Sweep(s) == SweepErases(s) \/ SweepOfMedia(s) \/ Withdraw(s) \/ SweepEnds(s)
Page == Answer \/ Arrive

Next ==
    \/ \E r \in Recorders :
          Register(r) \/ Record(r) \/ RecordClosed(r) \/ Unregister(r) \/ Recording(r)
    \/ Enrich \/ Publish("annotator") \/ Announce("annotator")
    \/ Ask \/ Person \/ CallbackRaises
    \/ Expire \/ ImagesExpire
    \/ \E s \in Sweepers : SweepBegins(s) \/ Sweep(s) \/ SweepStops(s)
    \/ Connect \/ OtherNotice \/ Send \/ Receive \/ Refresh \/ Page \/ ListFails
    \/ Disconnect \/ Crash \/ Startup \/ StartupFails

Spec == Init /\ [][Next]_vars
(* Every transaction and every continuation on the loop is executed, the   *)
(* sweep comes back every minute, the clock goes on, and the browser       *)
(* reconnects and lets its timers fire and its requests end.  Nobody has   *)
(* to record, to leave or to ask for anything.                             *)
FairSpec ==
    /\ Spec
    /\ \A r \in Recorders : WF_vars(Recording(r))
    /\ WF_vars(Publish("annotator") \/ Announce("annotator"))
    /\ WF_vars(Person) /\ WF_vars(Startup) /\ WF_vars(ImagesExpire)
    /\ WF_vars(SweepBegins("sweep")) /\ \A s \in Sweepers : WF_vars(Sweep(s))
    /\ WF_vars(Send) /\ WF_vars(Receive) /\ WF_vars(Connect)
    /\ WF_vars(timer /\ Refresh) /\ WF_vars(Page)

-----------------------------------------------------------------------------
(* Invariants                                                              *)

(* Erased facts do not come back: an erased occurrence has no notification *)
(* and no delivery, and a revoked one has no enrichment in the document or *)
(* the notification, whatever was being recorded, annotated or published.  *)
NothingWithdrawnIsKept ==
    /\ Erased(doc) => row = NoContent /\ delivery = None
    /\ ~doc.allowed => ~doc.notes /\ ~row.notes

(* What a change of the document owes is done, or somebody is at it: its   *)
(* notification says what it says, and a requested delivery is settled.    *)
(* Only a restart between a change and its publication leaves the          *)
(* notification behind.                                                    *)
RowIsCurrent ==
    (/\ Available
     /\ \A w \in Jobs : job[w].at # "publish"
     /\ boot # "publish" /\ "row" \notin lost)
    => row = Projection(doc)
ChangesAreFollowedUp ==
    /\ RowIsCurrent
    /\ (boot = "up" /\ delivery = "requested") =>
           courier # None /\ job[courier].at \in {"publish", "announce", "receipt"}

(* Once the feed of an open stream is drained, the browser shows nothing   *)
(* of an erased occurrence: no snapshot, list or overflow brings it back.  *)
Drained ==
    /\ connection = "open" /\ queue = <<>> /\ wire = NoEvent
    /\ job["person"].at # "withdraw"
    /\ \A s \in Sweepers : job[s].at \notin {"remove", "maintain", "withdraw"}
WithdrawnIsHidden ==
    (Drained /\ lost \cap {"feed", "page"} = {} /\ Erased(doc)) => shown = 0

(* When nobody has its images left to remove, an erased occurrence has     *)
(* none, or one that is marked for deletion: no capture that was being     *)
(* written survives it.                                                    *)
ErasedHasNoImages ==
    (/\ Erased(doc)
     /\ \A w \in {"person"} \cup Sweepers : ~ Owes(w)
     /\ boot = "up" /\ "images" \notin lost)
    => images \in {None, "pending"}

(* An open occurrence is being observed only while a recorder of it is     *)
(* registered, or the last one is leaving: a pipeline that replaces        *)
(* another does not get it marked interrupted, and one that ends does.     *)
ObservedWhileRecorded ==
    (boot = "up" /\ Open(doc) /\ doc.observing /\ ~due) =>
        \E r \in Recorders : Registered(r) \/ job[r].at = "interrupt"

-----------------------------------------------------------------------------
(* Liveness                                                                *)

(* A notification that is there comes to be shown, unless it is withdrawn, *)
(* through dropped connections, overflows, dropped snapshots and restarts, *)
(* or the list has failed and the browser says so.                         *)
NoticesArrive ==
    (setup.browser /\ row # NoContent)
        ~> (shown # 0 \/ row = NoContent \/ page.state = "failed")
=============================================================================
