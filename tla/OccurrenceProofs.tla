-------------------------- MODULE OccurrenceProofs --------------------------
(***************************************************************************)
(* What a store of occurrences promises, for any recorders and setups.     *)
(*                                                                         *)
(* The inductive invariant says whom each loose end belongs to: who still  *)
(* publishes a change, who settles the delivery, who marks the             *)
(* interruption and who removes the images.  It is inductive because these *)
(* obligations change hands only within a transaction, and because a crash *)
(* puts on record (lost) what nobody takes up again.                       *)
(*                                                                         *)
(* A second one is about the feed: what a browser shows or is about to     *)
(* show of something erased has a withdrawal behind it, queued, on the     *)
(* wire, or owed by whoever erased it.                                     *)
(***************************************************************************)
EXTENDS Occurrence, TLAPS, WellFoundedInduction

-----------------------------------------------------------------------------
(* The inductive invariant.                                                *)

\* The documents.
Docs == [status : {None, "OPEN", "UPDATE", "CLOSE", "deleted", "expired"},
         rev : Nat, notes : BOOLEAN, allowed : BOOLEAN, observing : BOOLEAN]

\* The shape of what the argument is about.
Shape ==
    /\ setup \in Setups
    /\ doc \in Docs
    /\ job \in [Jobs -> [at : Places, of : Nat]]
    /\ row \in Content
    /\ lock \in Recorders \cup {None} /\ courier \in Recorders \cup {None}
    /\ boot \in {"up", "expire", "deliveries", "close", "publish", "maintain"}

\* Without an occurrence there is nothing to deliver.
Numbered ==
    /\ doc.status = None => doc.rev = 0 /\ courier = None /\ delivery = None
    /\ doc.status # None => doc.rev > 0

\* While the last recorder of an occurrence leaves, no other is at it, and once
\* the interruption is marked it stays so.  At startup nobody is at it.
Turns ==
    /\ \A r \in Recorders : job[r].at = "interrupt" => lock = r
    /\ lock # None =>
        /\ job[lock].at \in {"interrupt", "publish", "announce"}
        /\ \A r \in Recorders \ {lock} : job[r].at = "idle"
        /\ job[lock].at # "interrupt" => ~(Open(doc) /\ doc.observing)
    /\ boot # "up" => lock = None /\ \A w \in Jobs : job[w].at = "idle"
    /\ boot \in {"publish", "maintain"} => ~Open(doc)

\* A delivery that was requested has somebody at it.
Couriers ==
    /\ \A r \in Recorders : job[r].at = "receipt" => courier = r
    /\ courier # None => courier # lock /\ job[courier].at \in {"publish", "announce", "receipt"}
    /\ boot \in {"close", "publish", "maintain"} => delivery # "requested"
    /\ delivery = "requested" /\ boot = "up" => courier # None

\* The images of an erased occurrence are gone or marked, or somebody removes
\* them.
Images ==
    /\ images \in {None, "kept", "old", "pending"}
    /\ due => images # "kept"
    /\ (Erased(doc) /\ images \notin {None, "pending"} /\ "images" \notin lost) =>
        \/ job["person"].at \in {"withdraw", "callbacks", "remove"}
        \/ \E s \in Sweepers : job[s].at = "remove"
        \/ boot # "up" /\ due

IInv ==
    /\ Shape /\ Numbered /\ Turns /\ Couriers /\ Images
    /\ NothingWithdrawnIsKept /\ RowIsCurrent /\ ObservedWhileRecorded

-----------------------------------------------------------------------------
(* Names, jobs and documents.                                              *)

\* A job that changes keeps its shape, and no other one changes.
LEMMA MovesAreTyped ==
    ASSUME Shape, NEW w \in Jobs, NEW s \in Places, NEW c \in Nat,
           job' = [job EXCEPT ![w] = [at |-> s, of |-> c]]
    PROVE  /\ job' \in [Jobs -> [at : Places, of : Nat]]
           /\ job'[w].at = s
           /\ \A v \in Jobs \ {w} : job'[v] = job[v]
  BY DEF Shape

\* The recorders are none of the others, and None is nobody.
LEMMA Names ==
    /\ \A r \in Recorders : r \in Jobs /\ r \notin Others /\ r # None
    /\ Others \subseteq Jobs
    /\ NoContent \in Content
    /\ None \notin Others
    /\ "person" \in Others /\ "annotator" \in Others /\ Sweepers \subseteq Others
    /\ "person" \notin Sweepers
    /\ \A d \in Docs : Projection(d) \in Content
  BY OccurrenceAssumption DEF Jobs, Others, Sweepers, NoContent, Content, Docs, Projection, None

\* A saved document has the next revision and is otherwise the one given.
LEMMA SavedKeeps ==
    ASSUME NEW d \in Docs
    PROVE  /\ Saved(d) \in Docs /\ Saved(d).rev > 0
           /\ Saved(d).status = d.status /\ Saved(d).notes = d.notes
           /\ Saved(d).allowed = d.allowed /\ Saved(d).observing = d.observing
  BY DEF Saved, Docs

\* The documents that can be written are documents.
LEMMA ChangesAreDocs ==
    ASSUME NEW d \in Docs, NEW s \in {None, "OPEN", "UPDATE", "CLOSE", "deleted", "expired"},
           NEW b \in BOOLEAN, NEW c \in BOOLEAN
    PROVE  /\ [d EXCEPT !.status = s] \in Docs
           /\ [d EXCEPT !.notes = b] \in Docs
           /\ [d EXCEPT !.observing = b] \in Docs
           /\ [d EXCEPT !.notes = b, !.allowed = c] \in Docs
           /\ [d EXCEPT !.status = s, !.observing = b] \in Docs
  BY DEF Docs

\* What is written when recording is interrupted.
LEMMA DocInterrupted ==
    ASSUME NEW d \in Docs, NEW e, e = Saved([d EXCEPT !.observing = FALSE])
    PROVE  /\ e \in Docs /\ e.rev > 0 /\ ~e.observing /\ e.status = d.status
           /\ e.notes = d.notes /\ e.allowed = d.allowed
<1>1. [d EXCEPT !.observing = FALSE] \in Docs
  BY ChangesAreDocs
<1> QED
  BY <1>1, SavedKeeps DEF Docs

\* What the annotator writes.
LEMMA DocAnnotated ==
    ASSUME NEW d \in Docs, NEW e, e = Saved([d EXCEPT !.notes = TRUE])
    PROVE  /\ e \in Docs /\ e.rev > 0 /\ e.observing = d.observing /\ e.status = d.status
           /\ e.allowed = d.allowed
<1>1. [d EXCEPT !.notes = TRUE] \in Docs
  BY ChangesAreDocs
<1> QED
  BY <1>1, SavedKeeps DEF Docs

\* What the startup writes of an open occurrence.
LEMMA DocClosed ==
    ASSUME NEW d \in Docs, NEW e, e = Saved([d EXCEPT !.status = "CLOSE"])
    PROVE  /\ e \in Docs /\ e.rev > 0 /\ e.status = "CLOSE"
           /\ e.notes = d.notes /\ e.allowed = d.allowed
<1>1. [d EXCEPT !.status = "CLOSE"] \in Docs
  BY ChangesAreDocs
<1> QED
  BY <1>1, SavedKeeps DEF Docs

\* What is left of a document when its enrichment is revoked.
LEMMA DocScrubbed ==
    ASSUME NEW d \in Docs
    PROVE  /\ Scrubbed(d) \in Docs /\ Scrubbed(d).rev > 0 /\ Scrubbed(d).status = d.status
           /\ Scrubbed(d).observing = d.observing
           /\ ~Scrubbed(d).notes /\ ~Scrubbed(d).allowed
<1>1. [d EXCEPT !.notes = FALSE, !.allowed = FALSE] \in Docs
  BY ChangesAreDocs
<1> QED
  BY <1>1, SavedKeeps DEF Docs, Scrubbed

\* What is left of it when it is erased.
LEMMA DocErased ==
    ASSUME doc \in Docs, NEW reason \in {"deleted", "expired"}
    PROVE  /\ Tombstone(reason) \in Docs /\ Tombstone(reason).rev > 0
           /\ Erased(Tombstone(reason)) /\ Tombstone(reason).status # None
           /\ ~Open(Tombstone(reason)) /\ ~Tombstone(reason).notes
  BY DEF Docs, Tombstone, Erased, Open, None

-----------------------------------------------------------------------------
(* Publishing and recording.                                               *)

\* Whoever publishes brings the notification up to date.
LEMMA PublishKeeps ==
    ASSUME IInv, NEW w \in Jobs, Publish(w) PROVE IInv'
<1> USE Names DEF IInv
<1>1. Shape'
  <2>1. Then(w) \in Places
    BY DEF Then, Places
  <2>2. \E s \in Places, c \in Nat : job' = [job EXCEPT ![w] = [at |-> s, of |-> c]]
    BY <2>1 DEF Shape, Docs, Publish, Move, MoveWith, Places
  <2>3. job' \in [Jobs -> [at : Places, of : Nat]]
    BY <2>2, MovesAreTyped
  <2> QED
    BY <2>3 DEF Shape, Publish
<1>2. Numbered'
  BY DEF Numbered, Publish
<1>3. Turns'
  BY DEF Shape, Turns, Publish, At, Move, MoveWith, Then, view, bounds, stream, browser, Open,
     Jobs, Others, Sweepers
<1>4. Couriers'
  BY DEF Shape, Turns, Couriers, Publish, At, Move, MoveWith, Then, view, bounds, stream, browser,
     Open, Jobs, Others, Sweepers
<1>5. Images'
  BY DEF Shape, Images, Publish, At, Move, MoveWith, Then, view, bounds, stream, browser, Erased,
     Jobs, Others, Sweepers
<1>6. NothingWithdrawnIsKept'
  BY DEF Shape, NothingWithdrawnIsKept, Publish, Available, Erased, Projection
<1>7. RowIsCurrent'
  BY DEF Shape, RowIsCurrent, Publish, Available, Erased, Projection, At
<1>8. ObservedWhileRecorded'
  BY DEF Shape, Turns, ObservedWhileRecorded, Registered, Publish, Available, Erased, Open, At,
     Move, MoveWith, Then, Jobs, Others, Sweepers
<1> QED
  BY <1>1, <1>2, <1>3, <1>4, <1>5, <1>6, <1>7, <1>8

\* A recorder registers; nothing durable changes.
LEMMA RegisterKeeps ==
    ASSUME IInv, NEW r \in Recorders, Register(r) PROVE IInv'
<1> USE Names DEF IInv, Register, At, Move, MoveWith, process, store
<1>1. Shape'
  BY MovesAreTyped DEF Shape, Places
<1>2. Numbered' /\ NothingWithdrawnIsKept'
  BY DEF Numbered, NothingWithdrawnIsKept, Erased
<1>3. Turns' /\ Couriers'
  BY DEF Shape, Turns, Couriers, Open
<1>4. Images'
  BY DEF Shape, Images, Others, Sweepers, Erased, view
<1>5. RowIsCurrent'
  BY DEF Shape, RowIsCurrent, Available, Erased
<1>6. ObservedWhileRecorded'
  BY DEF Shape, ObservedWhileRecorded, Registered, Open
<1> QED
  BY <1>1, <1>2, <1>3, <1>4, <1>5, <1>6

\* A record creates or changes a document that is not erased, and its recorder
\* publishes it.
LEMMA RecordKeeps ==
    ASSUME IInv, NEW r \in Recorders, Record(r) PROVE IInv'
<1> USE Names DEF IInv, At, Move, MoveWith
<1>1. PICK lifecycle \in {"OPEN", "UPDATE", "CLOSE"}, late \in BOOLEAN :
         Create(r, lifecycle) \/ Change(lifecycle, late)
  BY DEF Record
<1>2. /\ job[r].at = "recording" /\ boot = "up" /\ r # lock
      /\ job' = [job EXCEPT ![r] = [at |-> "publish", of |-> 0]]
      /\ UNCHANGED <<setup, due, row, images, lock, boot, lost>>
  BY DEF Record, Turns
<1>3. /\ job'[r].at = "publish"
      /\ \A w \in Jobs \ {r} : job'[w] = job[w]
  BY <1>2 DEF Shape
<1>4. /\ doc' \in Docs /\ doc'.rev > 0 /\ doc'.status # None
      /\ ~Erased(doc) /\ ~Erased(doc')
      /\ doc.allowed /\ doc.status # None => doc'.allowed
      /\ ~doc'.allowed => doc.status # None /\ doc'.notes = doc.notes
  <2>1. CASE Create(r, lifecycle)
    BY <2>1 DEF Shape, Docs, Create, Erased, None
  <2>2. CASE Change(lifecycle, late)
    <3>1. PICK s \in {"CLOSE", "UPDATE"}, b \in BOOLEAN :
             doc' = Saved([doc EXCEPT !.status = s, !.observing = b])
      BY <2>2 DEF Change, Shape, Docs
    <3>2. doc \in Docs /\ ~Erased(doc) /\ doc.status # None
      BY <2>2 DEF Change, Shape, Available
    <3>3. [doc EXCEPT !.status = s, !.observing = b] \in Docs
      BY <3>2, ChangesAreDocs
    <3>4. /\ doc' \in Docs /\ doc'.rev > 0 /\ doc'.status = s
          /\ doc'.notes = doc.notes /\ doc'.allowed = doc.allowed
      BY <3>1, <3>2, <3>3, SavedKeeps DEF Docs
    <3> QED
      BY <3>2, <3>4 DEF Erased, None
  <2> QED
    BY <1>1, <2>1, <2>2
<1>5. Shape'
  BY <1>1, <1>2, <1>4, MovesAreTyped DEF Shape, Places, Create, Change
<1>6. Numbered'
  BY <1>4 DEF Numbered
<1>7. Turns'
  BY <1>2, <1>3 DEF Shape, Turns
<1>8. Couriers'
  BY <1>1, <1>2, <1>3 DEF Shape, Couriers, Numbered, Create, Change
<1>9. Images'
  BY <1>2, <1>4 DEF Images
<1>10. NothingWithdrawnIsKept'
  BY <1>2, <1>4 DEF Shape, Numbered, NothingWithdrawnIsKept
<1>11. RowIsCurrent'
  BY <1>3 DEF RowIsCurrent
<1>12. ObservedWhileRecorded'
  BY <1>2, <1>3 DEF ObservedWhileRecorded, Registered
<1> QED
  BY <1>5, <1>6, <1>7, <1>8, <1>9, <1>10, <1>11, <1>12

\* The courier settles the delivery and is done with it.
LEMMA ReceiptKeeps ==
    ASSUME IInv, NEW r \in Recorders, Receipt(r) PROVE IInv'
<1> USE Names DEF IInv, Receipt, At, Move, MoveWith
<1>1. job' = [job EXCEPT ![r] = [at |-> "recording", of |-> 0]] /\ r # lock
  BY DEF Turns
<1>2. Shape'
  BY <1>1, MovesAreTyped DEF Shape, Places
<1>3. Numbered' /\ NothingWithdrawnIsKept'
  BY DEF Numbered, NothingWithdrawnIsKept, Erased, None
<1>4. Turns'
  BY <1>1 DEF Shape, Turns, Open
<1>5. Couriers'
  BY <1>1 DEF Shape, Couriers
<1>6. Images'
  BY <1>1 DEF Shape, Images, Others, Sweepers, Erased, view
<1>7. RowIsCurrent'
  BY <1>1 DEF Shape, RowIsCurrent, Available, Erased
<1>8. ObservedWhileRecorded'
  BY <1>1 DEF Shape, ObservedWhileRecorded, Registered, Open
<1> QED
  BY <1>2, <1>3, <1>4, <1>5, <1>6, <1>7, <1>8

\* Nobody else is registered when the last recorder leaves.
LEMMA UnregisterKeeps ==
    ASSUME IInv, NEW r \in Recorders, Unregister(r) PROVE IInv'
<1> USE Names DEF IInv, Unregister, At, Move, MoveWith
<1>1. \E s \in {"idle", "interrupt"} :
         job' = [job EXCEPT ![r] = [at |-> s, of |-> 0]]
  OBVIOUS
<1>2. Shape'
  BY <1>1, MovesAreTyped DEF Shape, Places, store
<1>3. Numbered' /\ NothingWithdrawnIsKept'
  BY DEF Numbered, NothingWithdrawnIsKept, Erased, store
<1>4. Turns'
  BY DEF Shape, Turns, Open, store, Registered
<1>5. Couriers'
  BY DEF Shape, Couriers, store
<1>6. Images'
  BY <1>1 DEF Shape, Images, Others, Sweepers, Erased, view, store
<1>7. RowIsCurrent'
  BY <1>1 DEF Shape, RowIsCurrent, Available, Erased, store
<1>8. ObservedWhileRecorded'
  BY DEF Shape, ObservedWhileRecorded, Registered, Open, store
<1> QED
  BY <1>2, <1>3, <1>4, <1>5, <1>6, <1>7, <1>8

\* The last recorder marks the interruption, unless there is none to mark.
LEMMA InterruptKeeps ==
    ASSUME IInv, NEW r \in Recorders, Interrupt(r) PROVE IInv'
<1> USE Names DEF IInv, Interrupt, At, Move, MoveWith
<1>1. lock = r /\ \E s \in {"idle", "publish"} :
         job' = [job EXCEPT ![r] = [at |-> s, of |-> 0]]
  BY DEF Turns
<1>2. /\ doc' \in Docs /\ doc'.status = doc.status /\ (doc' # doc => doc'.rev > 0)
      /\ doc'.notes = doc.notes /\ doc'.allowed = doc.allowed
      /\ \/ job'[r].at = "publish" /\ lock' = r /\ ~doc'.observing
         \/ lock' = None /\ doc' = doc /\ ~(Open(doc) /\ ~due /\ doc.observing)
  BY <1>1, DocInterrupted DEF Shape
<1>3. Shape'
  BY <1>1, <1>2, MovesAreTyped DEF Shape, Places
<1>4. Numbered' /\ NothingWithdrawnIsKept'
  BY <1>2 DEF Numbered, NothingWithdrawnIsKept, Erased, Open, None
<1>5. Turns'
  BY <1>1, <1>2 DEF Shape, Turns, Open
<1>6. Couriers'
  BY <1>1 DEF Shape, Couriers
<1>7. Images'
  BY <1>1, <1>2 DEF Shape, Images, Others, Sweepers, Erased, view
<1>8. RowIsCurrent'
  BY <1>1 DEF Shape, RowIsCurrent, Available, Erased
<1>9. ObservedWhileRecorded'
  BY <1>1, <1>2 DEF Shape, ObservedWhileRecorded, Registered, Open
<1> QED
  BY <1>3, <1>4, <1>5, <1>6, <1>7, <1>8, <1>9

\* An image is added to an occurrence that is neither erased nor due.
LEMMA CaptureKeeps ==
    ASSUME IInv, NEW r \in Recorders, Capture(r) PROVE IInv'
<1> USE DEF IInv, Capture
<1>1. Images'
  BY DEF Images, Available, Erased
<1>2. RowIsCurrent' /\ ObservedWhileRecorded'
  BY DEF RowIsCurrent, Available, Erased, Open, ObservedWhileRecorded, Registered
<1> QED
  BY <1>1, <1>2 DEF Shape, Numbered, Turns, Couriers, NothingWithdrawnIsKept, Erased, Open

\* The annotator writes only what is allowed.
LEMMA EnrichKeeps ==
    ASSUME IInv, Enrich PROVE IInv'
<1> USE Names DEF IInv, Enrich, At, Move, MoveWith, Others, Sweepers
<1>1. "annotator" \in Jobs /\ "annotator" \notin Recorders
  OBVIOUS
<1>2. /\ doc' \in Docs /\ doc'.status = doc.status /\ (doc' # doc => doc'.rev > 0)
      /\ doc'.allowed = doc.allowed /\ doc'.observing = doc.observing
      /\ doc'.notes => doc.allowed \/ doc' = doc
      /\ doc' # doc => ~Erased(doc) /\ doc.allowed /\ doc.status # None
  BY DocAnnotated DEF Shape, Available
<1>3. Shape'
  BY <1>1, <1>2, MovesAreTyped DEF Shape, Places
<1>4. Numbered' /\ NothingWithdrawnIsKept'
  BY <1>2 DEF Numbered, NothingWithdrawnIsKept, Erased
<1>5. Turns'
  BY <1>1, <1>2 DEF Shape, Turns, Open
<1>6. Couriers'
  BY <1>1 DEF Shape, Couriers
<1>7. Images'
  BY <1>1, <1>2 DEF Shape, Images, Erased, view
<1>8. RowIsCurrent'
  BY <1>1 DEF Shape, RowIsCurrent, Available, Erased
<1>9. ObservedWhileRecorded'
  BY <1>1, <1>2 DEF Shape, ObservedWhileRecorded, Registered, Open
<1> QED
  BY <1>3, <1>4, <1>5, <1>6, <1>7, <1>8, <1>9

\* Nothing durable changes when a change is announced.
LEMMA AnnounceKeeps ==
    ASSUME IInv, NEW w \in Jobs, Announce(w) PROVE IInv'
<1> USE Names DEF IInv, Announce, At, Move, MoveWith
<1>1. Then(w) \in Places /\ job' = [job EXCEPT ![w] = [at |-> Then(w), of |-> 0]]
  BY DEF Then, Places
<1>2. Shape'
  BY <1>1, MovesAreTyped DEF Shape, store
<1>3. Numbered' /\ NothingWithdrawnIsKept'
  BY DEF Numbered, NothingWithdrawnIsKept, Erased, store
<1>4. Turns'
  BY DEF Shape, Turns, Then, Open, Jobs, Others, Sweepers, store
<1>5. Couriers'
  BY DEF Shape, Turns, Couriers, Then, Jobs, Others, Sweepers, store
<1>6. Images'
  BY DEF Shape, Images, Then, Erased, Jobs, Others, Sweepers, store
<1>7. RowIsCurrent'
  BY <1>1 DEF Shape, RowIsCurrent, Available, Erased, store
<1>8. ObservedWhileRecorded'
  BY DEF Shape, Turns, ObservedWhileRecorded, Registered, Open, Then, Jobs, Others, Sweepers, store
<1> QED
  BY <1>2, <1>3, <1>4, <1>5, <1>6, <1>7, <1>8

-----------------------------------------------------------------------------
(* Erasing and revoking.                                                   *)

\* What those who are no recorder do to their own place concerns only the images.
LEMMA OthersMove ==
    ASSUME IInv, NEW w \in Others, boot = "up", job[w].at # "publish",
           NEW s \in Places, NEW c \in Nat, job' = [job EXCEPT ![w] = [at |-> s, of |-> c]],
           UNCHANGED <<setup, doc, row, delivery, due, courier, lock, boot>>,
           "row" \in lost' <=> "row" \in lost
    PROVE  /\ Shape' /\ Numbered' /\ Turns' /\ Couriers'
           /\ NothingWithdrawnIsKept' /\ RowIsCurrent' /\ ObservedWhileRecorded'
<1> USE Names DEF IInv
<1>1. w \in Jobs /\ w \notin Recorders
  BY DEF Jobs
<1>2. Shape'
  BY <1>1, MovesAreTyped DEF Shape
<1>3. Numbered' /\ NothingWithdrawnIsKept'
  BY DEF Numbered, NothingWithdrawnIsKept, Erased
<1>4. Turns' /\ Couriers'
  BY <1>1 DEF Shape, Turns, Couriers, Open
<1>5. RowIsCurrent'
  BY <1>1 DEF Shape, RowIsCurrent, Available, Erased
<1>6. ObservedWhileRecorded'
  BY <1>1 DEF Shape, ObservedWhileRecorded, Registered, Open
<1> QED
  BY <1>2, <1>3, <1>4, <1>5, <1>6

\* A person asks for an erasure or a revocation.
LEMMA AskKeeps ==
    ASSUME IInv, Ask PROVE IInv'
<1> USE Names DEF IInv, Ask, At, Others, Sweepers, process, store
<1>1. PICK s \in {"erase", "revoke"} :
         job' = [job EXCEPT !["person"] = [at |-> s, of |-> doc.rev]]
  <2>1. setup.asks \subseteq {"erase", "revoke"}
    BY OccurrenceAssumption DEF Shape, Setup
  <2> QED
    BY <2>1 DEF MoveWith
<1>2. Images'
  BY <1>1 DEF Shape, Images, Available, Erased
<1> QED
  BY <1>1, <1>2, OthersMove DEF Shape, Docs, Places

\* An erasure takes the notification and the delivery with it, and leaves
\* the one who made it with the images to remove.
LEMMA ErasureKeeps ==
    ASSUME IInv, NEW w \in Others, boot = "up", job[w].at # "publish",
           NEW reason \in {"deleted", "expired"}, EraseRows(reason),
           NEW s \in {"withdraw", "remove"}, w = "person" \/ (w \in Sweepers /\ s = "remove"),
           job' = [job EXCEPT ![w] = [at |-> s, of |-> row.rev]],
           UNCHANGED <<setup, due, images, courier, lock, boot, lost>>
    PROVE  IInv'
<1> USE Names DEF IInv, EraseRows
<1>1. w \in Jobs /\ w \notin Recorders
  BY DEF Jobs
<1>2. /\ doc' \in Docs /\ doc'.rev > 0 /\ Erased(doc') /\ doc'.status # None
      /\ ~Open(doc') /\ ~doc'.notes
  BY DocErased DEF Shape
<1>3. Shape'
  BY <1>1, <1>2, MovesAreTyped DEF Shape, Content, Places
<1>4. Numbered' /\ NothingWithdrawnIsKept'
  BY <1>2 DEF Numbered, NothingWithdrawnIsKept, NoContent
<1>5. Turns' /\ Couriers'
  BY <1>1, <1>2 DEF Shape, Turns, Couriers, None
<1>6. Images'
  BY <1>1 DEF Shape, Images, Others, Sweepers
<1>7. RowIsCurrent' /\ ObservedWhileRecorded'
  BY <1>2 DEF RowIsCurrent, ObservedWhileRecorded, Available
<1> QED
  BY <1>3, <1>4, <1>5, <1>6, <1>7

\* The person's erasure, or nothing left to erase.
LEMMA EraseKeeps ==
    ASSUME IInv, Erase PROVE IInv'
<1> USE Names DEF Erase, At, Others, Sweepers, process
<1>1. CASE EraseRows("deleted") /\ MoveWith("person", "withdraw", row.rev)
  BY <1>1, ErasureKeeps DEF MoveWith
<1>2. CASE Move("person", "idle") /\ UNCHANGED <<doc, row, delivery>>
  <2>1. Images'
    BY <1>2 DEF IInv, Shape, Images, Erased, Move, MoveWith
  <2> QED
    BY <1>2, <2>1, OthersMove DEF IInv, Places, Move, MoveWith
<1> QED
  BY <1>1, <1>2

\* A revocation scrubs the document and the notification in one transaction.
LEMMA RevokeKeeps ==
    ASSUME IInv, Revoke PROVE IInv'
<1> USE Names DEF IInv, Revoke, At, Others, Sweepers, process
<1>1. CASE /\ Available /\ doc' = Scrubbed(doc)
           /\ row' = IF row = NoContent THEN row ELSE Projection(Scrubbed(doc))
           /\ MoveWith("person", "withdraw", row.rev)
  <2>1. /\ doc' \in Docs /\ doc'.rev > 0 /\ doc'.status = doc.status
        /\ doc'.observing = doc.observing /\ ~doc'.notes /\ ~doc'.allowed
        /\ doc.status # None /\ doc.rev > 0 /\ ~Erased(doc)
    BY <1>1, DocScrubbed DEF Shape, Numbered, Available
  <2>2. "person" \in Jobs /\ "person" \notin Recorders
    OBVIOUS
  <2>3. Shape'
    BY <1>1, <2>1, <2>2, MovesAreTyped DEF Shape, Content, Places, MoveWith
  <2>4. Numbered' /\ NothingWithdrawnIsKept'
    BY <1>1, <2>1 DEF Numbered, NothingWithdrawnIsKept, Erased, NoContent, Projection
  <2>5. Turns' /\ Couriers'
    BY <1>1, <2>1, <2>2 DEF Shape, Turns, Couriers, Open, MoveWith
  <2>6. Images'
    BY <1>1, <2>1 DEF Shape, Images, Erased, MoveWith
  <2>7. RowIsCurrent'
    BY <1>1, <2>1, <2>2 DEF Shape, RowIsCurrent, Available, Erased, MoveWith, NoContent,
       Projection
  <2>8. ObservedWhileRecorded'
    BY <1>1, <2>1, <2>2 DEF Shape, ObservedWhileRecorded, Registered, Open, MoveWith
  <2> QED
    BY <2>3, <2>4, <2>5, <2>6, <2>7, <2>8
<1>2. CASE Move("person", "idle") /\ UNCHANGED <<doc, row>>
  <2>1. Images'
    BY <1>2 DEF Shape, Images, Erased, Move, MoveWith
  <2> QED
    BY <1>2, <2>1, OthersMove DEF Places, Move, MoveWith
<1> QED
  BY <1>1, <1>2

\* After the transaction: withdrawal, callbacks, images.
LEMMA PersonKeeps ==
    ASSUME IInv,
           Withdraw("person") \/ CallbacksReturn \/ CallbackRaises \/ RemoveImages
    PROVE  IInv'
<1> USE Names DEF At, Move, MoveWith, Others, Sweepers, Withdraw, CallbacksReturn, CallbackRaises, RemoveImages,
                  process, store
<1>1. PICK s \in {"callbacks", "remove", "publish", "idle"} :
         job' = [job EXCEPT !["person"] = [at |-> s, of |-> 0]]
  OBVIOUS
<1>2. Images'
  <2>1. CASE Withdraw("person")
    BY <2>1 DEF IInv, Shape, Images, Erased
  <2>2. CASE CallbacksReturn
    BY <2>2 DEF IInv, Shape, Images, Erased
  <2>3. CASE CallbackRaises
    BY <2>3 DEF IInv, Shape, Images, Erased
  <2>4. CASE RemoveImages
    BY <2>4 DEF IInv, Images, None
  <2> QED
    BY <2>1, <2>2, <2>3, <2>4
<1> QED
  BY <1>1, <1>2, OthersMove DEF IInv, Places

-----------------------------------------------------------------------------
(* Retention.                                                              *)

\* Retention runs out, of the occurrence or of its images.
LEMMA ClockKeeps ==
    ASSUME IInv, Expire \/ ImagesExpire PROVE IInv'
<1> USE DEF IInv, Expire, ImagesExpire, process
<1>1. Images'
  BY DEF Images, Erased, None
<1>2. RowIsCurrent' /\ ObservedWhileRecorded'
  BY DEF RowIsCurrent, Available, Erased, Open, ObservedWhileRecorded, Registered
<1> QED
  BY <1>1, <1>2 DEF Shape, Numbered, Turns, Couriers, NothingWithdrawnIsKept, Erased, Open

\* A sweep takes the images of what it has erased before anything else.
LEMMA SweepKeeps ==
    ASSUME IInv, NEW v \in Sweepers,
           \/ SweepBegins(v) \/ SweepErases(v) \/ SweepOfMedia(v) \/ SweepStops(v)
           \/ Withdraw(v) \/ SweepEnds(v)
    PROVE  IInv'
<1> USE Names DEF At, process, store
<1>1. v \in Jobs /\ v \in Others /\ v # "person"
  OBVIOUS
<1>2. CASE EraseRows("expired") /\ MoveWith(v, "remove", row.rev) /\ SweepErases(v)
  BY <1>1, <1>2, ErasureKeeps DEF MoveWith, SweepErases
<1>3. CASE Move(v, "maintain") /\ UNCHANGED <<doc, row, delivery>> /\ SweepErases(v)
  <2>1. Images'
    BY <1>1, <1>3 DEF IInv, Shape, Images, Erased, Move, MoveWith, SweepErases
  <2> QED
    BY <1>1, <1>3, <2>1, OthersMove DEF IInv, Places, Move, MoveWith, SweepErases
<1>4. CASE SweepBegins(v)
  <2>1. PICK s \in {"erase", "maintain"}, c \in Nat :
           job' = [job EXCEPT ![v] = [at |-> s, of |-> c]]
    BY <1>4 DEF SweepBegins, Move, MoveWith, IInv, Shape, Docs
  <2>2. Images'
    BY <1>1, <1>4, <2>1 DEF IInv, Shape, Images, Erased, SweepBegins
  <2> QED
    BY <1>1, <1>4, <2>1, <2>2, OthersMove DEF IInv, Places, SweepBegins
<1>5. CASE SweepOfMedia(v)
  <2>1. job[v].of \in Nat
    BY <1>1 DEF IInv, Shape
  <2>2. PICK s \in {"maintain", "idle", "withdraw"}, c \in Nat :
           job' = [job EXCEPT ![v] = [at |-> s, of |-> c]]
    BY <1>5, <2>1 DEF SweepOfMedia, SweepDeletes, Move, MoveWith
  <2>3. images' = None \/ images' = images
    BY <1>5 DEF SweepOfMedia, SweepDeletes, Deletable
  <2>4. job[v].at = "remove" => images' = None
    BY <1>5 DEF SweepOfMedia, SweepDeletes
  <2>5. Images'
    BY <1>1, <1>5, <2>2, <2>3, <2>4 DEF IInv, Shape, Images, Erased, SweepOfMedia, None
  <2> QED
    BY <1>1, <1>5, <2>2, <2>5, OthersMove DEF IInv, Places, SweepOfMedia, SweepDeletes
<1>6. CASE SweepStops(v)
  <2>1. Images'
    BY <1>1, <1>6 DEF IInv, Shape, Images, Erased, SweepStops, Move, MoveWith
  <2> QED
    BY <1>1, <1>6, <2>1, OthersMove DEF IInv, Places, SweepStops, Move, MoveWith
<1>7. CASE Withdraw(v) \/ SweepEnds(v)
  <2>1. PICK s \in {"callbacks", "idle"} :
           job' = [job EXCEPT ![v] = [at |-> s, of |-> 0]]
    BY <1>7 DEF Withdraw, SweepEnds, Move, MoveWith
  <2>2. Images'
    BY <1>1, <1>7, <2>1 DEF IInv, Shape, Images, Erased, Withdraw, SweepEnds
  <2> QED
    BY <1>1, <1>7, <2>1, <2>2, OthersMove DEF IInv, Places, Withdraw, SweepEnds
<1> QED
  BY <1>2, <1>3, <1>4, <1>5, <1>6, <1>7 DEF SweepErases

-----------------------------------------------------------------------------
(* The feed, crashes and the startup.                                      *)

\* The feed of the browser touches nothing durable.
LEMMA FeedKeeps ==
    ASSUME IInv,
           UNCHANGED <<setup, doc, due, delivery, row, images, job, courier, lock, boot>>,
           "row" \in lost' <=> "row" \in lost, "images" \in lost' <=> "images" \in lost
    PROVE  IInv'
<1> USE DEF IInv
<1>1. Shape' /\ Numbered' /\ Turns' /\ Couriers'
  BY DEF Shape, Numbered, Turns, Couriers, Open
<1>2. Images' /\ NothingWithdrawnIsKept' /\ RowIsCurrent' /\ ObservedWhileRecorded'
  BY DEF Images, NothingWithdrawnIsKept, RowIsCurrent, ObservedWhileRecorded,
         Available, Erased, Open, Registered
<1> QED
  BY <1>1, <1>2

\* Those are the steps of the feed, and a record that is refused.
LEMMA FeedSteps ==
    ASSUME \/ Connect \/ OtherNotice \/ Send \/ Receive \/ Refresh \/ Answer \/ Arrive
           \/ ListFails \/ Disconnect \/ \E r \in Recorders : RecordClosed(r)
           \/ UNCHANGED vars
    PROVE  /\ UNCHANGED <<setup, doc, due, delivery, row, images, job, courier, lock, boot>>
           /\ "row" \in lost' <=> "row" \in lost
           /\ "images" \in lost' <=> "images" \in lost
  BY DEF Connect, OtherNotice, Send, Receive, Clear, Refresh, Answer, Arrive, ListFails, Disconnect,
         Disconnected, RecordClosed, vars, store, process, bounds

\* Whoever had something to finish is noted.
LEMMA CrashKeeps ==
    ASSUME IInv, Crash PROVE IInv'
<1> USE Names DEF IInv, Crash, store
<1>1. job' = [w \in Jobs |-> [at |-> "idle", of |-> 0]]
  BY DEF Idle
<1>2. Shape'
  BY <1>1 DEF Shape, Places
<1>3. Numbered' /\ NothingWithdrawnIsKept'
  BY DEF Numbered, NothingWithdrawnIsKept, Erased
<1>4. Turns' /\ Couriers'
  BY <1>1 DEF Turns, Couriers, None
<1>5. Images'
  BY DEF Images, Owes, Erased
<1>6. RowIsCurrent'
  BY <1>1 DEF RowIsCurrent, Interrupts, Available, Erased
<1>7. ObservedWhileRecorded'
  BY DEF ObservedWhileRecorded
<1> QED
  BY <1>2, <1>3, <1>4, <1>5, <1>6, <1>7

\* Every stage of the startup leaves what the next one, or the service, expects.
LEMMA StartupKeeps ==
    ASSUME IInv, Startup \/ StartupFails PROVE IInv'
<1> USE Names DEF IInv, Others, Sweepers
<1>1. /\ boot # "up" /\ lock = None /\ (\A w \in Jobs : job[w].at = "idle")
      /\ UNCHANGED <<setup, due, job, courier, lock>>
  BY DEF Startup, StartupFails, Turns
<1>2. CASE StartupFails
  <2>1. Images'
    BY <1>2 DEF Images, StartupFails
  <2> QED
    BY <1>1, <1>2, <2>1 DEF StartupFails, Shape, Numbered, Turns, Couriers,
       NothingWithdrawnIsKept,
         RowIsCurrent, ObservedWhileRecorded, Available, Erased, Open
<1>3. CASE /\ boot = "expire" /\ boot' = "deliveries"
           /\ EraseRows("expired") /\ due
           /\ UNCHANGED <<images, lost>>
  <2>1. /\ doc' \in Docs /\ doc'.rev > 0 /\ Erased(doc') /\ doc'.status # None
        /\ ~Open(doc') /\ ~doc'.notes /\ row' = NoContent /\ delivery' = None
    BY <1>3, DocErased DEF Shape, EraseRows
  <2> QED
    BY <1>1, <1>3, <2>1 DEF Shape, Numbered, Turns, Couriers, Images, NothingWithdrawnIsKept,
         RowIsCurrent, ObservedWhileRecorded, Available, NoContent, None
<1>4. CASE /\ boot = "close" /\ Open(doc) /\ boot' = "publish"
           /\ doc' = Saved([doc EXCEPT !.status = "CLOSE"])
           /\ UNCHANGED <<row, delivery, images, lost>>
  <2>1. /\ doc' \in Docs /\ doc'.rev > 0 /\ doc'.status = "CLOSE"
        /\ doc'.notes = doc.notes /\ doc'.allowed = doc.allowed
    BY <1>4, DocClosed DEF Shape
  <2> QED
    BY <1>1, <1>4, <2>1 DEF Shape, Numbered, Turns, Couriers, Images, NothingWithdrawnIsKept,
         RowIsCurrent, ObservedWhileRecorded, Available, Erased, Open, None
<1>5. CASE /\ boot = "publish" /\ boot' = "maintain"
           /\ row' = IF Available THEN Projection(doc) ELSE row
           /\ lost' = IF Available THEN lost \ {"row"} ELSE lost
           /\ UNCHANGED <<doc, delivery, images>>
  <2>1. Shape' /\ Numbered' /\ Turns' /\ Couriers' /\ Images'
    BY <1>1, <1>5 DEF Shape, Numbered, Turns, Couriers, Images, Erased, Open
  <2>2. NothingWithdrawnIsKept' /\ RowIsCurrent' /\ ObservedWhileRecorded'
    BY <1>1, <1>5 DEF Shape, NothingWithdrawnIsKept, RowIsCurrent, ObservedWhileRecorded,
         Available, Erased, Projection
  <2> QED
    BY <2>1, <2>2
<1>6. CASE /\ boot = "maintain" /\ boot' = "up" /\ images' = Deletable
           /\ UNCHANGED <<doc, row, delivery, lost>>
  <2>1. Images'
    BY <1>1, <1>6, Names DEF Images, Deletable, Erased, None
  <2> QED
    BY <1>1, <1>6, <2>1 DEF Shape, Numbered, Turns, Couriers, NothingWithdrawnIsKept,
         RowIsCurrent, ObservedWhileRecorded, Available, Erased, Open
<1>7. CASE /\ UNCHANGED <<doc, row, images, lost>>
           /\ \/ boot = "expire" /\ boot' = "deliveries" /\ UNCHANGED delivery
              \/ boot = "deliveries" /\ boot' = "close" /\ delivery' = Unfinished(delivery)
              \/ boot = "close" /\ boot' = "maintain" /\ ~Open(doc) /\ UNCHANGED delivery
  <2>1. /\ (doc.status = None => delivery' = None) /\ (delivery = None => delivery' = None)
        /\ boot' = "close" => delivery' # "requested"
    BY <1>7 DEF Unfinished, Numbered, None
  <2> QED
    BY <1>1, <1>7, <2>1 DEF Shape, Numbered, Turns, Couriers, Images, NothingWithdrawnIsKept,
         RowIsCurrent, ObservedWhileRecorded, Available, Erased, Open
<1> QED
  BY <1>2, <1>3, <1>4, <1>5, <1>6, <1>7 DEF Startup

-----------------------------------------------------------------------------
(* The theorems.                                                           *)

\* The invariant holds of an empty store.
LEMMA InitHolds == Init => IInv
<1> SUFFICES ASSUME Init PROVE IInv
  OBVIOUS
<1> USE Names DEF Init, IInv
<1>1. Shape
  BY DEF Shape, Idle, Places, Docs, NoContent, Content
<1>2. Numbered /\ Turns /\ Couriers /\ Images
  BY DEF Numbered, Turns, Couriers, Images, Idle, Open, Erased, None
<1>3. NothingWithdrawnIsKept /\ RowIsCurrent /\ ObservedWhileRecorded
  BY DEF NothingWithdrawnIsKept, RowIsCurrent, ObservedWhileRecorded, Available, Erased,
         Open, NoContent, None
<1> QED
  BY <1>1, <1>2, <1>3

\* Every step keeps it.
LEMMA StepKeeps == IInv /\ [Next]_vars => IInv'
<1> SUFFICES ASSUME IInv, [Next]_vars PROVE IInv'
  OBVIOUS
<1>1. ASSUME NEW r \in Recorders,
             \/ Register(r) \/ Record(r) \/ RecordClosed(r) \/ Unregister(r) \/ Recording(r)
      PROVE  IInv'
  BY <1>1, Names, RegisterKeeps, RecordKeeps, UnregisterKeeps, PublishKeeps, AnnounceKeeps,
     ReceiptKeeps, InterruptKeeps, CaptureKeeps, FeedSteps, FeedKeeps DEF Recording
<1>2. CASE Enrich \/ Publish("annotator") \/ Announce("annotator")
  BY <1>2, Names, EnrichKeeps, PublishKeeps, AnnounceKeeps DEF Others, Sweepers
<1>3. CASE Ask \/ Person \/ CallbackRaises
  BY <1>3, Names, AskKeeps, PublishKeeps, AnnounceKeeps, EraseKeeps, RevokeKeeps, PersonKeeps
  DEF Others, Sweepers, Person
<1>4. CASE \/ Expire \/ ImagesExpire
           \/ \E s \in Sweepers : SweepBegins(s) \/ Sweep(s) \/ SweepStops(s)
  BY <1>4, ClockKeeps, SweepKeeps DEF Sweep
<1>5. CASE \/ Connect \/ OtherNotice \/ Send \/ Receive \/ Refresh \/ Page \/ ListFails
           \/ Disconnect \/ UNCHANGED vars
  BY <1>5, FeedSteps, FeedKeeps DEF Page
<1>6. CASE Crash \/ Startup \/ StartupFails
  BY <1>6, CrashKeeps, StartupKeeps
<1> QED
  BY <1>1, <1>2, <1>3, <1>4, <1>5, <1>6 DEF Next

\* IInv holds in every state of every behaviour.
THEOREM Invariance == Spec => []IInv
  BY InitHolds, StepKeeps, PTL DEF Spec

\* An erased occurrence has no notification and no delivery, and what was revoked
\* is in neither the document nor the notification, whoever was recording,
\* annotating or publishing meanwhile, and through crashes.
THEOREM WithdrawnStaysWithdrawn == Spec => []NothingWithdrawnIsKept
<1>1. IInv => NothingWithdrawnIsKept
  BY DEF IInv
<1> QED
  BY <1>1, Invariance, PTL

\* An open occurrence says it is observed only while one of its recorders is
\* registered, or the last one is about to mark the interruption.
THEOREM ObservationEndsWithItsRecorders == Spec => []ObservedWhileRecorded
<1>1. IInv => ObservedWhileRecorded
  BY DEF IInv
<1> QED
  BY <1>1, Invariance, PTL

\* A change whose publication nobody has left to make is in the notification,
\* and a requested delivery has somebody who settles it.
THEOREM NoChangeIsForgotten == Spec => []ChangesAreFollowedUp
<1>1. IInv => ChangesAreFollowedUp
  BY DEF IInv, ChangesAreFollowedUp, Couriers
<1> QED
  BY <1>1, Invariance, PTL

\* When nobody has them left to remove, an erased occurrence has no images but
\* such as are marked for deletion: no capture survives the erasure.
THEOREM ImagesGoWithTheOccurrence == Spec => []ErasedHasNoImages
<1>1. IInv => ErasedHasNoImages
  BY DEF IInv, ErasedHasNoImages, Images, Owes
<1> QED
  BY <1>1, Invariance, PTL

-----------------------------------------------------------------------------
(* The feed.                                                               *)

\* A card of an occurrence that is erased says what may not be said any more.
Stale(card) == Erased(doc) /\ card # 0

\* What makes the browser empty its list, and who has yet to say it.
Clears(e) == e.op \in {"invalidate", "resync"}
Queued == \E k \in 1..Len(queue) : Clears(queue[k])
Owed ==
    \/ job["person"].at = "withdraw" /\ job["person"].of # 0
    \/ \E s \in Sweepers : job[s].at \in {"remove", "maintain", "withdraw"} /\ job[s].of # 0

FeedTypes ==
    /\ queue \in Seq(Event) /\ Len(queue) <= QueueSize
    /\ wire \in Event /\ shown \in Nat /\ page \in Pages
    /\ connection \in {"open", "down"}

\* A stream that is not open carries nothing, and what is shown without one came in a
\* page that was answered without one.
Closed ==
    /\ boot # "up" => connection = "down"
    /\ connection = "down" =>
        /\ queue = <<>> /\ wire = NoEvent
        /\ page.state = "answered" => page.early
        /\ "page" \notin lost => shown = 0

\* Only what was published is shown, or on its way.
Published ==
    (Card(row) = 0 /\ ~Erased(doc)) => shown = 0 /\ wire.of = 0 /\ page.of = 0

\* What is stale is cleared by something behind it.
Followed ==
    (connection = "open" /\ lost \cap {"feed", "page"} = {}) =>
        /\ \/ Stale(shown)
           \/ page.state = "answered" /\ ~page.early /\ Stale(page.of)
           => Clears(wire) \/ Queued \/ Owed
        /\ Stale(wire.of) => Queued \/ Owed

FeedInv == FeedTypes /\ Closed /\ Published /\ Followed

-----------------------------------------------------------------------------
(* The queue of a browser.                                                 *)

\* A set of numbers has a least one.
LEMMA LeastOne ==
    ASSUME NEW T, T \subseteq Nat, T # {}
    PROVE  \E m \in T : \A k \in T : ~(k < m)
<1>1. IsWellFoundedOn(OpToRel(<, Nat), Nat)
  BY NatLessThanWellFounded
<1>2. PICK m \in T : \A k \in T : ~(<<k, m>> \in OpToRel(<, Nat))
  BY <1>1, WFMin
<1> QED
  BY <1>2 DEF OpToRel

\* What is kept of a queue, up to its k-th event.
KeptOf(q, k, before) ==
    IF k = 0 THEN <<>>
    ELSE IF q[k].op \in {"row", "invalidate"} THEN before
    ELSE Append(before, q[k])

\* Discarding from a queue of events leaves one: what is kept is defined up to every
\* place, for at the least one where it were not it could be continued from the last.
LEMMA DiscardLeavesEvents ==
    ASSUME NEW q \in Seq(Event)
    PROVE  Discard(q) \in Seq(Event)
<1> DEFINE Keeps(f, n) ==
               /\ f \in [0..n -> Seq(Event)]
               /\ \A k \in 0..n : f[k] = KeptOf(q, k, f[k - 1])
           Missing == {n \in 0..Len(q) : ~\E f : Keeps(f, n)}
<1>1. Missing = {}
  <2>1. SUFFICES ASSUME Missing # {} PROVE FALSE
    OBVIOUS
  <2>2. PICK m \in Missing : \A k \in Missing : ~(k < m)
    <3>1. Missing \subseteq Nat
      OBVIOUS
    <3> HIDE DEF Missing
    <3> QED
      BY <2>1, <3>1, LeastOne
  <2>3. m \in 0..Len(q) /\ ~\E f : Keeps(f, m)
    OBVIOUS
  <2>4. m # 0
    <3>1. Keeps([k \in 0..0 |-> <<>>], 0)
      BY DEF KeptOf
    <3> QED
      BY <2>3, <3>1
  <2>5. PICK f : Keeps(f, m - 1)
    <3>1. m - 1 \in 0..Len(q) /\ m - 1 < m
      BY <2>3, <2>4
    <3>2. m - 1 \notin Missing
      <4> HIDE DEF Missing
      <4> QED
        BY <2>2, <3>1
    <3> HIDE DEF Keeps
    <3> QED
      BY <3>1, <3>2
  <2> DEFINE g == [k \in 0..m |-> KeptOf(q, k, f[k - 1])]
  <2>6. \A k \in 0..(m - 1) : g[k] = f[k]
    BY <2>3, <2>4, <2>5
  <2>7. g[m] = KeptOf(q, m, f[m - 1]) /\ f[m - 1] \in Seq(Event)
    BY <2>3, <2>4, <2>5
  <2>8. g[m] \in Seq(Event)
    <3>1. q[m] \in Event
      BY <2>3, <2>4
    <3> QED
      BY <2>7, <3>1 DEF KeptOf
  <2>9. Keeps(g, m)
    <3>1. \A k \in 0..m : g[k] = KeptOf(q, k, f[k - 1])
      OBVIOUS
    <3>2. \A k \in 0..m : k # 0 => g[k - 1] = f[k - 1]
      <4>1. \A k \in 0..m : k # 0 => k - 1 \in 0..(m - 1)
        BY <2>3
      <4> HIDE DEF g
      <4> QED
        BY <2>6, <4>1
    <3>3. \A k \in 0..m : KeptOf(q, k, f[k - 1]) = KeptOf(q, k, g[k - 1])
      BY <3>2 DEF KeptOf
    <3>4. \A k \in 0..m : g[k] \in Seq(Event)
      BY <2>3, <2>5, <2>6, <2>8
    <3> QED
      BY <3>1, <3>3, <3>4
  <2> QED
    BY <2>3, <2>9
<1>2. PICK f : Keeps(f, Len(q))
  <2>1. Len(q) \in 0..Len(q)
    OBVIOUS
  <2> HIDE DEF Keeps
  <2> QED
    BY <1>1, <2>1
<1> DEFINE upTo[k \in 0..Len(q)] ==
               IF k = 0 THEN <<>>
               ELSE IF q[k].op \in {"row", "invalidate"} THEN upTo[k - 1]
               ELSE Append(upTo[k - 1], q[k])
<1>3. f = [k \in 0..Len(q) |->
              IF k = 0 THEN <<>>
              ELSE IF q[k].op \in {"row", "invalidate"} THEN f[k - 1]
              ELSE Append(f[k - 1], q[k])]
  BY <1>2 DEF KeptOf
<1>4. upTo = [k \in 0..Len(q) |->
                 IF k = 0 THEN <<>>
                 ELSE IF q[k].op \in {"row", "invalidate"} THEN upTo[k - 1]
                 ELSE Append(upTo[k - 1], q[k])]
  BY <1>3, Zenon DEF upTo
<1>5. Discard(q) = upTo[Len(q)]
  BY Zenon DEF Discard, upTo
<1> HIDE DEF upTo
<1> DEFINE Differs == {k \in 0..Len(q) : upTo[k] # f[k]}
<1>6. Differs = {}
  <2>1. SUFFICES ASSUME Differs # {} PROVE FALSE
    OBVIOUS
  <2>2. PICK m \in Differs : \A k \in Differs : ~(k < m)
    <3>1. Differs \subseteq Nat
      OBVIOUS
    <3> HIDE DEF Differs
    <3> QED
      BY <2>1, <3>1, LeastOne
  <2>3. m = 0 \/ upTo[m - 1] = f[m - 1]
    BY <2>2
  <2>4. upTo[m] = f[m]
    BY <1>3, <1>4, <2>3
  <2> QED
    BY <2>2, <2>4
<1> QED
  BY <1>2, <1>5, <1>6

\* A broadcast leaves a queue of events, and one that has something to clear the list in
\* it if it had before, or if that is what was broadcast.
LEMMA PutLeavesEvents ==
    ASSUME NEW q \in Seq(Event), NEW e \in Event
    PROVE  /\ Put(q, e) \in Seq(Event) /\ Len(Put(q, e)) <= QueueSize
           /\ (\/ Clears(e) \/ \E k \in 1..Len(q) : Clears(q[k])) =>
                  \E k \in 1..Len(Put(q, e)) : Clears(Put(q, e)[k])
<1>1. Plain("resync") \in Event
  BY DEF Plain, Event
<1>2. CASE Len(q) < QueueSize
  <2>1. /\ Put(q, e) \in Seq(Event) /\ Len(Put(q, e)) = Len(q) + 1
        /\ Put(q, e)[Len(q) + 1] = e
        /\ \A k \in 1..Len(q) : Put(q, e)[k] = q[k]
    BY <1>2 DEF Put
  <2>2. Len(Put(q, e)) <= QueueSize
    BY <1>2, <2>1, OccurrenceAssumption
  <2>3. 1..Len(q) \subseteq 1..(Len(q) + 1) /\ Len(q) + 1 \in 1..(Len(q) + 1)
    OBVIOUS
  <2> QED
    BY <2>1, <2>2, <2>3
<1>3. CASE ~(Len(q) < QueueSize)
  <2>1. Put(q, e) = <<Plain("resync"), e>>
    BY <1>3 DEF Put
  <2>2. Clears(Plain("resync"))
    BY DEF Clears, Plain
  <2> QED
    BY <1>1, <2>1, <2>2, OccurrenceAssumption
<1> QED
  BY <1>2, <1>3

\* Events and pages carry cards.
LEMMA EventsAreTyped ==
    /\ \A c \in Nat : [op |-> "row", of |-> c] \in Event
    /\ \A op \in {"invalidate", "resync", "other", None} : Plain(op) \in Event
    /\ NoEvent \in Event /\ NoEvent.of = 0 /\ ~Clears(NoEvent)
    /\ \A e \in Event : e.of \in Nat /\ (e.op # "row" => e.of = 0)
    /\ NoPage \in Pages /\ NoPage.of = 0 /\ NoPage.state = None
    /\ \A p \in Pages : p.of \in Nat
<1>1. \A c \in Nat : [op |-> "row", of |-> c] \in Event
  BY DEF Event
<1>2. \A op \in {"invalidate", "resync", "other", None} : Plain(op) \in Event
  BY DEF Event, Plain
<1>3. NoEvent \in Event /\ NoEvent.of = 0 /\ ~Clears(NoEvent)
  BY <1>2 DEF Plain, NoEvent, Clears, None
<1>4. \A e \in Event : e.of \in Nat /\ (e.op # "row" => e.of = 0)
  BY DEF Event
<1>5. NoPage \in Pages /\ NoPage.of = 0 /\ NoPage.state = None
  BY DEF Pages, NoPage
<1>6. \A p \in Pages : p.of \in Nat
  <2>1. \A p \in [state : {None, "asked", "failed"}, of : {0}, early : {FALSE}] : p.of \in Nat
    OBVIOUS
  <2>2. \A p \in [state : {"answered"}, of : Nat, early : BOOLEAN] : p.of \in Nat
    OBVIOUS
  <2> QED
    BY <2>1, <2>2 DEF Pages
<1> QED
  BY <1>1, <1>2, <1>3, <1>4, <1>5, <1>6

\* Nothing is stale that says nothing, nor what the notification says.
LEMMA FreshContents ==
    ASSUME IInv
    PROVE  ~Stale(0) /\ ~Stale(Card(row))
  BY DEF Stale, Card, IInv, NothingWithdrawnIsKept, NoContent

-----------------------------------------------------------------------------
(* The steps and the feed.                                                 *)

\* Who does not touch the feed may withdraw more only if it has been told to say so.
LEMMA FeedUntouched ==
    ASSUME FeedInv, IInv,
           UNCHANGED <<queue, wire, connection, shown, page>>,
           boot' # "up" => boot # "up",
           "page" \in lost => "page" \in lost', "feed" \in lost => "feed" \in lost',
           (Card(row)' = 0 /\ ~Erased(doc)') => (Card(row) = 0 /\ ~Erased(doc)),
           Owed => Owed' \/ "feed" \in lost',
           \/ connection = "down" \/ Owed'
           \/ Card(row) = 0 /\ ~Erased(doc)
           \/ \A c \in Nat : Stale(c)' => Stale(c)
    PROVE  FeedInv'
<1> USE DEF FeedInv
<1>1. FeedTypes' /\ Closed' /\ Published'
  BY DEF FeedTypes, Closed, Published
<1>2. Followed'
  <2>1. SUFFICES ASSUME connection = "open", lost' \cap {"feed", "page"} = {}, ~Owed'
                 PROVE  Followed'
    BY DEF Followed
  <2>2. lost \cap {"feed", "page"} = {} /\ ~Owed /\ Queued' = Queued
    BY <2>1 DEF Queued
  <2>3. wire.of \in Nat /\ shown \in Nat /\ page.of \in Nat
    BY EventsAreTyped DEF FeedTypes
  <2>4. CASE \A c \in Nat : Stale(c)' => Stale(c)
    BY <2>1, <2>2, <2>3, <2>4 DEF Followed
  <2>5. CASE Card(row) = 0 /\ ~Erased(doc)
    <3>1. shown = 0 /\ wire.of = 0 /\ page.of = 0
      BY <2>5 DEF Published
    <3>2. ~Stale(0)'
      BY DEF Stale
    <3> QED
      BY <3>1, <3>2 DEF Followed
  <2> QED
    BY <2>1, <2>4, <2>5
<1> QED
  BY <1>1, <1>2

\* A broadcast only puts something behind what is on its way.
LEMMA FeedBroadcast ==
    ASSUME FeedInv, NEW e \in Event, Broadcast(e),
           UNCHANGED <<doc, row, boot, wire, connection, shown, page, lost>>,
           Owed => Owed'
    PROVE  FeedInv'
<1> USE DEF FeedInv
<1>1. FeedTypes' /\ (Queued => Queued')
  BY PutLeavesEvents DEF FeedTypes, Broadcast, Queued
<1>2. Closed' /\ Published'
  BY DEF FeedTypes, Closed, Published, Broadcast, Erased
<1>3. \A c : Stale(c)' <=> Stale(c)
  BY DEF Stale, Erased
<1>4. Followed'
  BY <1>1, <1>3 DEF Followed
<1> QED
  BY <1>1, <1>2, <1>4

\* A withdrawal is behind everything that was announced, or its row never was.
LEMMA FeedWithdraw ==
    ASSUME FeedInv, IInv, NEW w \in {"person"} \cup Sweepers, Withdraw(w)
    PROVE  FeedInv'
<1> USE DEF FeedInv
<1>1. w \in Jobs /\ job[w].at = "withdraw"
  BY Names DEF Withdraw, At, Jobs, Others, Sweepers
<1>2. /\ job'[w].at = "callbacks"
      /\ \A v \in Jobs \ {w} : job'[v] = job[v]
      /\ UNCHANGED <<doc, row, boot, wire, connection, shown, page, lost>>
  BY <1>1 DEF Withdraw, Move, MoveWith, IInv, Shape, store, process, browser
<1>3. "person" \in Jobs /\ Sweepers \subseteq Jobs /\ "person" \notin Sweepers
  BY Names
<1>4. \A c : Stale(c)' <=> Stale(c)
  BY <1>2 DEF Stale, Erased
<1>5. CASE job[w].of = 0
  <2>1. Owed => Owed'
    BY <1>1, <1>2, <1>3, <1>5 DEF Owed
  <2>2. queue' = queue
    BY <1>5 DEF Withdraw
  <2> QED
    BY <1>2, <1>4, <2>1, <2>2, FeedUntouched DEF Erased
<1>6. CASE job[w].of # 0 /\ connection = "open"
  <2>1. queue' = Put(Discard(queue), Plain("invalidate"))
    BY <1>6 DEF Withdraw
  <2>2. Discard(queue) \in Seq(Event) /\ Plain("invalidate") \in Event
        /\ Clears(Plain("invalidate"))
    BY DiscardLeavesEvents, EventsAreTyped DEF FeedTypes, Clears, Plain
  <2>3. queue' \in Seq(Event) /\ Len(queue') <= QueueSize /\ Queued'
    BY <2>1, <2>2, PutLeavesEvents DEF Queued
  <2>4. FeedTypes'
    BY <1>2, <2>3 DEF FeedTypes
  <2>5. Closed' /\ Published' /\ Followed'
    BY <1>2, <1>6, <2>3 DEF Closed, Published, Followed, Erased
  <2> QED
    BY <2>4, <2>5
<1>7. CASE job[w].of # 0 /\ connection # "open"
  <2>1. connection = "down" /\ queue' = queue
    BY <1>7 DEF Withdraw, FeedTypes
  <2> QED
    BY <1>2, <2>1 DEF FeedTypes, Closed, Published, Followed, Erased
<1> QED
  BY <1>5, <1>6, <1>7

\* The browser's side of the feed.
LEMMA FeedConnect ==
    ASSUME FeedInv, IInv, Connect
    PROVE  FeedInv'
<1> USE DEF FeedInv, Connect, store, process
<1>1. FeedTypes' /\ Closed' /\ Published'
  BY DEF FeedTypes, Closed, Published, Erased
<1>2. Followed'
  <2>1. ~Stale(0)' /\ NoEvent.of = 0
    BY EventsAreTyped DEF Stale
  <2> QED
    BY <2>1 DEF FeedTypes, Closed, Followed
<1> QED
  BY <1>1, <1>2

\* A snapshot goes out if it is what the notification says; what clears the list, always.
LEMMA FeedSend ==
    ASSUME FeedInv, IInv, Send
    PROVE  FeedInv'
<1> USE DEF FeedInv, Send, store, process, browser
<1>1. /\ Head(queue) \in Event /\ Head(queue) = queue[1] /\ queue' \in Seq(Event)
      /\ Len(queue') = Len(queue) - 1 /\ Len(queue) > 0
      /\ \A k \in 1..Len(queue') : queue'[k] = queue[k + 1]
  BY DEF FeedTypes
<1>2. \A c : Stale(c)' <=> Stale(c)
  BY DEF Stale, Erased
<1>3. ~Stale(wire'.of) /\ (Card(row) = 0 => wire'.of = 0)
  BY <1>1, FreshContents, EventsAreTyped DEF Visible
<1>4. Queued => Clears(wire') \/ Queued'
  <2>1. ASSUME NEW k \in 1..Len(queue), Clears(queue[k]) PROVE Clears(wire') \/ Queued'
    <3>1. CASE k = 1
      BY <1>1, <2>1, <3>1 DEF Visible, Clears
    <3>2. CASE k # 1
      <4>1. k - 1 \in 1..Len(queue') /\ queue'[k - 1] = queue[k]
        BY <1>1, <3>2
      <4> QED
        BY <2>1, <4>1 DEF Queued
    <3> QED
      BY <3>1, <3>2
  <2> QED
    BY <2>1 DEF Queued
<1>5. FeedTypes'
  BY <1>1, EventsAreTyped, OccurrenceAssumption DEF FeedTypes
<1>6. Closed' /\ Published'
  BY <1>3 DEF FeedTypes, Closed, Published, Erased
<1>7. Followed'
  BY <1>2, <1>3, <1>4, EventsAreTyped DEF Followed, Owed
<1> QED
  BY <1>5, <1>6, <1>7

\* What clears the list also ends what was lost of the feed before.
LEMMA FeedReceive ==
    ASSUME FeedInv, IInv, Receive
    PROVE  FeedInv'
<1> USE DEF FeedInv, Receive, store, process
<1>1. \A c : Stale(c)' <=> Stale(c)
  BY DEF Stale, Erased
<1>2. connection = "open" /\ boot = "up" /\ wire' = NoEvent
  BY DEF FeedTypes, Closed
<1>3. FeedTypes'
  BY EventsAreTyped, Names DEF FeedTypes, Clear, Shows, browser
<1>4. Closed'
  BY <1>2 DEF Closed
<1>5. CASE wire.op \in {"invalidate", "resync"} /\ Clear
  BY <1>1, <1>2, <1>3, <1>4, <1>5, FreshContents, EventsAreTyped
  DEF Published, Followed, Clear, Shows, None
<1>6. CASE wire.op = "row" /\ Shows(wire.of) /\ UNCHANGED <<timer, page, lost>>
  <2>1. Published'
    BY <1>2, <1>6, EventsAreTyped DEF Published, Shows, Erased
  <2>2. Followed'
    BY <1>1, <1>2, <1>6, FreshContents, EventsAreTyped
    DEF Followed, Shows, Owed, Queued, Clears
  <2> QED
    BY <1>3, <1>4, <2>1, <2>2
<1>7. CASE wire.op = "other" /\ UNCHANGED <<browser, lost>>
  BY <1>1, <1>2, <1>3, <1>4, <1>7, FreshContents, EventsAreTyped
  DEF Published, Followed, Owed, Queued, Clears, browser, Erased
<1> QED
  BY <1>3, <1>4, <1>5, <1>6, <1>7

\* A page says what the notification said when it was answered.
LEMMA FeedPage ==
    ASSUME FeedInv, IInv, Refresh \/ Answer \/ ListFails \/ Arrive
    PROVE  FeedInv'
<1> USE DEF FeedInv, store, process, stream
<1>1. /\ UNCHANGED <<doc, row, job, boot, queue, wire, connection>>
      /\ \A c : Stale(c)' <=> Stale(c)
  BY DEF Refresh, Answer, ListFails, Arrive, Stale, Erased
<1>2. CASE Refresh \/ ListFails
  <2>1. page'.state \in {"asked", "failed"} /\ page'.of = 0 /\ page' \in Pages
        /\ UNCHANGED <<shown, lost>>
    BY <1>2 DEF Refresh, ListFails, Pages, NoPage
  <2> QED
    BY <1>1, <2>1 DEF FeedTypes, Closed, Published, Followed, Owed, Queued, Erased
<1>3. CASE Answer
  <2>1. /\ page'.of = Card(row) /\ page'.state = "answered" /\ page' \in Pages
        /\ page'.early <=> connection = "down"
        /\ UNCHANGED <<shown, lost>>
    BY <1>3 DEF Answer, Pages, Card, Content, IInv, Shape
  <2> QED
    BY <1>1, <2>1, FreshContents DEF FeedTypes, Closed, Published, Followed, Owed, Queued, Erased
<1>4. CASE Arrive
  <2>1. /\ page.state = "answered" /\ page'.state = None /\ page'.of = 0 /\ page' \in Pages
        /\ shown' = IF page.of = 0 THEN shown ELSE page.of
        /\ lost' = IF page.early /\ page.of # 0 THEN lost \cup {"page"} ELSE lost
    BY <1>4, EventsAreTyped DEF Arrive, Shows
  <2>2. FeedTypes' /\ Closed' /\ Published'
    BY <1>1, <2>1, EventsAreTyped DEF FeedTypes, Closed, Published, Erased, None
  <2>3. Followed'
    BY <1>1, <2>1 DEF Followed, Owed, Queued, None
  <2> QED
    BY <2>2, <2>3
<1> QED
  BY <1>2, <1>3, <1>4

\* A stream that drops takes everything with it; the browser empties its list.
LEMMA FeedDropped ==
    ASSUME FeedInv, Disconnect \/ Crash
    PROVE  FeedInv'
<1>1. /\ queue' = <<>> /\ wire' = NoEvent /\ connection' = "down"
      /\ shown' = 0 /\ page' = NoPage
  BY DEF Disconnect, Crash, Disconnected, Shows
<1>2. FeedTypes'
  BY <1>1, EventsAreTyped, Names, OccurrenceAssumption DEF FeedTypes
<1> QED
  BY <1>1, <1>2, EventsAreTyped DEF FeedInv, Closed, Published, Followed, None

\* Recorders, annotations and requests leave the feed alone; what they write of an
\* occurrence is not stale.
LEMMA FeedRecorders ==
    ASSUME FeedInv, IInv, NEW r \in Recorders,
           \/ Register(r) \/ Record(r) \/ RecordClosed(r) \/ Unregister(r) \/ Receipt(r)
           \/ Interrupt(r) \/ Capture(r)
    PROVE  FeedInv'
<1> USE Names DEF store, process, view, stream, browser, bounds
<1>1. UNCHANGED <<queue, wire, connection, shown, page, lost, boot, row>>
  BY DEF Register, Record, RecordClosed, Unregister, Receipt, Interrupt, Capture
<1>2. Owed => Owed'
  <2>1. r # "person" /\ r \notin Sweepers /\ "person" \in Jobs /\ Sweepers \subseteq Jobs
    OBVIOUS
  <2>2. \A v \in Jobs \ {r} : job'[v] = job[v]
    BY DEF Register, Record, RecordClosed, Unregister, Receipt, Interrupt, Capture, Move, MoveWith,
       IInv, Shape
  <2> QED
    BY <2>1, <2>2 DEF Owed
<1>3. (~Erased(doc)' => ~Erased(doc)) /\ \A c \in Nat : Stale(c)' => Stale(c)
  <2>1. CASE Record(r)
    <3>1. CASE \E lifecycle \in {"OPEN", "UPDATE", "CLOSE"} : Create(r, lifecycle)
      BY <3>1 DEF Create, Erased, Stale, None
    <3>2. CASE \E lifecycle \in {"OPEN", "UPDATE", "CLOSE"}, late \in BOOLEAN :
                  Change(lifecycle, late)
      <4>1. PICK lifecycle \in {"OPEN", "UPDATE", "CLOSE"}, late \in BOOLEAN :
                    Change(lifecycle, late)
        BY <3>2
      <4>2. ~Erased(doc)' /\ ~Erased(doc) /\ doc'.allowed = doc.allowed
        BY <4>1 DEF Change, Available, Saved, Erased, IInv, Shape, Docs
      <4> QED
        BY <4>2 DEF Stale
    <3> QED
      BY <2>1, <3>1, <3>2 DEF Record
  <2>2. CASE Interrupt(r)
    <3>1. doc'.status = doc.status /\ doc'.allowed = doc.allowed
      BY <2>2, DocInterrupted DEF Interrupt, IInv, Shape
    <3> QED
      BY <3>1 DEF Stale, Erased
  <2>3. CASE Register(r) \/ RecordClosed(r) \/ Unregister(r) \/ Receipt(r) \/ Capture(r)
    <3>1. doc' = doc
      BY <2>3 DEF Register, RecordClosed, Unregister, Receipt, Capture
    <3> QED
      BY <3>1 DEF Stale, Erased
  <2> QED
    BY <2>1, <2>2, <2>3
<1> QED
  BY <1>1, <1>2, <1>3, FeedUntouched

\* A publication brings the notification to what may be said, and its announcement is
\* a broadcast.
LEMMA FeedPublish ==
    ASSUME FeedInv, IInv, NEW w \in Jobs, Publish(w) \/ Announce(w)
    PROVE  FeedInv'
<1> USE Names DEF store, process, view, stream, browser, bounds
<1>1. UNCHANGED <<doc, boot, wire, connection, shown, page>>
  BY DEF Publish, Announce
<1>2. Owed => Owed'
  <2>1. job[w].at \in {"publish", "announce"} /\ "person" \in Jobs /\ Sweepers \subseteq Jobs
    BY DEF Publish, Announce, At
  <2>2. \A v \in Jobs \ {w} : job'[v] = job[v]
    BY DEF Publish, Announce, Move, MoveWith, IInv, Shape
  <2> QED
    BY <2>1, <2>2 DEF Owed
<1>3. CASE Publish(w)
  <2>1. UNCHANGED queue /\ (Card(row)' = 0 => Card(row) = 0)
    BY <1>3 DEF Publish, Card, Available, IInv, Shape, Docs, Numbered, Projection, None
  <2>2. ("page" \in lost' <=> "page" \in lost) /\ ("feed" \in lost' <=> "feed" \in lost)
    BY <1>3 DEF Publish
  <2> QED
    BY <1>1, <1>2, <2>1, <2>2, FeedUntouched DEF Stale, Erased
<1>4. CASE Announce(w)
  <2>1. [op |-> "row", of |-> job[w].of] \in Event
    BY EventsAreTyped DEF IInv, Shape
  <2> QED
    BY <1>1, <1>2, <1>4, <2>1, FeedBroadcast DEF Announce
<1> QED
  BY <1>3, <1>4

\* An annotation adds to what is allowed.
LEMMA FeedEnrich ==
    ASSUME FeedInv, IInv, Enrich
    PROVE  FeedInv'
<1> USE Names DEF store, process, view, stream, browser, bounds
<1>1. UNCHANGED <<queue, wire, connection, shown, page, lost, boot, row>>
  BY DEF Enrich
<1>2. Owed => Owed'
  BY DEF Owed, Enrich, Move, MoveWith, IInv, Shape, Others, Sweepers
<1>3. doc'.status = doc.status /\ doc'.allowed = doc.allowed
  BY DocAnnotated DEF Enrich, IInv, Shape
<1> QED
  BY <1>1, <1>2, <1>3, FeedUntouched DEF Stale, Erased

\* An erasure or a revocation leaves the one who made it with what was published.
LEMMA FeedWithdrawn ==
    ASSUME FeedInv, IInv, Erase \/ Revoke \/ \E s \in Sweepers : SweepErases(s)
    PROVE  FeedInv'
<1> USE Names DEF store, process, view, stream, browser, bounds
<1>1. UNCHANGED <<queue, wire, connection, shown, page, lost, boot>>
  BY DEF Erase, Revoke, SweepErases
<1>2. PICK w \in {"person"} \cup Sweepers :
          /\ w = "person" => job[w].at \in {"erase", "revoke"}
          /\ w # "person" => job[w].at = "erase"
          /\ \/ /\ Move(w, "idle") \/ Move(w, "maintain")
                /\ UNCHANGED <<doc, row>>
             \/ /\ ~Erased(doc)
                /\ w = "person" => MoveWith(w, "withdraw", row.rev)
                /\ w # "person" => MoveWith(w, "remove", row.rev)
  BY DEF Erase, Revoke, SweepErases, Available, At
<1>3. w \in Jobs /\ \A v \in Jobs \ {w} : job'[v] = job[v]
  BY <1>2 DEF Move, MoveWith, IInv, Shape
<1>4. Owed => Owed'
  <2>1. "person" \in Jobs /\ Sweepers \subseteq Jobs /\ "person" \notin Sweepers
    OBVIOUS
  <2> QED
    BY <1>2, <1>3, <2>1 DEF Owed
<1>5. CASE UNCHANGED <<doc, row>>
  BY <1>1, <1>4, <1>5, FeedUntouched DEF Stale, Erased, Card
<1>6. CASE ~UNCHANGED <<doc, row>>
  <2>1. ~Erased(doc) /\ (Card(row) = 0 \/ Owed')
    BY <1>2, <1>3, <1>6 DEF Owed, MoveWith, Card, IInv, Shape
  <2>2. (Card(row)' = 0 /\ ~Erased(doc)') => Card(row) = 0
    <3>1. CASE Erase \/ \E s \in Sweepers : SweepErases(s)
      BY <1>6, <3>1, DocErased DEF Erase, SweepErases, EraseRows, IInv, Shape
    <3>2. CASE Revoke
      <4>1. row' = IF row = NoContent THEN row ELSE Projection(Scrubbed(doc))
        BY <1>6, <3>2 DEF Revoke
      <4>2. Projection(Scrubbed(doc)).rev # 0
        BY DocScrubbed DEF Projection, IInv, Shape
      <4> QED
        BY <4>1, <4>2 DEF Card
    <3> QED
      BY <3>1, <3>2
  <2> QED
    BY <1>1, <1>4, <2>1, <2>2, FeedUntouched
<1> QED
  BY <1>5, <1>6

\* The other steps of a request.
LEMMA FeedPerson ==
    ASSUME FeedInv, IInv, Ask \/ CallbacksReturn \/ CallbackRaises \/ RemoveImages
    PROVE  FeedInv'
<1> USE Names DEF store, process, view, stream, browser, bounds
<1>1. UNCHANGED <<queue, wire, connection, shown, page, boot, doc, row>>
  BY DEF Ask, CallbacksReturn, CallbackRaises, RemoveImages
<1>2. ("page" \in lost' <=> "page" \in lost) /\ ("feed" \in lost' <=> "feed" \in lost)
  BY DEF Ask, CallbacksReturn, CallbackRaises, RemoveImages
<1>3. Owed => Owed'
  <2>1. "person" \in Jobs /\ Sweepers \subseteq Jobs /\ "person" \notin Sweepers
        /\ job["person"].at # "withdraw"
    BY DEF Ask, CallbacksReturn, CallbackRaises, RemoveImages, At
  <2>2. \A v \in Jobs \ {"person"} : job'[v] = job[v]
    BY DEF Ask, CallbacksReturn, CallbackRaises, RemoveImages, Move, MoveWith, IInv, Shape
  <2> QED
    BY <2>1, <2>2 DEF Owed
<1> QED
  BY <1>1, <1>2, <1>3, FeedUntouched DEF Stale, Erased

\* The clock and a sweep: what it has erased it carries to its withdrawal, and a sweep
\* that a file ends is noted.
LEMMA FeedSweep ==
    ASSUME FeedInv, IInv, NEW s \in Sweepers,
           \/ Expire \/ ImagesExpire
           \/ SweepBegins(s) \/ SweepOfMedia(s) \/ SweepStops(s) \/ SweepEnds(s)
    PROVE  FeedInv'
<1> USE Names DEF store, process, view, stream, browser, bounds
<1>1. UNCHANGED <<queue, wire, connection, shown, page, boot, doc, row>>
  BY DEF Expire, ImagesExpire, SweepBegins, SweepOfMedia, SweepStops, SweepEnds
<1>2. ("page" \in lost' <=> "page" \in lost) /\ ("feed" \in lost => "feed" \in lost')
  BY DEF Expire, ImagesExpire, SweepBegins, SweepOfMedia, SweepStops, SweepEnds
<1>3. Owed => Owed' \/ "feed" \in lost'
  <2>1. "person" \in Jobs /\ Sweepers \subseteq Jobs /\ "person" \notin Sweepers
    OBVIOUS
  <2>2. CASE Expire \/ ImagesExpire
    BY <2>2 DEF Expire, ImagesExpire, Owed
  <2>3. CASE SweepBegins(s) \/ SweepOfMedia(s) \/ SweepStops(s) \/ SweepEnds(s)
    <3>1. \A v \in Jobs \ {s} : job'[v] = job[v]
      BY <2>3 DEF SweepBegins, SweepOfMedia, SweepDeletes, SweepStops, SweepEnds, Move, MoveWith,
         IInv, Shape
    <3>2. (job[s].at \in {"remove", "maintain", "withdraw"} /\ job[s].of # 0) =>
              \/ job'[s].at \in {"remove", "maintain", "withdraw"} /\ job'[s].of # 0
              \/ "feed" \in lost'
      BY <2>1, <2>3 DEF SweepBegins, SweepOfMedia, SweepDeletes, SweepStops, SweepEnds, At,
         Move, MoveWith, IInv, Shape
    <3> QED
      BY <2>1, <3>1, <3>2 DEF Owed
  <2> QED
    BY <2>2, <2>3
<1> QED
  BY <1>1, <1>2, <1>3, FeedUntouched DEF Stale, Erased, Card

\* At startup no stream is open.
LEMMA FeedStartup ==
    ASSUME FeedInv, IInv, Startup \/ StartupFails
    PROVE  FeedInv'
<1> USE Names DEF store, process, view, stream, browser, bounds
<1>1. /\ UNCHANGED <<queue, wire, connection, shown, page, job>> /\ boot # "up"
      /\ ("page" \in lost' <=> "page" \in lost) /\ ("feed" \in lost' <=> "feed" \in lost)
  BY DEF Startup, StartupFails
<1>2. connection = "down"
  BY <1>1 DEF FeedInv, Closed
<1>3. (Card(row)' = 0 /\ ~Erased(doc)') => (Card(row) = 0 /\ ~Erased(doc))
  <2>1. CASE EraseRows("expired")
    BY <2>1, DocErased DEF EraseRows, IInv, Shape
  <2>2. CASE UNCHANGED doc /\ row' = IF Available THEN Projection(doc) ELSE row
    BY <2>2 DEF Card, Available, IInv, Shape, Docs, Numbered, Projection, None, Erased
  <2>3. CASE UNCHANGED row /\ doc' = Saved([doc EXCEPT !.status = "CLOSE"]) /\ Open(doc)
    BY <2>3 DEF Card, Open, Erased
  <2>4. CASE UNCHANGED <<doc, row>>
    BY <2>4 DEF Card, Erased
  <2> QED
    BY <2>1, <2>2, <2>3, <2>4 DEF Startup, StartupFails
<1>4. Owed => Owed'
  BY <1>1 DEF Owed
<1>5. FeedTypes' /\ Published'
  BY <1>1, <1>3 DEF FeedInv, FeedTypes, Published
<1>6. Closed' /\ Followed'
  BY <1>1, <1>2 DEF FeedInv, Closed, Followed
<1> QED
  BY <1>5, <1>6 DEF FeedInv

LEMMA FeedInit == Init => FeedInv
<1> SUFFICES ASSUME Init PROVE FeedInv
  OBVIOUS
<1> QED
  BY EventsAreTyped, Names, OccurrenceAssumption
  DEF Init, FeedInv, FeedTypes, Closed, Published, Followed, None

\* Every step keeps the feed.
LEMMA FeedStep == FeedInv /\ IInv /\ [Next]_vars => FeedInv'
<1> SUFFICES ASSUME FeedInv, IInv, [Next]_vars PROVE FeedInv'
  OBVIOUS
<1>1. ASSUME NEW r \in Recorders,
             \/ Register(r) \/ Record(r) \/ RecordClosed(r) \/ Unregister(r) \/ Recording(r)
      PROVE  FeedInv'
  BY <1>1, Names, FeedRecorders, FeedPublish DEF Recording
<1>2. CASE Enrich \/ Publish("annotator") \/ Announce("annotator")
  BY <1>2, Names, FeedEnrich, FeedPublish DEF Others, Sweepers
<1>3. CASE Ask \/ Person \/ CallbackRaises
  BY <1>3, Names, FeedPerson, FeedPublish, FeedWithdrawn, FeedWithdraw DEF Others, Sweepers, Person
<1>4. CASE \/ Expire \/ ImagesExpire
           \/ \E s \in Sweepers : SweepBegins(s) \/ Sweep(s) \/ SweepStops(s)
  <2>1. Sweepers # {}
    BY DEF Sweepers
  <2> QED
    BY <1>4, <2>1, FeedSweep, FeedWithdrawn, FeedWithdraw DEF Sweep
<1>5. CASE \/ Connect \/ Send \/ Receive \/ Refresh \/ Page \/ ListFails \/ Disconnect
           \/ Crash \/ Startup \/ StartupFails
  BY <1>5, FeedConnect, FeedSend, FeedReceive, FeedPage, FeedDropped, FeedStartup DEF Page
<1>6. CASE OtherNotice
  <2>1. Plain("other") \in Event
    BY EventsAreTyped
  <2> QED
    BY <1>6, <2>1, FeedBroadcast DEF OtherNotice, store, process, browser, Owed
<1>7. CASE UNCHANGED vars
  <2>1. UNCHANGED <<doc, row, boot, job, queue, wire, connection, shown, page, lost>>
    BY <1>7 DEF vars, store, view, stream, browser, process
  <2> QED
    BY <2>1, FeedUntouched DEF Owed, Stale, Erased
<1> QED
  BY <1>1, <1>2, <1>3, <1>4, <1>5, <1>6, <1>7 DEF Next

\* Once an open feed is drained, the browser shows nothing of an erased occurrence: a
\* withdrawal is behind every card and every page that could bring it back, and survives
\* the queue's overflow, whichever of a person and overlapping sweeps erased it.
THEOREM WithdrawnIsNotShown == Spec => []WithdrawnIsHidden
<1>1. IInv /\ FeedInv => WithdrawnIsHidden
  <2>1. SUFFICES ASSUME FeedInv, Drained, lost \cap {"feed", "page"} = {}
                 PROVE  Erased(doc) => shown = 0
    BY DEF WithdrawnIsHidden
  <2>2. ~Queued /\ ~Owed /\ ~Clears(wire)
    BY <2>1, EventsAreTyped DEF Drained, Queued, Owed
  <2>3. ~Stale(shown)
    BY <2>1, <2>2 DEF FeedInv, Followed, Drained
  <2> QED
    BY <2>3 DEF Stale
<1> QED
  BY <1>1, FeedInit, FeedStep, Invariance, PTL DEF Spec

-----------------------------------------------------------------------------
(* The types that neither argument needed.                                 *)

Flags ==
    /\ due \in BOOLEAN /\ reference \in BOOLEAN /\ timer \in BOOLEAN
    /\ delivery \in {None, "requested", "confirmed", "unknown"}
    /\ crops \subseteq Recorders
    /\ lost \subseteq {"row", "images", "feed", "page"}

\* Every step keeps them.
LEMMA FlagsKeep == Flags /\ IInv /\ [Next]_vars => Flags'
<1> SUFFICES ASSUME Flags, IInv, [Next]_vars PROVE Flags'
  OBVIOUS
<1> USE DEF Flags
<1>1. ASSUME NEW w \in Jobs, Publish(w) \/ Announce(w) PROVE Flags'
  BY <1>1 DEF Publish, Announce, store, process, browser, view, bounds
<1>2. ASSUME NEW r \in Recorders,
             \/ Register(r) \/ Record(r) \/ RecordClosed(r) \/ Unregister(r) \/ Recording(r)
      PROVE  Flags'
  <2>1. CASE Register(r) \/ Unregister(r) \/ Receipt(r) \/ Interrupt(r) \/ Capture(r)
    BY <2>1 DEF Register, Unregister, Receipt, Interrupt, Capture, store, process, view, browser
  <2>2. CASE Record(r)
    <3>1. PICK lifecycle \in {"OPEN", "UPDATE", "CLOSE"} :
              \E late \in BOOLEAN :
                 /\ Create(r, lifecycle) \/ Change(lifecycle, late)
                 /\ crops' = IF setup.captures /\ lifecycle # "CLOSE" THEN crops \cup {r} ELSE crops
                 /\ reference' = (reference \/ (setup.enrich /\ Open(doc') /\ doc'.allowed))
      BY <2>2 DEF Record
    <3>2. delivery' \in {"requested", delivery}
      BY <3>1 DEF Create, Change
    <3>3. reference' \in BOOLEAN /\ crops' \subseteq Recorders
      BY <3>1
    <3> QED
      BY <2>2, <3>2, <3>3 DEF Record, view, browser
  <2>3. CASE RecordClosed(r)
    BY <2>3 DEF RecordClosed, store, view, browser
  <2>4. CASE Publish(r) \/ Announce(r)
    BY <2>4, <1>1, Names
  <2> QED
    BY <1>2, <2>1, <2>2, <2>3, <2>4 DEF Recording
<1>3. CASE Enrich
  BY <1>3 DEF Enrich, view, browser
<1>4. ASSUME NEW w \in {"person"} \cup Sweepers, Withdraw(w) PROVE Flags'
  BY <1>4 DEF Withdraw, store, process, browser
<1>5. CASE Ask \/ Erase \/ Revoke \/ CallbacksReturn \/ RemoveImages \/ CallbackRaises
  BY <1>5 DEF Ask, Erase, EraseRows, Revoke, CallbacksReturn, RemoveImages, CallbackRaises,
     store, process, view, browser
<1>6. CASE \/ Expire \/ ImagesExpire
           \/ \E s \in Sweepers : \/ SweepBegins(s) \/ SweepErases(s) \/ SweepOfMedia(s)
                                 \/ SweepEnds(s) \/ SweepStops(s)
  BY <1>6 DEF Expire, ImagesExpire, SweepBegins, SweepErases, EraseRows, SweepOfMedia, SweepEnds,
     SweepStops, store, process, view, browser
<1>7. CASE \/ Connect \/ OtherNotice \/ Send \/ Receive \/ Refresh \/ Page \/ ListFails
           \/ Disconnect
  BY <1>7 DEF Connect, OtherNotice, Send, Receive, Clear, Refresh, Page, Answer, Arrive, ListFails,
     Disconnect, Disconnected, store, process, browser
<1>8. CASE Crash \/ Startup \/ StartupFails
  BY <1>8 DEF Crash, Disconnected, Startup, EraseRows, Unfinished, StartupFails, store, view, browser
<1>9. CASE UNCHANGED vars
  BY <1>9 DEF vars, store, process, view, browser
<1> QED
  BY <1>1, <1>2, <1>3, <1>4, <1>5, <1>6, <1>7, <1>8, <1>9, Names DEF Next, Person, Sweep, Others, Sweepers

\* Every variable keeps its type, the queue of a browser its bound and the pages and the
\* events their contents.
THEOREM TypeCorrect == Spec => []TypeOK
<1>1. Init => Flags
  BY DEF Init, Flags
<1>2. IInv /\ FeedInv /\ Flags => TypeOK
  BY DEF IInv, Shape, Docs, Images, FeedInv, FeedTypes, Flags, TypeOK
<1> QED
  BY <1>1, <1>2, FlagsKeep, FeedInit, FeedStep, Invariance, PTL DEF Spec
=============================================================================
