-------------------------- MODULE EventStreamProofs --------------------------
(***************************************************************************)
(* Theorems about EventStream, for every size of the replay, the queues    *)
(* and the inbox and any number of events, epochs, broken connections and  *)
(* restarts: the safety invariants of the stream, and that the pump        *)
(* handles events as EventContract says.                                   *)
(*                                                                         *)
(* The inductive invariant follows an event through the stream.  What the  *)
(* server numbered is in the replay until it is acknowledged or lost; what *)
(* a public stream has still to send, together with what is settled, is    *)
(* everything that was published; and on the way nothing overtakes.        *)
(***************************************************************************)
EXTENDS EventStream, TLAPS, FiniteSetTheorems, SequenceTheorems

(***************************************************************************)
(* The inductive invariant, part by part.                                  *)
(***************************************************************************)
\* What needs not be sent again: the origin handled it, or a full queue or a full
\* replay dropped it.
Settled == admitted \cup lost

Names(events) == {Name(events[k]) : k \in DOMAIN events}

\* The events of epoch e in a sequence come after every event with a lower number that
\* is not in base.
Complete(e, events, base) ==
    \A k \in DOMAIN events :
        events[k].epoch = e =>
            \A i \in 1..(events[k].id - 1) :
                <<e, i>> \in base \/ \E m \in 1..(k - 1) : Name(events[m]) = <<e, i>>

\* The replay holds events of the current epoch, in the order of their numbers.
ReplayInv ==
    /\ \A e \in Epochs : e > epoch => published[e] = 0
    /\ \A k \in DOMAIN replay : replay[k].epoch = epoch /\ replay[k].id <= published[epoch]
    /\ \A j, k \in DOMAIN replay : j < k => replay[j].id < replay[k].id

\* Nothing leaves the replay but what is acknowledged or lost.
RetainedInv ==
    \A i \in 1..published[epoch] :
        \/ i <= acked \/ <<epoch, i>> \in lost \/ (private /\ failed)
        \/ \E k \in DOMAIN replay : replay[k].id = i

\* Where the pump is.
PositionInv ==
    /\ known <= epoch
    /\ known # 0 => cur <= published[known]
    /\ known = 0 => cur = 0 /\ inbox = <<>> /\ handled = <<>>
    /\ private /\ known = 0 => wire = <<>> /\ ~live
    /\ pump = "suspended" => private

\* The history of the pump ends where the pump is.
HandledInv ==
    /\ handled = <<>> => (private => cur = 0)
    /\ handled # <<>> =>
        LET last == handled[Len(handled)]
        IN  IF private THEN last = <<known, cur>>
            ELSE last[1] < known \/ (last[1] = known /\ last[2] <= cur)

\* What the pump passed, what it is acknowledging and what the server forgot is settled.
SettledInv ==
    /\ \A i \in 1..cur : <<known, i>> \in Settled
    /\ \A a \in acks : \A i \in 1..a.id : <<a.epoch, i>> \in Settled
    /\ \A i \in 1..acked : <<epoch, i>> \in Settled

\* The epoch that the origin knows when it comes to the k-th message of a public stream.
Tag(messages, k) == IF k = 1 THEN known ELSE messages[k - 1].epoch
\* Messages of a public stream: the epochs do not go back, each is announced before its
\* events, and no event comes before an earlier one that is not settled.
Proper(messages) ==
    /\ \A k \in DOMAIN messages :
          /\ messages[k].kind # "error"
          /\ Tag(messages, k) <= messages[k].epoch /\ messages[k].epoch <= epoch
          /\ messages[k].kind # "ready" =>
                /\ messages[k].epoch = Tag(messages, k)
                /\ messages[k].id <= published[messages[k].epoch]
    /\ \A e \in Epochs : Complete(e, messages, Settled)
PublicWireInv ==
    ~private =>
        Proper(wire) /\ (live /\ serving # 0 => serving = Tag(wire, Len(wire) + 1))

\* What a public stream has still to send.
PublicQueueInv ==
    live /\ ~private =>
        /\ \A k \in DOMAIN snapshot :
              snapshot[k].epoch <= epoch /\ snapshot[k].id <= published[snapshot[k].epoch]
        /\ \A k \in DOMAIN queue :
              queue[k] = Mark
                \/ (queue[k].epoch <= epoch /\ queue[k].id <= published[queue[k].epoch])
        /\ Complete(epoch, snapshot, Settled \cup Names(wire))
        /\ Complete(epoch, queue, Settled \cup Names(wire) \cup Names(snapshot))
        /\ \A i \in 1..published[epoch] :
              <<epoch, i>> \in Settled \cup Names(wire) \cup Names(snapshot) \cup Names(queue)

\* Why a private stream ends before the event after n.
Cause(n) ==
    known # epoch \/ failed \/ <<epoch, n + 1>> \in lost \/ (restarts > 0 /\ n < acked)

\* A private stream carries the events after the position of the pump one by one, and
\* an error ends it.
PrivateWireInv ==
    private =>
        /\ \A k \in DOMAIN wire :
              \/ wire[k] = ContinuityError /\ k = Len(wire) /\ ~live /\ Cause(cur + k - 1)
              \/ /\ wire[k].epoch = known /\ wire[k].id = cur + k
                 /\ wire[k].kind \notin {"ready", "error"}
                 /\ wire[k].id <= published[known]
        /\ live => serving = known /\ cursor = cur + Len(wire)

\* Without a restart, nothing is acknowledged beyond the position of the pump.
PrivateAckInv ==
    private /\ restarts = 0 =>
        /\ \A a \in acks : a.epoch = known /\ a.id <= cur
        /\ acked > 0 => known = epoch /\ acked <= cur

Types == private \in Streams /\ TypeOK

IInv ==
    /\ Types /\ ReplayInv /\ RetainedInv /\ PositionInv /\ HandledInv /\ SettledInv
    /\ PublicWireInv /\ PublicQueueInv /\ PrivateWireInv /\ PrivateAckInv
    /\ InboxOfOneEpoch /\ SuspendedForCause

(***************************************************************************)
(* Sequences.                                                              *)
(***************************************************************************)
LEMMA Tails ==
    ASSUME NEW S, NEW s \in Seq(S), s # <<>>
    PROVE  /\ Len(s) \in Nat \ {0} /\ DOMAIN s = 1..Len(s)
           /\ Head(s) = s[1] /\ s[1] \in S
           /\ Tail(s) \in Seq(S) /\ Len(Tail(s)) = Len(s) - 1
           /\ DOMAIN Tail(s) = 1..(Len(s) - 1)
           /\ \A k \in 1..(Len(s) - 1) : Tail(s)[k] = s[k + 1]
BY HeadTailProperties, LenProperties, EmptySeq

LEMMA Appends ==
    ASSUME NEW S, NEW s \in Seq(S), NEW x \in S
    PROVE  /\ Len(s) \in Nat /\ DOMAIN s = 1..Len(s)
           /\ Append(s, x) \in Seq(S) /\ Len(Append(s, x)) = Len(s) + 1
           /\ DOMAIN Append(s, x) = 1..(Len(s) + 1)
           /\ \A k \in 1..Len(s) : Append(s, x)[k] = s[k]
           /\ Append(s, x)[Len(s) + 1] = x
BY AppendProperties, LenProperties

LEMMA Prefixes ==
    ASSUME NEW S, NEW s \in Seq(S), NEW n \in 0..Len(s)
    PROVE  /\ SubSeq(s, 1, n) \in Seq(S) /\ Len(SubSeq(s, 1, n)) = n
           /\ DOMAIN SubSeq(s, 1, n) = 1..n
           /\ \A k \in 1..n : SubSeq(s, 1, n)[k] = s[k]
<1>1. Len(s) \in Nat /\ \A k \in 1..n : s[k] \in S
  BY LenProperties, ElementOfSeq
<1>2. /\ SubSeq(s, 1, n) \in Seq(S) /\ Len(SubSeq(s, 1, n)) = n
      /\ \A k \in 1..n : SubSeq(s, 1, n)[k] = s[k]
  BY <1>1, SubSeqProperties
<1> QED BY <1>2, LenProperties

\* What is above n, of a sequence in the order of the numbers, is a rest of it.
LEMMA AboveIsRest ==
    ASSUME NEW S, NEW s \in Seq(S), NEW n \in Nat,
           \A k \in DOMAIN s : s[k].id \in Nat,
           \A j, k \in DOMAIN s : j < k => s[j].id < s[k].id
    PROVE  \E m \in 0..Len(s) :
              /\ Above(n, s) \in Seq(S) /\ Len(Above(n, s)) = Len(s) - m
              /\ DOMAIN Above(n, s) = 1..(Len(s) - m)
              /\ \A k \in 1..(Len(s) - m) : Above(n, s)[k] = s[k + m]
              /\ \A k \in DOMAIN s : s[k].id <= n <=> k <= m
<1> DEFINE below == {k \in DOMAIN s : s[k].id <= n}
           m == Cardinality(below)
<1>1. Len(s) \in Nat /\ DOMAIN s = 1..Len(s) /\ \A k \in 1..Len(s) : s[k] \in S
  BY LenProperties, ElementOfSeq
<1>2. IsFiniteSet(1..Len(s)) /\ Cardinality(1..Len(s)) = Len(s)
  BY <1>1, FS_Interval
<1>3. IsFiniteSet(below) /\ m \in Nat /\ m <= Len(s)
  <2>1. below \in SUBSET (1..Len(s))
    BY <1>1
  <2>2. IsFiniteSet(below) /\ m <= Len(s)
    BY <1>2, <2>1, FS_Subset
  <2> QED BY <2>2, FS_CardinalityType
<1>4. \A k \in below : k <= m
  <2> SUFFICES ASSUME NEW k \in below PROVE k <= m
    OBVIOUS
  <2>1. k \in 1..Len(s) /\ 1..k \subseteq below
    <3>1. k \in 1..Len(s) /\ s[k].id <= n
      BY <1>1
    <3>2. ASSUME NEW j \in 1..k PROVE j \in below
      <4>1. j \in DOMAIN s /\ (j = k \/ j < k)
        BY <1>1, <3>1
      <4>2. s[j].id <= n
        BY <1>1, <3>1, <4>1
      <4> QED BY <4>1, <4>2
    <3> QED BY <3>1, <3>2
  <2>2. k \in Int /\ k >= 1 /\ 1 \in Int
    BY <1>1, <2>1
  <2>3. Cardinality(1..k) = k
    BY <2>2, FS_Interval
  <2>4. 1..k \in SUBSET below
    BY <2>1
  <2> QED BY <1>3, <2>3, <2>4, FS_Subset
<1>5. below = 1..m
  <2>1. below \in SUBSET (1..m)
    BY <1>1, <1>3, <1>4
  <2>2. IsFiniteSet(1..m) /\ Cardinality(1..m) = m
    BY <1>3, FS_Interval
  <2> QED BY <2>1, <2>2, FS_Subset
<1>6. Above(n, s) = SubSeq(s, m + 1, Len(s))
  BY DEF Above
<1> HIDE DEF below, m
<1>7. m + 1 \in Int /\ Len(s) \in Int /\ \A k \in (m + 1)..Len(s) : s[k] \in S
  BY <1>1, <1>3
<1>8. /\ Above(n, s) \in Seq(S)
      /\ Len(Above(n, s)) = IF m + 1 <= Len(s) THEN Len(s) - (m + 1) + 1 ELSE 0
      /\ \A k \in 1..(Len(s) - (m + 1) + 1) : Above(n, s)[k] = s[m + 1 + k - 1]
  BY <1>6, <1>7, SubSeqProperties
<1>13. m \in 0..Len(s) /\ m \in Nat /\ Len(s) \in Nat
  BY <1>1, <1>3
<1>14. (IF m + 1 <= Len(s) THEN Len(s) - (m + 1) + 1 ELSE 0) = Len(s) - m
  BY <1>13
<1>9. Len(Above(n, s)) = Len(s) - m
  BY <1>8, <1>14
<1>10. ASSUME NEW k \in 1..(Len(s) - m)
       PROVE  Above(n, s)[k] = s[k + m]
  <2>1. k \in 1..(Len(s) - (m + 1) + 1) /\ m + 1 + k - 1 = k + m
    BY <1>13
  <2>2. Above(n, s)[k] = s[m + 1 + k - 1]
    BY <1>8, <2>1
  <2> QED BY <2>1, <2>2
<1>11. \A k \in DOMAIN s : s[k].id <= n <=> k <= m
  BY <1>1, <1>3, <1>5 DEF below
<1>12. DOMAIN Above(n, s) = 1..(Len(s) - m)
  BY <1>8, <1>9, LenProperties
<1> QED BY <1>8, <1>9, <1>10, <1>11, <1>12, <1>13

(***************************************************************************)
(* What comes before an event.                                             *)
(***************************************************************************)
LEMMA NameFacts ==
    \A x, e, i : Name(x) = <<e, i>> <=> x.epoch = e /\ x.id = i
BY DEF Name

LEMMA CompleteGrows ==
    ASSUME NEW e, NEW s, NEW base, NEW more,
           Complete(e, s, base),
           \A i \in Nat \ {0} : <<e, i>> \in base => <<e, i>> \in more
    PROVE  Complete(e, s, more)
BY DEF Complete

LEMMA CompleteEmpty == \A e, base : Complete(e, <<>>, base)
BY DEF Complete

LEMMA CompleteAppend ==
    ASSUME NEW S, NEW e, NEW s \in Seq(S), NEW x \in S, NEW base,
           Complete(e, s, base),
           x.epoch = e => \A i \in 1..(x.id - 1) : <<e, i>> \in base \cup Names(s)
    PROVE  Complete(e, Append(s, x), base)
<1> DEFINE t == Append(s, x)
<1>1. /\ Len(s) \in Nat /\ DOMAIN s = 1..Len(s) /\ DOMAIN t = 1..(Len(s) + 1)
      /\ \A k \in 1..Len(s) : t[k] = s[k]
      /\ t[Len(s) + 1] = x
  BY Appends
<1> HIDE DEF t
<1>2. SUFFICES ASSUME NEW k \in DOMAIN t, t[k].epoch = e, NEW i \in 1..(t[k].id - 1)
               PROVE  <<e, i>> \in base \/ \E m \in 1..(k - 1) : Name(t[m]) = <<e, i>>
  BY DEF Complete, t
<1>3. CASE k \in 1..Len(s)
  <2>1. t[k] = s[k] /\ k \in DOMAIN s /\ \A m \in 1..(k - 1) : t[m] = s[m]
    BY <1>1, <1>3
  <2>2. <<e, i>> \in base \/ \E m \in 1..(k - 1) : Name(s[m]) = <<e, i>>
    BY <1>2, <2>1 DEF Complete
  <2> QED BY <2>1, <2>2
<1>4. CASE k = Len(s) + 1
  <2>1. t[k] = x /\ k - 1 = Len(s)
    BY <1>1, <1>4
  <2>2. <<e, i>> \in base \/ \E m \in DOMAIN s : Name(s[m]) = <<e, i>>
    BY <1>2, <2>1 DEF Names
  <2> QED BY <1>1, <2>1, <2>2
<1> QED BY <1>1, <1>3, <1>4

LEMMA CompleteTail ==
    ASSUME NEW S, NEW e, NEW s \in Seq(S), s # <<>>, NEW base, NEW more,
           Complete(e, s, base),
           \A i \in Nat \ {0} : <<e, i>> \in base => <<e, i>> \in more,
           Head(s).epoch = e /\ Head(s).id \in Nat \ {0} => Name(Head(s)) \in more
    PROVE  Complete(e, Tail(s), more)
<1> DEFINE t == Tail(s)
<1>1. /\ Len(s) \in Nat \ {0} /\ DOMAIN s = 1..Len(s) /\ DOMAIN t = 1..(Len(s) - 1)
      /\ \A k \in 1..(Len(s) - 1) : t[k] = s[k + 1]
      /\ Head(s) = s[1]
  BY Tails
<1> HIDE DEF t
<1>2. SUFFICES ASSUME NEW k \in DOMAIN t, t[k].epoch = e, NEW i \in 1..(t[k].id - 1)
               PROVE  <<e, i>> \in more \/ \E m \in 1..(k - 1) : Name(t[m]) = <<e, i>>
  BY DEF Complete, t
<1>3. t[k] = s[k + 1] /\ k + 1 \in DOMAIN s
  BY <1>1
<1>4. <<e, i>> \in base \/ \E m \in 1..k : Name(s[m]) = <<e, i>>
  <2>1. (k + 1) - 1 = k
    BY <1>1
  <2> QED BY <1>2, <1>3, <2>1 DEF Complete
<1>5. ASSUME NEW m \in 1..k, Name(s[m]) = <<e, i>>
      PROVE  <<e, i>> \in more \/ \E j \in 1..(k - 1) : Name(t[j]) = <<e, i>>
  <2>1. CASE m = 1
    <3>1. Head(s).epoch = e /\ Head(s).id \in Nat \ {0}
      BY <1>1, <1>2, <1>5, <2>1 DEF Name
    <3> QED BY <1>1, <1>5, <2>1, <3>1
  <2>2. CASE m # 1
    <3>1. m - 1 \in 1..(k - 1) /\ t[m - 1] = s[m]
      BY <1>1, <2>2
    <3> QED BY <1>5, <3>1
  <2> QED BY <2>1, <2>2
<1>6. i \in Nat \ {0}
  BY <1>2
<1> QED BY <1>4, <1>5, <1>6

LEMMA CompletePrefix ==
    ASSUME NEW S, NEW e, NEW s \in Seq(S), NEW n \in 0..Len(s), NEW base,
           Complete(e, s, base)
    PROVE  Complete(e, SubSeq(s, 1, n), base)
<1> DEFINE t == SubSeq(s, 1, n)
<1>1. /\ Len(s) \in Nat /\ DOMAIN s = 1..Len(s) /\ DOMAIN t = 1..n
      /\ \A k \in 1..n : t[k] = s[k]
  BY Prefixes, LenProperties
<1> HIDE DEF t
<1>2. SUFFICES ASSUME NEW k \in DOMAIN t, t[k].epoch = e, NEW i \in 1..(t[k].id - 1)
               PROVE  <<e, i>> \in base \/ \E m \in 1..(k - 1) : Name(t[m]) = <<e, i>>
  BY DEF Complete, t
<1>3. t[k] = s[k] /\ k \in DOMAIN s /\ \A m \in 1..(k - 1) : t[m] = s[m]
  BY <1>1
<1> QED BY <1>2, <1>3 DEF Complete

LEMMA NamesOfAppend ==
    ASSUME NEW S, NEW s \in Seq(S), NEW x \in S
    PROVE  Names(Append(s, x)) = Names(s) \cup {Name(x)}
<1> DEFINE t == Append(s, x)
<1>1. /\ Len(s) \in Nat /\ DOMAIN s = 1..Len(s) /\ DOMAIN t = 1..(Len(s) + 1)
      /\ \A k \in 1..Len(s) : t[k] = s[k]
      /\ t[Len(s) + 1] = x
  BY Appends
<1> HIDE DEF t
<1>2. \A k \in DOMAIN s : k \in DOMAIN t /\ t[k] = s[k]
  BY <1>1
<1>3. Len(s) + 1 \in DOMAIN t
  BY <1>1
<1>4. \A k \in DOMAIN t : k \in DOMAIN s \/ k = Len(s) + 1
  BY <1>1
<1>5. Names(t) = Names(s) \cup {Name(x)}
  <2>1. t[Len(s) + 1] = x
    BY <1>1
  <2> QED BY <2>1, <1>2, <1>3, <1>4 DEF Names
<1> QED BY <1>5 DEF t

LEMMA NamesOfTail ==
    ASSUME NEW S, NEW s \in Seq(S), s # <<>>
    PROVE  Names(s) = Names(Tail(s)) \cup {Name(Head(s))}
<1> DEFINE t == Tail(s)
<1>1. /\ Len(s) \in Nat \ {0} /\ DOMAIN s = 1..Len(s) /\ DOMAIN t = 1..(Len(s) - 1)
      /\ \A k \in 1..(Len(s) - 1) : t[k] = s[k + 1]
      /\ Head(s) = s[1]
  BY Tails
<1> HIDE DEF t
<1>2. \A k \in DOMAIN t : k + 1 \in DOMAIN s /\ t[k] = s[k + 1]
  BY <1>1
<1>3. 1 \in DOMAIN s
  BY <1>1
<1>4. \A k \in DOMAIN s : k = 1 \/ (k - 1 \in DOMAIN t /\ t[k - 1] = s[k])
  BY <1>1
<1>5. Names(s) = Names(t) \cup {Name(Head(s))}
  BY <1>1, <1>2, <1>3, <1>4 DEF Names
<1> QED BY <1>5 DEF t

LEMMA NamesOfEmpty == Names(<<>>) = {}
BY DEF Names

(***************************************************************************)
(* The types.                                                              *)
(***************************************************************************)
LEMMA Bounds ==
    ASSUME private \in Streams
    PROVE  /\ private \in BOOLEAN
           /\ MaxEvents[private] \in Nat /\ MaxEpochs[private] \in Nat \ {0}
           /\ MaxBreaks[private] \in Nat /\ MaxRestarts[private] \in Nat
           /\ MaxReplay \in Nat \ {0} /\ QueueSize \in Nat \ {0, 1} /\ InboxSize \in Nat \ {0}
           /\ Epochs \subseteq Nat \ {0} /\ Numbers \subseteq Nat \ {0}
           /\ 1..MaxEpochs[private] \subseteq Epochs /\ 1..MaxEvents[private] \subseteq Numbers
           /\ Kinds[private] \subseteq {"packet", "batch", "large"}
<1>1. private \in BOOLEAN /\ \A s \in Streams : s \in BOOLEAN
  BY StreamAssumption
<1>2. \A s \in BOOLEAN : MaxEvents[s] \in Nat /\ MaxBreaks[s] \in Nat /\ MaxRestarts[s] \in Nat
  BY StreamAssumption
<1>3. \A s \in BOOLEAN : MaxEpochs[s] \in Nat \ {0}
  BY StreamAssumption
<1>4. Kinds[private] \subseteq {"packet", "batch", "large"}
  BY <1>1, StreamAssumption
<1>5. /\ MaxReplay \in Nat \ {0} /\ QueueSize \in Nat \ {0, 1} /\ InboxSize \in Nat \ {0}
  BY StreamAssumption
<1>6. Epochs \subseteq Nat \ {0} /\ 1..MaxEpochs[private] \subseteq Epochs
  BY <1>1, <1>3 DEF Epochs
<1>7. Numbers \subseteq Nat \ {0} /\ 1..MaxEvents[private] \subseteq Numbers
  BY <1>1, <1>2 DEF Numbers
<1> QED BY <1>1, <1>2, <1>3, <1>4, <1>5, <1>6, <1>7

LEMMA Events ==
    ASSUME private \in Streams, NEW x \in Event
    PROVE  /\ x.epoch \in Epochs /\ x.epoch \in Nat \ {0}
           /\ x.id \in Numbers /\ x.id \in Nat \ {0}
           /\ x.kind \in Kinds[private] /\ x.kind \in {"packet", "batch", "large"}
           /\ x # Mark /\ Name(x) \in Epochs \X Numbers
BY Bounds DEF Event, Mark, Name

\* What may be on the wire.
Message == Event \cup {Ready(e) : e \in Epochs} \cup {ContinuityError}

LEMMA Messages ==
    ASSUME private \in Streams, NEW x \in Message
    PROVE  /\ x.epoch \in Nat /\ x.id \in Nat
           /\ x.kind \in {"packet", "batch", "large", "ready", "error"}
           /\ x.kind = "ready" => \E e \in Epochs : x = Ready(e)
           /\ x.kind = "ready" => x.epoch \in Epochs /\ x.id = 0
           /\ x.kind = "error" => x = ContinuityError
           /\ x.kind \notin {"ready", "error"} => x \in Event
<1>1. CASE x \in Event
  BY <1>1, Events
<1>2. CASE \E e \in Epochs : x = Ready(e)
  BY <1>2, Bounds DEF Ready
<1>3. CASE x = ContinuityError
  BY <1>3 DEF ContinuityError
<1> QED BY <1>1, <1>2, <1>3 DEF Message

\* What the type invariant says of the sequences.
LEMMA SequenceTypes ==
    ASSUME Types
    PROVE  /\ private \in Streams
           /\ replay \in Seq(Event) /\ Len(replay) \in Nat /\ DOMAIN replay = 1..Len(replay)
           /\ \A k \in 1..Len(replay) : replay[k] \in Event
           /\ snapshot \in Seq(Event) /\ Len(snapshot) \in Nat
           /\ DOMAIN snapshot = 1..Len(snapshot)
           /\ \A k \in 1..Len(snapshot) : snapshot[k] \in Event
           /\ queue \in Seq(Event \cup {Mark}) /\ Len(queue) \in Nat
           /\ DOMAIN queue = 1..Len(queue)
           /\ \A k \in 1..Len(queue) : queue[k] \in Event \cup {Mark}
           /\ wire \in Seq(Message) /\ Len(wire) \in Nat /\ DOMAIN wire = 1..Len(wire)
           /\ \A k \in 1..Len(wire) : wire[k] \in Message
           /\ inbox \in Seq(Event) /\ Len(inbox) \in Nat /\ DOMAIN inbox = 1..Len(inbox)
           /\ handled \in Seq(Epochs \X Numbers) /\ Len(handled) \in Nat
           /\ DOMAIN handled = 1..Len(handled)
BY LenProperties, ElementOfSeq DEF Types, TypeOK, Message

LEMMA Marks == /\ Mark.epoch = 0 /\ Mark.id = 0 /\ Mark.kind = "mark" /\ Name(Mark) = <<0, 0>>
               /\ \A e : Ready(e).epoch = e /\ Ready(e).id = 0 /\ Ready(e).kind = "ready"
               /\ \A e : Name(Ready(e)) = <<e, 0>>
               /\ ContinuityError.epoch = 0 /\ ContinuityError.id = 0
               /\ ContinuityError.kind = "error"
BY DEF Mark, Ready, ContinuityError, Name

LEMMA Enqueues ==
    ASSUME private \in Streams, NEW q \in Seq(Event \cup {Mark}), Len(q) <= QueueSize,
           NEW x \in Event \cup {Mark}
    PROVE  Enqueue(q, x) \in Seq(Event \cup {Mark}) /\ Len(Enqueue(q, x)) <= QueueSize
<1>1. Len(q) \in Nat /\ QueueSize \in Nat \ {0, 1}
  BY Bounds, LenProperties
<1>2. CASE Len(q) < QueueSize
  <2>1. Append(q, x) \in Seq(Event \cup {Mark}) /\ Len(Append(q, x)) = Len(q) + 1
    BY Appends
  <2> QED BY <1>1, <1>2, <2>1 DEF Enqueue
<1>3. CASE ~(Len(q) < QueueSize)
  <2>1. <<Mark, x>> \in Seq(Event \cup {Mark}) /\ Len(<<Mark, x>>) = 2
    OBVIOUS
  <2> QED BY <1>1, <1>3, <2>1 DEF Enqueue
<1> QED BY <1>2, <1>3

\* The replay has room for an event after an eviction.
LEMMA Evictions ==
    ASSUME Types
    PROVE  /\ Evict \in Seq(Event) /\ Len(Evict) \in Nat /\ Len(Evict) < MaxReplay
           /\ DOMAIN Evict = 1..Len(Evict)
           /\ \/ Evict = replay /\ Evicted = {}
              \/ /\ Len(replay) > 0 /\ Len(Evict) = Len(replay) - 1
                 /\ \A k \in 1..Len(Evict) : Evict[k] = replay[k + 1]
                 /\ Evicted = {Name(replay[1])}
<1>1. /\ replay \in Seq(Event) /\ Len(replay) \in Nat /\ Len(replay) <= MaxReplay
      /\ DOMAIN replay = 1..Len(replay) /\ MaxReplay \in Nat \ {0}
  BY Bounds, SequenceTypes DEF Types, TypeOK
<1>2. CASE Len(replay) = MaxReplay
  <2>1. replay # <<>>
    BY <1>1, <1>2
  <2>2. /\ Head(replay) = replay[1] /\ Tail(replay) \in Seq(Event)
        /\ Len(Tail(replay)) = Len(replay) - 1
        /\ DOMAIN Tail(replay) = 1..(Len(replay) - 1)
        /\ \A k \in 1..(Len(replay) - 1) : Tail(replay)[k] = replay[k + 1]
    BY <1>1, <2>1, Tails
  <2>3. Evict = Tail(replay) /\ Evicted = {Name(replay[1])}
    BY <1>2, <2>2 DEF Evict, Evicted
  <2> QED BY <1>1, <1>2, <2>2, <2>3
<1>3. CASE Len(replay) # MaxReplay
  <2>1. Evict = replay /\ Evicted = {}
    BY <1>3 DEF Evict, Evicted
  <2>2. Len(replay) < MaxReplay
    <3>1. \A n \in Nat, m \in Nat \ {0} : n <= m /\ n # m => n < m
      OBVIOUS
    <3> QED BY <1>1, <1>3, <3>1
  <2>3. Evict \in Seq(Event) /\ Len(Evict) \in Nat /\ DOMAIN Evict = 1..Len(Evict)
    BY <1>1, <2>1
  <2> QED BY <2>1, <2>2, <2>3
<1> QED BY <1>2, <1>3

\* The types of the server.
ServerTypes ==
    /\ epoch \in Epochs /\ published \in [Epochs -> Numbers \cup {0}]
    /\ replay \in Seq(Event) /\ Len(replay) <= MaxReplay
    /\ acked \in Numbers \cup {0} /\ failed \in BOOLEAN /\ synced \in BOOLEAN
\* The types of the connection.
ConnTypes ==
    /\ live \in BOOLEAN /\ serving \in Epochs \cup {0} /\ cursor \in Numbers \cup {0}
    /\ snapshot \in Seq(Event) /\ queue \in Seq(Event \cup {Mark}) /\ Len(queue) <= QueueSize
    /\ wire \in Seq(Message)
\* The types of the pump and of the history.
PumpTypes ==
    /\ acks \subseteq [epoch : Epochs, id : Numbers]
    /\ pump \in {"down", "checked", "pushed", "open", "acking", "suspended"}
    /\ known \in Epochs \cup {0} /\ cur \in Numbers \cup {0}
    /\ inbox \in Seq(Event) /\ Len(inbox) <= InboxSize
    /\ handled \in Seq(Epochs \X Numbers)
HistoryTypes ==
    /\ admitted \subseteq Epochs \X Numbers
    /\ lost \subseteq (Epochs \cup {0}) \X (Numbers \cup {0})
BoundTypes ==
    /\ breaks \in 0..MaxBreaks[private] /\ restarts \in 0..MaxRestarts[private]

LEMMA TypeParts ==
    Types <=> /\ private \in Streams /\ ServerTypes /\ ConnTypes /\ PumpTypes
              /\ HistoryTypes /\ BoundTypes
BY DEF Types, TypeOK, ServerTypes, ConnTypes, PumpTypes, HistoryTypes, BoundTypes, Message

LEMMA TypeInit == Init => Types
<1> SUFFICES ASSUME Init PROVE Types
  OBVIOUS
<1>1. private \in Streams
  BY DEF Init
<1>2. 1 \in Epochs
  <2>1. 1 \in 1..MaxEpochs[private]
    BY <1>1, Bounds
  <2> QED BY <1>1, <2>1, Bounds
<1>3. ServerTypes
  <2>1. published \in [Epochs -> Numbers \cup {0}]
    BY DEF Init
  <2>2. replay = <<>> /\ Len(<<>>) <= MaxReplay /\ <<>> \in Seq(Event)
    BY <1>1, Bounds DEF Init
  <2>3. Len(replay) <= MaxReplay /\ replay \in Seq(Event)
    BY <2>2
  <2>4. epoch \in Epochs /\ acked = 0 /\ failed \in BOOLEAN /\ synced \in BOOLEAN
    BY <1>2 DEF Init
  <2> QED BY <2>1, <2>3, <2>4 DEF ServerTypes
<1>4. ConnTypes
  <2>1. /\ Len(<<>>) = 0 /\ <<>> \in Seq(Event) /\ <<>> \in Seq(Message)
        /\ <<>> \in Seq(Event \cup {Mark})
    OBVIOUS
  <2>2. queue \in Seq(Event \cup {Mark}) /\ Len(queue) <= QueueSize
    BY <1>1, <2>1, Bounds DEF Init
  <2>3. snapshot \in Seq(Event) /\ wire \in Seq(Message)
    BY <2>1 DEF Init
  <2> QED BY <2>2, <2>3 DEF Init, ConnTypes
<1>5. PumpTypes
  <2>1. Len(<<>>) = 0 /\ <<>> \in Seq(Event) /\ <<>> \in Seq(Epochs \X Numbers)
    OBVIOUS
  <2> QED BY <1>1, <2>1, Bounds DEF Init, PumpTypes
<1>6. HistoryTypes
  BY DEF Init, HistoryTypes
<1>7. BoundTypes
  BY <1>1, Bounds DEF Init, BoundTypes
<1> QED BY <1>1, <1>3, <1>4, <1>5, <1>6, <1>7, TypeParts

LEMMA SamePrivate ==
    ASSUME UNCHANGED private
    PROVE  Event' = Event /\ Message' = Message
BY DEF Event, Message

LEMMA ResetTypes ==
    ASSUME Types, Reset
    PROVE  /\ epoch' \in Epochs /\ epoch' = epoch + 1 /\ published' = published /\ replay' = <<>>
           /\ acked' = 0 /\ failed' = FALSE
<1>1. epoch \in Epochs /\ private \in Streams
  BY DEF Types, TypeOK
<1>2. epoch + 1 \in 1..MaxEpochs[private]
  BY <1>1, Bounds DEF Reset
<1> QED BY <1>1, <1>2, Bounds DEF Reset

\* What an acknowledgement leaves of the replay.
LEMMA AboveReplay ==
    ASSUME Types, ReplayInv, NEW n \in Nat
    PROVE  \E m \in 0..Len(replay) :
              /\ Above(n, replay) \in Seq(Event) /\ Len(Above(n, replay)) = Len(replay) - m
              /\ DOMAIN Above(n, replay) = 1..(Len(replay) - m)
              /\ \A k \in 1..(Len(replay) - m) : Above(n, replay)[k] = replay[k + m]
              /\ \A k \in DOMAIN replay : replay[k].id <= n <=> k <= m
<1>1. replay \in Seq(Event) /\ \A k \in DOMAIN replay : replay[k].id \in Nat
  BY SequenceTypes, Events
<1>2. \A j, k \in DOMAIN replay : j < k => replay[j].id < replay[k].id
  BY DEF ReplayInv
<1> QED BY <1>1, <1>2, AboveIsRest

\* What a step does to the server.
LEMMA ServerCases ==
    ASSUME Next
    PROVE  \/ UNCHANGED <<epoch, published, replay, acked, failed>>
           \/ Reset
           \/ \E kind \in Kinds[private] : Publish(kind)
           \/ \E a \in acks : AckArrives(a)
BY DEF Next, PumpStep, ServerStep, CheckStatus, Push, Open, Adopt, Receive, StreamEnds, Announce,
       SendPublic, SendPrivate, SendError, PushFails, Ensure, AckFails, Take, Break, Crash,
       Reconfigure, Restart, Apply, serverVars

LEMMA SyncedType ==
    ASSUME Next, synced \in BOOLEAN
    PROVE  synced' \in BOOLEAN
BY DEF Next, PumpStep, ServerStep, CheckStatus, Push, Open, Adopt, Receive, StreamEnds, Announce,
       SendPublic, SendPrivate, SendError, PushFails, Ensure, AckFails, Take, Break, Crash,
       Reconfigure, Restart, Apply, serverVars, Publish, AckArrives

\* The event that is published.
NewEvent(kind) == [epoch |-> epoch, id |-> published[epoch] + 1, kind |-> kind]

LEMMA NewEvents ==
    \A kind : /\ NewEvent(kind).epoch = epoch /\ NewEvent(kind).id = published[epoch] + 1
              /\ NewEvent(kind).kind = kind
              /\ Name(NewEvent(kind)) = <<epoch, published[epoch] + 1>>
              /\ Publish(kind) =>
                    PublishPublic(NewEvent(kind)) \/ PublishPrivate(NewEvent(kind))
BY DEF NewEvent, Name, Publish

LEMMA PublishedEvent ==
    ASSUME Types, NEW kind \in Kinds[private], Publish(kind)
    PROVE  /\ published[epoch] \in Nat /\ published[epoch] + 1 \in Numbers
           /\ NewEvent(kind) \in Event
<1>0. private \in Streams /\ epoch \in Epochs /\ published \in [Epochs -> Numbers \cup {0}]
  BY DEF Types, TypeOK
<1>1. published[epoch] \in Nat /\ published[epoch] < MaxEvents[private]
  BY <1>0, Bounds DEF Publish
<1>2. published[epoch] + 1 \in 1..MaxEvents[private]
  BY <1>0, <1>1, Bounds
<1> QED BY <1>0, <1>1, <1>2, Bounds DEF Event, NewEvent

LEMMA ServerTypesStep ==
    ASSUME Types, ReplayInv, Next
    PROVE  ServerTypes'
<1>0. /\ private \in Streams /\ Event' = Event /\ epoch \in Epochs
      /\ published \in [Epochs -> Numbers \cup {0}] /\ synced \in BOOLEAN
      /\ failed \in BOOLEAN /\ acked \in Numbers \cup {0}
      /\ acks \subseteq [epoch : Epochs, id : Numbers]
      /\ Len(replay) <= MaxReplay /\ synced' \in BOOLEAN
  BY SamePrivate, SyncedType DEF Types, TypeOK, Next
<1>1. CASE UNCHANGED <<epoch, published, replay, acked, failed>>
  BY <1>0, <1>1, TypeParts DEF ServerTypes
<1>2. CASE Reset
  <2>1. <<>> \in Seq(Event) /\ Len(<<>>) = 0
    OBVIOUS
  <2> QED BY <1>0, <1>2, <2>1, ResetTypes, Bounds DEF ServerTypes
<1>3. ASSUME NEW kind \in Kinds[private], Publish(kind)
      PROVE  ServerTypes'
  <2> DEFINE event == NewEvent(kind)
  <2>1. published[epoch] + 1 \in Numbers /\ event \in Event
    BY <1>3, PublishedEvent
  <2>3. published' \in [Epochs -> Numbers \cup {0}]
    BY <1>0, <1>3, <2>1 DEF Publish
  <2>4. /\ Append(Evict, event) \in Seq(Event) /\ Len(Append(Evict, event)) = Len(Evict) + 1
        /\ Len(Evict) \in Nat /\ Len(Evict) < MaxReplay
    BY <2>1, Evictions, Appends
  <2>5. /\ replay' = replay \/ replay' = Append(Evict, event)
        /\ failed' \in BOOLEAN /\ epoch' = epoch /\ acked' = acked /\ synced' = synced
    <3>1. PublishPublic(event) \/ PublishPrivate(event)
      BY <1>3, NewEvents
    <3>2. /\ replay' = replay \/ replay' = Append(Evict, event)
          /\ failed' = failed \/ failed' = TRUE
      BY <3>1 DEF PublishPublic, PublishPrivate
    <3> QED BY <1>0, <1>3, <3>2 DEF Publish
  <2>6. replay' \in Seq(Event) /\ Len(replay') <= MaxReplay
    <3>1. replay \in Seq(Event) /\ MaxReplay \in Nat
      BY <1>0, SequenceTypes, Bounds
    <3>2. Len(Append(Evict, event)) <= MaxReplay
      BY <2>4, <3>1
    <3> HIDE DEF event
    <3> QED BY <1>0, <2>4, <2>5, <3>1, <3>2
  <2> QED BY <1>0, <2>3, <2>5, <2>6 DEF ServerTypes
<1>4. ASSUME NEW a \in acks, AckArrives(a)
      PROVE  ServerTypes'
  <2>1. a.id \in Numbers /\ a.id \in Nat
    BY <1>0, Bounds
  <2>2. \E m \in 0..Len(replay) : Above(a.id, replay) \in Seq(Event)
                                  /\ Len(Above(a.id, replay)) = Len(replay) - m
    BY <2>1, AboveReplay
  <2>3. epoch' = epoch /\ published' = published /\ failed' = failed
    BY <1>4 DEF AckArrives
  <2>4. acked' = acked \/ acked' = a.id
    BY <1>4 DEF AckArrives, Acknowledge
  <2>5. replay' = replay \/ replay' = Above(a.id, replay)
    BY <1>4 DEF AckArrives, Acknowledge
  <2>6. Len(Above(a.id, replay)) <= MaxReplay /\ Above(a.id, replay) \in Seq(Event)
    <3>1. Len(replay) \in Nat /\ MaxReplay \in Nat
      BY <1>0, SequenceTypes, Bounds
    <3> QED BY <1>0, <2>2, <3>1
  <2>7. replay' \in Seq(Event) /\ Len(replay') <= MaxReplay
    BY <1>0, <2>5, <2>6, SequenceTypes
  <2> QED BY <1>0, <2>1, <2>3, <2>4, <2>7 DEF ServerTypes
<1> QED BY <1>1, <1>2, <1>3, <1>4, ServerCases

\* An epoch does not come back.
LEMMA ServerEpoch ==
    ASSUME Types, Next
    PROVE  /\ epoch \in Epochs /\ epoch' \in Epochs /\ epoch \in Nat \ {0} /\ epoch' \in Nat \ {0}
           /\ epoch' = epoch \/ (Reset /\ epoch' = epoch + 1)
           /\ \A e \in Epochs : published[e] \in Nat /\ published'[e] \in Nat
           /\ \A e \in Epochs : published[e] <= published'[e]
<1>0. /\ private \in Streams /\ epoch \in Epochs /\ published \in [Epochs -> Numbers \cup {0}]
  BY DEF Types, TypeOK
<1>1. epoch' \in Epochs /\ (epoch' = epoch \/ (Reset /\ epoch' = epoch + 1))
  BY <1>0, ServerCases, ResetTypes DEF Publish, AckArrives
<1>2. \A e \in Epochs : published[e] \in Nat
  BY <1>0, Bounds
<1>3. published' = published \/ published' = [published EXCEPT ![epoch] = @ + 1]
  BY ServerCases, ResetTypes DEF Publish, AckArrives
<1>4. \A e \in Epochs : published'[e] = published[e] \/ published'[e] = published[e] + 1
  BY <1>0, <1>3
<1>5. \A e \in Epochs : published'[e] \in Nat /\ published[e] <= published'[e]
  BY <1>2, <1>4
<1> QED BY <1>0, <1>1, <1>2, <1>5, Bounds

\* What a step does to the connection.
ReadOnly == (Adopt \/ Receive) /\ Read /\ UNCHANGED <<live, serving, cursor, snapshot, queue>>
Broken ==
    /\ live' = FALSE /\ Cut /\ snapshot' = <<>> /\ queue' = <<>>
    /\ UNCHANGED <<serving, cursor, pumpVars, historyVars>>
Woken ==
    /\ Reset /\ WakeSubscribers
    /\ UNCHANGED <<live, serving, cursor, snapshot, wire, admitted, lost>>
    /\ UNCHANGED <<known, cur>> \/ Push \/ Ensure

LEMMA ConnCases ==
    ASSUME Next
    PROVE  \/ /\ UNCHANGED <<connVars, published, admitted, lost>>
              /\ UNCHANGED <<known, cur>> \/ Push \/ Ensure
           \/ \E kind \in Kinds[private] : Publish(kind)
           \/ Woken \/ Announce \/ SendPublic \/ SendPrivate \/ SendError \/ Open
           \/ ReadOnly \/ Broken \/ Disconnect
BY DEF Next, PumpStep, ServerStep, CheckStatus, Push, Adopt, Receive, StreamEnds,
       PushFails, Ensure, AckFails, Take, Break, Crash, AckArrives, Reset, serverVars,
       Reconfigure, Restart, Apply, connVars, pumpVars, historyVars, ReadOnly, Broken, Woken

\* The wire with one more message, without its first one, or cut.
LEMMA SentMessages ==
    ASSUME Types, NEW x \in Event \cup {Mark}
    PROVE  Sent(x) \in Seq(Message)
<1>1. Ready(epoch) \in Message
  BY DEF Types, TypeOK, Message
<1>2. x.epoch = epoch => x \in Message
  BY <1>1, Bounds, Marks DEF Types, TypeOK, Message
<1>3. <<Ready(epoch)>> \in Seq(Message) /\ <<>> \in Seq(Message)
  BY <1>1
<1>4. x.epoch = epoch => <<x>> \in Seq(Message)
  BY <1>2
<1> DEFINE a == IF serving # epoch THEN <<Ready(epoch)>> ELSE <<>>
           b == IF x.epoch = epoch THEN <<x>> ELSE <<>>
<1>5. a \in Seq(Message) /\ b \in Seq(Message)
  BY <1>3, <1>4
<1>6. Sent(x) = a \o b
  BY DEF Sent
<1> HIDE DEF a, b
<1> QED BY <1>5, <1>6, ConcatProperties

LEMMA CutTypes ==
    ASSUME Types, Cut
    PROVE  wire' \in Seq(Message)
<1>1. PICK k \in 0..Len(wire) : wire' = SubSeq(wire, 1, k)
  BY DEF Cut
<1> QED BY <1>1, SequenceTypes, Prefixes

LEMMA ConnTypesStep ==
    ASSUME Types, ReplayInv, Next
    PROVE  ConnTypes'
<1>0. /\ private \in Streams /\ Event' = Event /\ Message' = Message /\ ConnTypes
      /\ epoch \in Epochs /\ replay \in Seq(Event) /\ cur \in Numbers \cup {0}
  BY SamePrivate, TypeParts DEF Types, TypeOK, Next
<1>a. /\ <<>> \in Seq(Event) /\ <<>> \in Seq(Message)
      /\ <<>> \in Seq(Event \cup {Mark}) /\ Len(<<>>) <= QueueSize
  BY <1>0, Bounds
<1>1. CASE UNCHANGED connVars
  BY <1>0, <1>1 DEF ConnTypes, connVars
<1>2. ASSUME NEW kind \in Kinds[private], Publish(kind)
      PROVE  ConnTypes'
  <2> DEFINE event == NewEvent(kind)
  <2>1. event \in Event
    BY <1>2, PublishedEvent
  <2>2. queue' = queue \/ queue' = Enqueue(queue, Outgoing(event))
    BY <1>2, NewEvents DEF PublishPublic, PublishPrivate
  <2>3. Outgoing(event) \in Event \cup {Mark}
    BY <2>1 DEF Outgoing
  <2>4. queue \in Seq(Event \cup {Mark}) /\ Len(queue) <= QueueSize
    BY <1>0 DEF ConnTypes
  <2>5. queue' \in Seq(Event \cup {Mark}) /\ Len(queue') <= QueueSize
    <3> HIDE DEF event
    <3> QED BY <1>0, <2>2, <2>3, <2>4, Enqueues
  <2>6. UNCHANGED <<live, serving, cursor, snapshot, wire>>
    BY <1>2 DEF Publish
  <2> QED BY <1>0, <2>5, <2>6 DEF ConnTypes
<1>3. CASE Woken
  <2>1. queue \in Seq(Event \cup {Mark}) /\ Len(queue) <= QueueSize
    BY <1>0 DEF ConnTypes
  <2>2. Enqueue(queue, Mark) \in Seq(Event \cup {Mark}) /\ Len(Enqueue(queue, Mark)) <= QueueSize
    BY <1>0, <2>1, Enqueues
  <2>3. queue' \in Seq(Event \cup {Mark}) /\ Len(queue') <= QueueSize
    BY <1>0, <1>3, <2>1, <2>2, Enqueues DEF Woken, WakeSubscribers
  <2> QED BY <1>0, <1>3, <2>3 DEF ConnTypes, Woken
<1>4. CASE Announce
  <2>1. Ready(epoch) \in Message
    BY <1>0 DEF Message
  <2>2. wire' \in Seq(Message)
    BY <1>0, <1>4, <2>1, Appends DEF Announce, ConnTypes
  <2> QED BY <1>0, <1>4, <2>2 DEF ConnTypes, Announce
<1>5. CASE SendPublic
  <2>1. wire \in Seq(Message) /\ snapshot \in Seq(Event) /\ queue \in Seq(Event \cup {Mark})
    BY <1>0 DEF ConnTypes
  <2>2. CASE snapshot # <<>> /\ wire' = wire \o Sent(Head(snapshot))
             /\ snapshot' = Tail(snapshot) /\ UNCHANGED queue
    <3>1. Head(snapshot) \in Event /\ Tail(snapshot) \in Seq(Event)
      BY <2>1, <2>2, Tails
    <3>2. wire' \in Seq(Message)
      BY <2>1, <2>2, <3>1, SentMessages, ConcatProperties
    <3> QED BY <1>0, <1>5, <2>2, <3>1, <3>2 DEF ConnTypes, SendPublic
  <2>3. CASE snapshot = <<>> /\ queue # <<>> /\ wire' = wire \o Sent(Head(queue))
             /\ queue' = Tail(queue) /\ UNCHANGED snapshot
    <3>1. /\ Head(queue) \in Event \cup {Mark} /\ Tail(queue) \in Seq(Event \cup {Mark})
          /\ Len(Tail(queue)) = Len(queue) - 1 /\ Len(queue) \in Nat
      BY <2>1, <2>3, Tails
    <3>2. wire' \in Seq(Message)
      BY <2>1, <2>3, <3>1, SentMessages, ConcatProperties
    <3>3. Len(queue') <= QueueSize
      BY <1>0, <2>3, <3>1, Bounds DEF ConnTypes
    <3> QED BY <1>0, <1>5, <2>3, <3>1, <3>2, <3>3 DEF ConnTypes, SendPublic
  <2> QED BY <1>5, <2>2, <2>3 DEF SendPublic
<1>6. CASE SendPrivate
  <2>1. PICK k \in DOMAIN replay : replay[k].id = cursor + 1 /\ wire' = Append(wire, replay[k])
    BY <1>6 DEF SendPrivate
  <2>2. replay[k] \in Event /\ replay[k] \in Message /\ cursor + 1 \in Numbers
    <3>1. replay[k] \in Event
      BY <2>1, SequenceTypes
    <3> QED BY <1>0, <2>1, <3>1, Events DEF Message
  <2>3. wire' \in Seq(Message)
    BY <1>0, <2>1, <2>2, Appends DEF ConnTypes
  <2> QED BY <1>0, <1>6, <2>2, <2>3 DEF ConnTypes, SendPrivate
<1>7. CASE SendError
  <2>1. ContinuityError \in Message
    BY DEF Message
  <2>2. wire' \in Seq(Message)
    BY <1>0, <1>7, <2>1, Appends DEF SendError, ConnTypes
  <2> QED BY <1>0, <1>7, <2>2 DEF ConnTypes, SendError
<1>8. CASE Open
  <2>1. CASE UNCHANGED connVars
    BY <1>0, <2>1 DEF ConnTypes, connVars
  <2>2. CASE pump' = "open"
    <3>1. \A n \in Nat : Above(n, replay) \in Seq(Event)
      BY AboveReplay
    <3>2. snapshot' \in Seq(Event)
      <4>1. cur \in Nat /\ 0 \in Nat
        BY <1>0, Bounds
      <4>2. CASE private
        BY <1>8, <1>a, <2>2, <4>2 DEF Open
      <4>3. CASE ~private
        <5>1. snapshot' = Above(cur, replay) \/ snapshot' = Above(0, replay)
          BY <1>8, <2>2, <4>3 DEF Open, ReplayAfter
        <5> QED BY <3>1, <4>1, <5>1
      <4> QED BY <4>2, <4>3
    <3>3. live' = TRUE /\ serving' \in Epochs \cup {0} /\ cursor' \in Numbers \cup {0}
      BY <1>0, <1>8, <2>2 DEF Open
    <3>4. wire' = <<>> /\ queue' = <<>>
      BY <1>8, <2>2 DEF Open
    <3> QED BY <1>0, <1>a, <3>2, <3>3, <3>4 DEF ConnTypes
  <2> QED BY <1>8, <2>1, <2>2 DEF Open
<1>9. CASE ReadOnly
  <2>1. wire' \in Seq(Message)
    BY <1>0, <1>9, Tails DEF ReadOnly, Read, ConnTypes
  <2> QED BY <1>0, <1>9, <2>1 DEF ReadOnly, ConnTypes
<1>10. CASE Broken
  <2>1. wire' \in Seq(Message)
    BY <1>10, CutTypes DEF Broken
  <2>2. /\ live' = FALSE /\ snapshot' = <<>> /\ queue' = <<>> /\ serving' = serving
        /\ cursor' = cursor
    BY <1>10 DEF Broken
  <2> QED BY <1>0, <1>a, <2>1, <2>2 DEF ConnTypes
<1>11. CASE Disconnect
  <2>1. /\ live' = FALSE /\ serving' = 0 /\ cursor' = 0
        /\ snapshot' = <<>> /\ queue' = <<>> /\ wire' = <<>>
    BY <1>11 DEF Disconnect
  <2> QED BY <1>0, <1>a, <2>1 DEF ConnTypes
<1> QED BY <1>1, <1>2, <1>3, <1>4, <1>5, <1>6, <1>7, <1>8, <1>9, <1>10, <1>11, ConnCases

\* What a step does to the pump.
LEMMA PumpCases ==
    ASSUME Next
    PROVE  \/ UNCHANGED <<acks, pump, known, cur, inbox, handled>>
           \/ CheckStatus \/ Push \/ Ensure \/ PushFails \/ Open \/ Adopt \/ Receive \/ AckFails
           \/ StreamEnds \/ Take
           \/ \E a \in acks : AckArrives(a)
           \/ \E edited \in BOOLEAN : Restart(edited)
BY DEF Next, PumpStep, ServerStep, Announce, SendPublic, SendPrivate, SendError, Ensure, Break,
       Crash, Reconfigure, Publish, pumpVars, historyVars

\* The message that is handled is an event, and the position after it.
LEMMA ReceivedEvent ==
    ASSUME Types, Receive
    PROVE  /\ wire # <<>> /\ Head(wire) = wire[1] /\ wire[1] \in Message
           /\ wire[1].kind # "ready"
           /\ IF Expected(wire[1])
              THEN /\ Admit(wire[1])
                   /\ ~private => wire[1].epoch = known /\ wire[1].id > cur
                   /\ private => wire[1].kind # "error" /\ wire[1].id = cur + 1
              ELSE Refuse(wire[1])
           /\ UNCHANGED <<serverVars, live, serving, cursor, snapshot, queue, known, lost,
                          breaks, restarts>>
<1>1. wire \in Seq(Message) /\ wire # <<>>
  BY SequenceTypes DEF Receive, Read
<1>2. Head(wire) = wire[1] /\ wire[1] \in Message
  BY <1>1, Tails
<1> QED BY <1>1, <1>2 DEF Receive, Expected

LEMMA AdmittedEvent ==
    ASSUME Types, PublicWireInv, Receive, Expected(wire[1])
    PROVE  wire[1] \in Event
<1>1. wire[1].kind \notin {"ready", "error"}
  <2>1. CASE private
    BY <2>1, ReceivedEvent
  <2>2. CASE ~private
    <3>1. 1 \in DOMAIN wire
      BY ReceivedEvent, SequenceTypes, EmptySeq
    <3> QED BY <2>2, <3>1, ReceivedEvent DEF PublicWireInv, Proper
  <2> QED BY <2>1, <2>2
<1> QED BY <1>1, ReceivedEvent, SequenceTypes, Messages

LEMMA PumpTypesStep ==
    ASSUME Types, PositionInv, PublicWireInv, Next
    PROVE  PumpTypes'
<1>0. /\ private \in Streams /\ Event' = Event /\ Epochs' = Epochs /\ PumpTypes
      /\ epoch \in Epochs /\ epoch' \in Epochs
  <2>1. epoch' \in Epochs
    BY ServerEpoch
  <2> QED BY <2>1, SamePrivate, TypeParts DEF Types, TypeOK, Next
<1>a. /\ acks \subseteq [epoch : Epochs, id : Numbers] /\ known \in Epochs \cup {0}
      /\ cur \in Numbers \cup {0} /\ inbox \in Seq(Event) /\ Len(inbox) <= InboxSize
      /\ Len(inbox) \in Nat /\ handled \in Seq(Epochs \X Numbers) /\ InboxSize \in Nat \ {0}
      /\ pump \in {"down", "checked", "pushed", "open", "acking", "suspended"}
  BY <1>0, Bounds, SequenceTypes DEF PumpTypes
<1>b. /\ <<>> \in Seq(Event) /\ Len(<<>>) <= InboxSize
      /\ <<>> \in Seq(Epochs \X Numbers)
  BY <1>a
<1>1. CASE UNCHANGED <<acks, pump, known, cur, inbox, handled>>
  BY <1>0, <1>1 DEF PumpTypes
<1>2. CASE CheckStatus
  BY <1>0, <1>2 DEF PumpTypes, CheckStatus, historyVars
<1>3. CASE Push \/ Ensure
  BY <1>0, <1>3 DEF PumpTypes, Push, Ensure, Adopted
<1>4. CASE PushFails
  BY <1>0, <1>4 DEF PumpTypes, PushFails
<1>5. CASE Open
  BY <1>0, <1>5 DEF PumpTypes, Open, historyVars
<1>6. CASE Adopt
  <2>1. wire \in Seq(Message) /\ wire # <<>>
    BY <1>6, SequenceTypes DEF Adopt, Read
  <2>2. Head(wire) \in Message /\ Head(wire).kind = "ready"
    BY <1>6, <2>1, Tails DEF Adopt
  <2>3. Head(wire).epoch \in Epochs
    BY <1>0, <2>2, Messages
  <2>4. inbox' = <<>> \/ inbox' = inbox
    BY <1>6 DEF Adopt
  <2>5. known' \in Epochs /\ cur' \in Numbers \cup {0}
    BY <1>a, <1>6, <2>3 DEF Adopt
  <2>6. acks' = acks /\ pump' = pump /\ handled' = handled
    BY <1>6 DEF Adopt, historyVars
  <2>7. inbox' \in Seq(Event) /\ Len(inbox') <= InboxSize
    BY <1>a, <1>b, <2>4
  <2> QED BY <1>0, <1>a, <2>5, <2>6, <2>7 DEF PumpTypes
<1>7. CASE Receive
  <2>1. CASE Expected(wire[1])
    <3>1. wire[1] \in Event /\ wire[1].id \in Numbers /\ Name(wire[1]) \in Epochs \X Numbers
      BY <1>0, <1>7, <2>1, AdmittedEvent, Events
    <3>2. Admit(wire[1]) /\ known' = known
      BY <1>7, <2>1, ReceivedEvent
    <3>3. known \in Epochs
      <4>1. CASE ~private
        BY <1>0, <1>7, <2>1, <3>1, <4>1, ReceivedEvent, Events
      <4>2. CASE private
        BY <1>a, <1>7, <4>2, ReceivedEvent DEF PositionInv
      <4> QED BY <4>1, <4>2
    <3>4. inbox' \in Seq(Event) /\ Len(inbox') <= InboxSize
      <4>0. Put(wire[1])
        BY <3>2 DEF Admit
      <4>1. CASE inbox' = inbox
        BY <1>a, <4>1
      <4>2. CASE Len(inbox) < InboxSize /\ inbox' = Append(inbox, wire[1])
        <5>1. inbox' \in Seq(Event) /\ Len(inbox') = Len(inbox) + 1
          BY <1>a, <3>1, <4>2, Appends
        <5> QED BY <1>a, <4>2, <5>1
      <4>3. CASE Len(inbox) = InboxSize /\ inbox' = Append(Tail(inbox), wire[1])
        <5>1. inbox # <<>>
          BY <1>a, <4>3
        <5>2. Tail(inbox) \in Seq(Event) /\ Len(Tail(inbox)) = Len(inbox) - 1
          BY <1>a, <5>1, Tails
        <5>3. inbox' \in Seq(Event) /\ Len(inbox') = Len(Tail(inbox)) + 1
          BY <3>1, <4>3, <5>2, Appends
        <5> QED BY <1>a, <4>3, <5>2, <5>3
      <4> QED BY <4>0, <4>1, <4>2, <4>3 DEF Put
    <3>5. handled' \in Seq(Epochs \X Numbers)
      BY <1>a, <3>1, <3>2, Appends DEF Admit
    <3>6. acks' \subseteq [epoch : Epochs, id : Numbers]
      BY <1>a, <3>1, <3>2, <3>3 DEF Admit
    <3>7. cur' \in Numbers /\ pump' = "acking"
      BY <3>1, <3>2 DEF Admit
    <3> QED BY <1>0, <1>a, <3>2, <3>4, <3>5, <3>6, <3>7 DEF PumpTypes
  <2>2. CASE ~Expected(wire[1])
    <3>1. Refuse(wire[1]) /\ known' = known
      BY <1>7, <2>2, ReceivedEvent
    <3>2. UNCHANGED <<cur, inbox, handled>> /\ pump' \in {"suspended", "acking", pump}
      BY <3>1 DEF Refuse
    <3>3. acks' \subseteq [epoch : Epochs, id : Numbers]
      <4>1. CASE acks' = acks
        BY <1>a, <4>1
      <4>2. CASE ~private /\ wire[1].epoch = known
            /\ acks' = acks \cup {[epoch |-> known, id |-> cur]}
        <5>1. 1 \in DOMAIN wire
          BY <1>7, ReceivedEvent, SequenceTypes, EmptySeq
        <5>2. wire[1].kind \notin {"ready", "error"}
          BY <1>7, <4>2, <5>1, ReceivedEvent DEF PublicWireInv, Proper
        <5>3. wire[1] \in Event
          BY <1>0, <1>7, <5>2, ReceivedEvent, Messages
        <5>4. known \in Epochs /\ wire[1].id \in Nat \ {0}
          BY <1>0, <4>2, <5>3, Events
        <5>5. cur # 0
          BY <2>2, <4>2, <5>4 DEF Expected
        <5> QED BY <1>a, <4>2, <5>4, <5>5
      <4> QED BY <3>1, <4>1, <4>2 DEF Refuse
    <3> QED BY <1>0, <1>a, <3>1, <3>2, <3>3 DEF PumpTypes
  <2> QED BY <2>1, <2>2
<1>8. CASE AckFails
  <2>1. acks' \subseteq acks /\ pump' = "open" /\ UNCHANGED <<known, cur, inbox, handled>>
    BY <1>8 DEF AckFails, historyVars
  <2> QED BY <1>0, <1>a, <2>1 DEF PumpTypes
<1>9. CASE StreamEnds
  <2>1. inbox' = inbox \/ inbox' = <<>>
    BY <1>9 DEF StreamEnds
  <2>2. pump' = "down" /\ UNCHANGED <<acks, known, cur, handled>>
    BY <1>9 DEF StreamEnds, historyVars
  <2>3. inbox' \in Seq(Event) /\ Len(inbox') <= InboxSize
    BY <1>a, <1>b, <2>1
  <2> QED BY <1>0, <1>a, <2>2, <2>3 DEF PumpTypes
<1>10. CASE Take
  <2>1. inbox # <<>> /\ inbox' = Tail(inbox) /\ UNCHANGED <<acks, pump, known, cur, handled>>
    BY <1>10 DEF Take, historyVars
  <2>2. Tail(inbox) \in Seq(Event) /\ Len(Tail(inbox)) = Len(inbox) - 1
    BY <1>a, <2>1, Tails
  <2>3. Len(inbox') <= InboxSize
    BY <1>a, <2>1, <2>2
  <2> QED BY <1>0, <1>a, <2>1, <2>2, <2>3 DEF PumpTypes
<1>11. ASSUME NEW a \in acks, AckArrives(a)
       PROVE  PumpTypes'
  <2>1. acks' \subseteq acks /\ UNCHANGED <<known, cur, inbox, handled>>
    BY <1>11 DEF AckArrives, historyVars
  <2>2. pump' \in {"suspended", "open", pump}
    BY <1>11 DEF AckArrives
  <2> QED BY <1>0, <1>a, <2>1, <2>2 DEF PumpTypes
<1>12. ASSUME NEW edited \in BOOLEAN, Restart(edited)
       PROVE  PumpTypes'
  <2>1. /\ pump' = "down" /\ known' = 0 /\ cur' = 0 /\ inbox' = <<>> /\ handled' = <<>>
        /\ acks' = acks
    BY <1>12 DEF Restart
  <2> QED BY <1>0, <1>a, <1>b, <2>1 DEF PumpTypes
<1> QED BY <1>1, <1>2, <1>3, <1>4, <1>5, <1>6, <1>7, <1>8, <1>9, <1>10, <1>11, <1>12, PumpCases

\* What the origin handled and what was lost is not forgotten.
LEMMA HistoryCases ==
    ASSUME Next
    PROVE  /\ \/ UNCHANGED <<admitted, lost>>
              \/ Receive /\ UNCHANGED lost
              \/ \E kind \in Kinds[private] : Publish(kind) /\ UNCHANGED admitted
           /\ admitted \subseteq admitted' /\ lost \subseteq lost'
<1>1. \/ UNCHANGED <<admitted, lost>>
      \/ Receive /\ UNCHANGED lost
      \/ \E kind \in Kinds[private] : Publish(kind) /\ UNCHANGED admitted
  BY DEF Next, PumpStep, ServerStep, CheckStatus, Push, Open, Adopt, Receive, StreamEnds,
     Announce,
         SendPublic, SendPrivate, SendError, PushFails, Ensure, AckFails, Take, Break, Crash,
         Reconfigure, Restart, Apply, historyVars, Publish, AckArrives
<1>2. Receive => admitted \subseteq admitted'
  BY DEF Receive, Admit, Refuse
<1>3. \A kind \in Kinds[private] : Publish(kind) => lost \subseteq lost'
  BY DEF Publish, PublishPublic, PublishPrivate
<1> QED BY <1>1, <1>2, <1>3

LEMMA HistoryTypesStep ==
    ASSUME Types, PublicWireInv, Next
    PROVE  HistoryTypes'
<1>0. private \in Streams /\ HistoryTypes
  BY TypeParts
<1>1. CASE UNCHANGED <<admitted, lost>>
  BY <1>0, <1>1 DEF HistoryTypes
<1>2. CASE Receive /\ UNCHANGED lost
  <2>1. CASE Expected(wire[1])
    <3>1. Name(wire[1]) \in Epochs \X Numbers
      BY <1>0, <1>2, <2>1, AdmittedEvent, Events
    <3>2. Admit(wire[1])
      BY <1>2, <2>1, ReceivedEvent
    <3> QED BY <1>0, <1>2, <3>1, <3>2 DEF HistoryTypes, Admit
  <2>2. CASE ~Expected(wire[1])
    <3>1. Refuse(wire[1])
      BY <1>2, <2>2, ReceivedEvent
    <3> QED BY <1>0, <1>2, <3>1 DEF HistoryTypes, Refuse
  <2> QED BY <2>1, <2>2
<1>3. ASSUME NEW kind \in Kinds[private], Publish(kind), UNCHANGED admitted
      PROVE  HistoryTypes'
  <2> DEFINE event == NewEvent(kind)
             All == (Epochs \cup {0}) \X (Numbers \cup {0})
  <2>1. event \in Event /\ Name(event) \in All
    BY <1>0, <1>3, PublishedEvent, Events
  <2>2. Evicted \subseteq All
    <3>1. Evicted = {} \/ (Len(replay) > 0 /\ Evicted = {Name(replay[1])})
      BY Evictions
    <3>2. Len(replay) > 0 => replay[1] \in Event
      BY SequenceTypes
    <3> QED BY <1>0, <3>1, <3>2, Events
  <2>3. Dropped(queue) \subseteq All
    <3>1. \A k \in DOMAIN queue : queue[k] \in Event \cup {Mark}
      BY SequenceTypes
    <3>2. \A x \in Event \cup {Mark} : Name(x) \in All
      BY <1>0, Events, Marks
    <3> QED BY <3>1, <3>2 DEF Dropped
  <2>4. lost' \subseteq lost \cup Evicted \cup Dropped(queue) \cup {Name(event)}
    <3> HIDE DEF event, All
    <3>1. PublishPublic(event) \/ PublishPrivate(event)
      BY <1>3, NewEvents DEF event
    <3> QED BY <3>1 DEF PublishPublic, PublishPrivate
  <2> QED BY <1>0, <1>3, <2>1, <2>2, <2>3, <2>4 DEF HistoryTypes
<1> QED BY <1>1, <1>2, <1>3, HistoryCases

LEMMA BoundTypesStep ==
    ASSUME Types, Next
    PROVE  BoundTypes'
<1>1. /\ breaks' = breaks \/ (breaks < MaxBreaks[private] /\ breaks' = breaks + 1)
      /\ restarts' = restarts \/ (restarts < MaxRestarts[private] /\ restarts' = restarts + 1)
      /\ private' = private
  BY DEF Next, PumpStep, ServerStep, CheckStatus, Push, Open, Adopt, Receive, StreamEnds,
     Announce,
         SendPublic, SendPrivate, SendError, PushFails, Ensure, AckFails, Take, Break, Crash,
         Reconfigure, Restart, Apply, historyVars, Publish, AckArrives
<1>2. BoundTypes /\ MaxBreaks[private] \in Nat /\ MaxRestarts[private] \in Nat
  BY TypeParts, Bounds
<1> QED BY <1>1, <1>2 DEF BoundTypes

LEMMA TypeStep ==
    ASSUME Types, ReplayInv, PositionInv, PublicWireInv, Next
    PROVE  Types'
<1>1. ServerTypes' /\ ConnTypes' /\ PumpTypes' /\ HistoryTypes' /\ BoundTypes'
  BY ServerTypesStep, ConnTypesStep, PumpTypesStep, HistoryTypesStep, BoundTypesStep
<1>2. (private \in Streams)'
  BY TypeParts DEF Next
<1>3. Message' = Message /\ Event' = Event
  BY SamePrivate DEF Next
<1> QED BY <1>1, <1>2, <1>3 DEF Types, TypeOK, ServerTypes, ConnTypes, PumpTypes, HistoryTypes,
      BoundTypes, Message

(***************************************************************************)
(* The server keeps what is neither acknowledged nor lost.                 *)
(***************************************************************************)
\* What publishing does to the replay.
LEMMA PublishReplay ==
    ASSUME Types, ReplayInv, NEW kind \in Kinds[private], Publish(kind)
    PROVE  /\ published' = [published EXCEPT ![epoch] = @ + 1]
           /\ epoch' = epoch /\ acked' = acked
           /\ \/ replay' = replay /\ private /\ failed'
              \/ \E d \in {0, 1} :
                    /\ Len(replay) \in Nat /\ d <= Len(replay)
                    /\ DOMAIN replay' = 1..(Len(replay) - d + 1)
                    /\ \A k \in 1..(Len(replay) - d) : replay'[k] = replay[k + d]
                    /\ replay'[Len(replay) - d + 1] = NewEvent(kind)
                    /\ d = 1 => Name(replay[1]) \in lost'
<1> DEFINE event == NewEvent(kind)
<1>0. /\ published' = [published EXCEPT ![epoch] = @ + 1]
      /\ epoch' = epoch /\ acked' = acked
  BY DEF Publish
<1>1. event \in Event
  BY PublishedEvent
<1> HIDE DEF event
<1>2. \/ replay' = replay /\ private /\ failed'
      \/ replay' = Append(Evict, event) /\ Evicted \subseteq lost'
  <2>1. PublishPublic(event) \/ PublishPrivate(event)
    BY NewEvents DEF event
  <2> QED BY <2>1 DEF PublishPublic, PublishPrivate
<1>4. ASSUME replay' = Append(Evict, event), Evicted \subseteq lost'
      PROVE  \E d \in {0, 1} :
                /\ Len(replay) \in Nat /\ d <= Len(replay)
                /\ DOMAIN replay' = 1..(Len(replay) - d + 1)
                /\ \A k \in 1..(Len(replay) - d) : replay'[k] = replay[k + d]
                /\ replay'[Len(replay) - d + 1] = event
                /\ d = 1 => Name(replay[1]) \in lost'
  <2>1. /\ Evict \in Seq(Event) /\ Len(Evict) \in Nat
        /\ DOMAIN replay' = 1..(Len(Evict) + 1)
        /\ \A k \in 1..Len(Evict) : replay'[k] = Evict[k]
        /\ replay'[Len(Evict) + 1] = event
    BY <1>1, <1>4, Evictions, Appends
  <2>2. Len(replay) \in Nat /\ DOMAIN replay = 1..Len(replay)
    BY SequenceTypes
  <2>3. CASE Evict = replay
    <3>1. Len(replay) - 0 = Len(replay) /\ 0 <= Len(replay)
      BY <2>2
    <3>2. \A k \in 1..Len(replay) : k + 0 = k
      BY <2>2
    <3>3. /\ DOMAIN replay' = 1..(Len(replay) - 0 + 1)
          /\ \A k \in 1..(Len(replay) - 0) : replay'[k] = replay[k + 0]
          /\ replay'[Len(replay) - 0 + 1] = event
      BY <2>1, <2>3, <3>1, <3>2
    <3> WITNESS 0 \in {0, 1}
    <3> QED BY <2>2, <3>1, <3>3
  <2>4. CASE /\ Len(replay) > 0 /\ Len(Evict) = Len(replay) - 1
             /\ \A k \in 1..Len(Evict) : Evict[k] = replay[k + 1]
             /\ Evicted = {Name(replay[1])}
    <3>1. 1 <= Len(replay) /\ Name(replay[1]) \in lost'
      BY <1>4, <2>2, <2>4
    <3>2. /\ DOMAIN replay' = 1..(Len(replay) - 1 + 1)
          /\ \A k \in 1..(Len(replay) - 1) : replay'[k] = replay[k + 1]
          /\ replay'[Len(replay) - 1 + 1] = event
      BY <2>1, <2>4
    <3> WITNESS 1 \in {0, 1}
    <3> QED BY <2>2, <3>1, <3>2
  <2> QED BY <2>3, <2>4, Evictions
<1>5. \/ replay' = replay /\ private /\ failed'
      \/ \E d \in {0, 1} :
            /\ Len(replay) \in Nat /\ d <= Len(replay)
            /\ DOMAIN replay' = 1..(Len(replay) - d + 1)
            /\ \A k \in 1..(Len(replay) - d) : replay'[k] = replay[k + d]
            /\ replay'[Len(replay) - d + 1] = event
            /\ d = 1 => Name(replay[1]) \in lost'
  BY <1>2, <1>4
<1> QED BY <1>0, <1>5 DEF event

LEMMA ServerFacts ==
    ASSUME Types
    PROVE  /\ private \in Streams /\ epoch \in Epochs /\ epoch \in Nat \ {0}
           /\ Epochs \subseteq Nat \ {0} /\ published \in [Epochs -> Numbers \cup {0}]
           /\ \A e \in Epochs : published[e] \in Nat
           /\ replay \in Seq(Event) /\ Len(replay) \in Nat /\ DOMAIN replay = 1..Len(replay)
           /\ \A k \in 1..Len(replay) : replay[k] \in Event /\ replay[k].id \in Nat \ {0}
<1>1. /\ private \in Streams /\ epoch \in Epochs /\ published \in [Epochs -> Numbers \cup {0}]
  BY DEF Types, TypeOK
<1>2. \A e \in Epochs : published[e] \in Nat
  BY <1>1, Bounds
<1>3. /\ replay \in Seq(Event) /\ Len(replay) \in Nat /\ DOMAIN replay = 1..Len(replay)
      /\ \A k \in 1..Len(replay) : replay[k] \in Event
  BY SequenceTypes
<1>4. \A k \in 1..Len(replay) : replay[k].id \in Nat \ {0}
  BY <1>1, <1>3, Events
<1> QED BY <1>1, <1>2, <1>3, <1>4, Bounds

LEMMA AckTypes ==
    ASSUME Types
    PROVE  /\ acked \in Nat
           /\ \A a \in acks : a \in [epoch : Epochs, id : Numbers] /\ a.epoch \in Epochs
                              /\ a.id \in Numbers /\ a.id \in Nat \ {0}
<1>1. private \in Streams /\ acked \in Numbers \cup {0}
      /\ acks \subseteq [epoch : Epochs, id : Numbers]
  BY DEF Types, TypeOK
<1> QED BY <1>1, Bounds

LEMMA ReplayStep ==
    ASSUME Types, ReplayInv, Next
    PROVE  ReplayInv'
<1>0. /\ private \in Streams /\ epoch \in Epochs /\ epoch \in Nat
      /\ Epochs \subseteq Nat /\ published \in [Epochs -> Numbers \cup {0}]
      /\ \A e \in Epochs : published[e] \in Nat
      /\ Len(replay) \in Nat /\ DOMAIN replay = 1..Len(replay)
      /\ \A k \in 1..Len(replay) : replay[k].id \in Nat
  BY ServerFacts
<1>a. /\ \A e \in Epochs : e > epoch => published[e] = 0
      /\ \A k \in DOMAIN replay : replay[k].epoch = epoch /\ replay[k].id <= published[epoch]
      /\ \A j, k \in DOMAIN replay : j < k => replay[j].id < replay[k].id
  BY DEF ReplayInv
<1>1. CASE UNCHANGED <<epoch, published, replay, acked, failed>>
  BY <1>1 DEF ReplayInv
<1>2. CASE Reset
  <2>1. epoch' = epoch + 1 /\ published' = published /\ replay' = <<>>
    BY <1>2, ResetTypes
  <2>2. \A e \in Epochs : e > epoch' => published'[e] = 0
    BY <1>0, <1>a, <2>1
  <2> QED BY <2>1, <2>2 DEF ReplayInv
<1>3. ASSUME NEW kind \in Kinds[private], Publish(kind)
      PROVE  ReplayInv'
  <2>1. published' = [published EXCEPT ![epoch] = @ + 1] /\ epoch' = epoch
    BY <1>3, PublishReplay
  <2>2. \A e \in Epochs : e > epoch' => published'[e] = 0
    BY <1>0, <1>a, <2>1
  <2>3. published'[epoch] = published[epoch] + 1
    BY <1>0, <2>1
  <2>4. CASE replay' = replay
    <3>1. \A k \in DOMAIN replay' : replay'[k].epoch = epoch' /\ replay'[k].id <= published'[epoch']
      BY <1>0, <1>a, <2>1, <2>3, <2>4
    <3> QED BY <1>a, <2>2, <2>4, <3>1 DEF ReplayInv
  <2>5. CASE \E d \in {0, 1} :
                /\ d <= Len(replay)
                /\ DOMAIN replay' = 1..(Len(replay) - d + 1)
                /\ \A k \in 1..(Len(replay) - d) : replay'[k] = replay[k + d]
                /\ replay'[Len(replay) - d + 1] = NewEvent(kind)
    <3>1. PICK d \in {0, 1} :
                /\ d <= Len(replay)
                /\ DOMAIN replay' = 1..(Len(replay) - d + 1)
                /\ \A k \in 1..(Len(replay) - d) : replay'[k] = replay[k + d]
                /\ replay'[Len(replay) - d + 1] = NewEvent(kind)
      BY <2>5
    <3> DEFINE n == Len(replay) - d
    <3>2. n \in Nat /\ \A k \in 1..n : k + d \in DOMAIN replay
      BY <1>0, <3>1
    <3>3. /\ DOMAIN replay' = 1..(n + 1)
          /\ \A k \in 1..n : replay'[k] = replay[k + d]
          /\ replay'[n + 1].epoch = epoch /\ replay'[n + 1].id = published[epoch] + 1
      BY <3>1, NewEvents
    <3> HIDE DEF n
    <3>4. \A k \in 1..n : /\ replay'[k].epoch = epoch /\ replay'[k].id <= published[epoch]
                          /\ replay'[k].id \in Nat
      BY <1>0, <1>a, <3>2, <3>3
    <3>5. \A k \in DOMAIN replay' : replay'[k].epoch = epoch' /\ replay'[k].id <= published'[epoch']
      BY <1>0, <2>1, <2>3, <3>2, <3>3, <3>4
    <3>6. ASSUME NEW j \in DOMAIN replay', NEW k \in DOMAIN replay', j < k
          PROVE  replay'[j].id < replay'[k].id
      <4>1. CASE k = n + 1
        <5>1. j \in 1..n
          BY <3>2, <3>3, <3>6, <4>1
        <5> QED BY <1>0, <3>3, <3>4, <4>1, <5>1
      <4>2. CASE k \in 1..n
        <5>1. j \in 1..n /\ d \in Nat
          BY <3>2, <3>3, <3>6, <4>2
        <5>2. j + d < k + d
          BY <3>6, <4>2, <5>1
        <5> QED BY <1>a, <3>2, <3>3, <4>2, <5>1, <5>2
      <4> QED BY <3>2, <3>3, <3>6, <4>1, <4>2
    <3> QED BY <2>2, <3>5, <3>6 DEF ReplayInv
  <2> QED BY <1>3, <2>4, <2>5, PublishReplay
<1>4. ASSUME NEW a \in acks, AckArrives(a)
      PROVE  ReplayInv'
  <2>1. epoch' = epoch /\ published' = published
    BY <1>4 DEF AckArrives
  <2>2. CASE replay' = replay
    BY <2>1, <2>2 DEF ReplayInv
  <2>3. CASE replay' = Above(a.id, replay)
    <3>1. a.id \in Nat
      BY AckTypes
    <3>2. PICK m \in 0..Len(replay) :
              /\ DOMAIN replay' = 1..(Len(replay) - m)
              /\ \A k \in 1..(Len(replay) - m) : replay'[k] = replay[k + m]
      BY <2>3, <3>1, AboveReplay
    <3>3. \A k \in DOMAIN replay' : k + m \in DOMAIN replay /\ replay'[k] = replay[k + m]
      BY <1>0, <3>2
    <3>4. \A k \in DOMAIN replay' : replay'[k].epoch = epoch' /\ replay'[k].id <= published'[epoch']
      BY <1>a, <2>1, <3>3
    <3>5. \A j, k \in DOMAIN replay' : j < k => j + m < k + m
      BY <1>0, <3>2
    <3>6. \A j, k \in DOMAIN replay' : j < k => replay'[j].id < replay'[k].id
      BY <1>a, <3>3, <3>5
    <3> QED BY <1>a, <2>1, <3>4, <3>6 DEF ReplayInv
  <2> QED BY <1>4, <2>2, <2>3 DEF AckArrives, Acknowledge
<1> QED BY <1>1, <1>2, <1>3, <1>4, ServerCases

LEMMA RetainedStep ==
    ASSUME Types, ReplayInv, RetainedInv, Next
    PROVE  RetainedInv'
<1>0. /\ private \in Streams /\ epoch \in Epochs /\ epoch \in Nat /\ private' = private
      /\ published \in [Epochs -> Numbers \cup {0}] /\ published[epoch] \in Nat
      /\ Len(replay) \in Nat /\ DOMAIN replay = 1..Len(replay)
      /\ \A k \in 1..Len(replay) : replay[k].id \in Nat
      /\ lost \subseteq lost'
  BY ServerFacts, HistoryCases DEF Next
<1>a. \A i \in 1..published[epoch] :
        \/ i <= acked \/ <<epoch, i>> \in lost \/ (private /\ failed)
        \/ \E k \in DOMAIN replay : replay[k].id = i
  BY DEF RetainedInv
<1>1. CASE UNCHANGED <<epoch, published, replay, acked, failed>>
  BY <1>0, <1>a, <1>1 DEF RetainedInv
<1>2. CASE Reset
  <2>1. published'[epoch'] = 0
    BY <1>0, <1>2, ResetTypes DEF ReplayInv
  <2> QED BY <2>1 DEF RetainedInv
<1>3. ASSUME NEW kind \in Kinds[private], Publish(kind)
      PROVE  RetainedInv'
  <2>1. /\ published'[epoch] = published[epoch] + 1 /\ epoch' = epoch /\ acked' = acked
    BY <1>0, <1>3, PublishReplay
  <2>2. CASE private /\ failed'
    BY <1>0, <2>2 DEF RetainedInv
  <2>3. CASE ~(private /\ failed')
    <3>0. ~(private /\ failed)
      BY <1>3, <2>3 DEF Publish, PublishPublic, PublishPrivate
    <3>1. PICK d \in {0, 1} :
              /\ d <= Len(replay)
              /\ DOMAIN replay' = 1..(Len(replay) - d + 1)
              /\ \A k \in 1..(Len(replay) - d) : replay'[k] = replay[k + d]
              /\ replay'[Len(replay) - d + 1] = NewEvent(kind)
              /\ d = 1 => Name(replay[1]) \in lost'
      BY <1>3, <2>3, PublishReplay
    <3>2. SUFFICES ASSUME NEW i \in 1..published'[epoch]
                   PROVE  \/ i <= acked \/ <<epoch, i>> \in lost'
                          \/ \E k \in DOMAIN replay' : replay'[k].id = i
      BY <2>1 DEF RetainedInv
    <3>3. CASE i = published[epoch] + 1
      <4>1. Len(replay) - d + 1 \in DOMAIN replay' /\ replay'[Len(replay) - d + 1].id = i
        BY <1>0, <3>1, <3>3, NewEvents
      <4> QED BY <4>1
    <3>4. CASE i \in 1..published[epoch]
      <4>1. \/ i <= acked \/ <<epoch, i>> \in lost
            \/ \E k \in DOMAIN replay : replay[k].id = i
        BY <1>a, <3>0, <3>4
      <4>2. ASSUME NEW k \in DOMAIN replay, replay[k].id = i
            PROVE  <<epoch, i>> \in lost' \/ \E j \in DOMAIN replay' : replay'[j].id = i
        <5>0. d \in Nat /\ d <= Len(replay) /\ k \in 1..Len(replay)
          BY <1>0, <3>1
        <5>1. CASE k > d
          <6>0. k - d \in 1..(Len(replay) - d) /\ (k - d) + d = k
                /\ k - d \in 1..(Len(replay) - d + 1)
            BY <1>0, <5>0, <5>1
          <6>1. k - d \in 1..(Len(replay) - d) /\ (k - d) + d = k /\ k - d \in DOMAIN replay'
            BY <3>1, <6>0
          <6>2. replay'[k - d] = replay[k]
            BY <3>1, <6>1
          <6> QED BY <4>2, <6>1, <6>2
        <5>2. CASE ~(k > d)
          <6>1. k = 1 /\ d = 1
            BY <5>0, <5>2
          <6>2. replay[1].epoch = epoch
            BY <6>1 DEF ReplayInv
          <6> QED BY <3>1, <4>2, <6>1, <6>2 DEF Name
        <5> QED BY <5>1, <5>2
      <4> QED BY <1>0, <4>1, <4>2
    <3> QED BY <1>0, <2>1, <3>3, <3>4
  <2> QED BY <2>2, <2>3
<1>4. ASSUME NEW a \in acks, AckArrives(a)
      PROVE  RetainedInv'
  <2>1. epoch' = epoch /\ published' = published /\ failed' = failed
    BY <1>4 DEF AckArrives
  <2>2. CASE replay' = replay /\ acked' = acked
    BY <1>0, <1>a, <2>1, <2>2 DEF RetainedInv
  <2>3. CASE replay' = Above(a.id, replay) /\ acked' = a.id /\ a.id > acked
    <3>1. a.id \in Nat /\ acked \in Nat
      BY AckTypes
    <3>2. PICK m \in 0..Len(replay) :
              /\ DOMAIN replay' = 1..(Len(replay) - m)
              /\ \A k \in 1..(Len(replay) - m) : replay'[k] = replay[k + m]
              /\ \A k \in DOMAIN replay : replay[k].id <= a.id <=> k <= m
      BY <2>3, <3>1, AboveReplay
    <3>3. SUFFICES ASSUME NEW i \in 1..published[epoch]
                   PROVE  \/ i <= acked' \/ <<epoch, i>> \in lost' \/ (private /\ failed)
                          \/ \E k \in DOMAIN replay' : replay'[k].id = i
      BY <1>0, <2>1 DEF RetainedInv
    <3>4. ASSUME NEW k \in DOMAIN replay, replay[k].id = i
          PROVE  i <= acked' \/ \E j \in DOMAIN replay' : replay'[j].id = i
      <4>1. CASE k <= m
        BY <2>3, <3>2, <3>4, <4>1
      <4>2. CASE ~(k <= m)
        <5>1. k - m \in 1..(Len(replay) - m) /\ (k - m) + m = k
          BY <1>0, <4>2
        <5>2. replay'[k - m] = replay[k] /\ k - m \in DOMAIN replay'
          BY <3>2, <5>1
        <5> QED BY <3>4, <5>2
      <4> QED BY <4>1, <4>2
    <3>5. i <= acked => i <= acked'
      BY <1>0, <2>3, <3>1
    <3> QED BY <1>0, <1>a, <3>4, <3>5
  <2> QED BY <1>4, <2>2, <2>3 DEF AckArrives, Acknowledge
<1> QED BY <1>1, <1>2, <1>3, <1>4, ServerCases

(***************************************************************************)
(* Where the pump is.                                                      *)
(***************************************************************************)
LEMMA PumpFacts ==
    ASSUME Types
    PROVE  /\ known \in Epochs \cup {0} /\ known \in Nat /\ cur \in Numbers \cup {0} /\ cur \in Nat
           /\ inbox \in Seq(Event) /\ handled \in Seq(Epochs \X Numbers)
           /\ Len(inbox) \in Nat /\ DOMAIN inbox = 1..Len(inbox)
           /\ Len(handled) \in Nat /\ DOMAIN handled = 1..Len(handled)
<1>1. private \in Streams /\ known \in Epochs \cup {0} /\ cur \in Numbers \cup {0}
  BY DEF Types, TypeOK
<1> QED BY <1>1, Bounds, SequenceTypes

\* What is admitted is the next event of a private stream, or a later one of the epoch
\* that the pump knows.
LEMMA AdmittedFacts ==
    ASSUME Types, PositionInv, PublicWireInv, PrivateWireInv, Receive, Expected(wire[1])
    PROVE  /\ wire[1] \in Event /\ wire[1].epoch = known /\ known \in Epochs /\ known # 0
           /\ wire[1].id \in Nat \ {0} /\ cur < wire[1].id
           /\ wire[1].id <= published[known]
           /\ private => wire[1].id = cur + 1
           /\ Name(wire[1]) = <<known, wire[1].id>>
           /\ Admit(wire[1]) /\ known' = known /\ cur' = wire[1].id
<1>1. wire[1] \in Event /\ wire[1].id \in Nat \ {0} /\ wire[1].epoch \in Epochs
  BY AdmittedEvent, Events DEF Types
<1>2. 1 \in DOMAIN wire /\ wire[1].kind \notin {"ready", "error"}
  <2>1. 1 \in DOMAIN wire
    BY ReceivedEvent, SequenceTypes, EmptySeq
  <2> QED BY <1>1, <2>1, Events DEF Types
<1>3. Admit(wire[1]) /\ known' = known /\ cur' = wire[1].id
  BY ReceivedEvent DEF Admit
<1>4. known \in Nat /\ cur \in Nat /\ \A e \in Epochs : e \in Nat \ {0}
  BY PumpFacts, ServerFacts
<1>5. CASE private
  <2>1. wire[1].epoch = known /\ wire[1].id <= published[known]
    BY <1>2, <1>5, Marks DEF PrivateWireInv
  <2>2. wire[1].id = cur + 1
    BY <1>5, ReceivedEvent
  <2>3. known \in Epochs /\ known # 0 /\ cur < wire[1].id
    BY <1>1, <1>4, <2>1, <2>2
  <2> QED BY <1>1, <1>3, <2>1, <2>2, <2>3 DEF Name
<1>6. CASE ~private
  <2>1. wire[1].epoch = known /\ wire[1].id > cur
    BY <1>6, ReceivedEvent
  <2>2. wire[1].id <= published[known]
    BY <1>2, <1>6, <2>1 DEF PublicWireInv, Proper
  <2>3. known \in Epochs /\ known # 0 /\ cur < wire[1].id
    BY <1>1, <1>4, <2>1
  <2> QED BY <1>1, <1>3, <1>6, <2>1, <2>2, <2>3 DEF Name
<1> QED BY <1>5, <1>6

\* Only a public stream announces an epoch, and never an earlier one.
LEMMA AdoptedFacts ==
    ASSUME Types, PublicWireInv, PrivateWireInv, Adopt
    PROVE  /\ ~private /\ wire # <<>> /\ Head(wire) = wire[1] /\ wire[1].kind = "ready"
           /\ wire[1].epoch \in Epochs /\ known <= wire[1].epoch /\ wire[1].epoch <= epoch
           /\ wire[1].id = 0
           /\ known' = wire[1].epoch /\ wire' = Tail(wire)
           /\ cur' = IF wire[1].epoch # known THEN 0 ELSE cur
           /\ inbox' = IF wire[1].epoch # known THEN <<>> ELSE inbox
           /\ UNCHANGED <<serverVars, live, serving, cursor, snapshot, queue, acks, pump,
                          historyVars, breaks, restarts>>
<1>1. wire \in Seq(Message) /\ wire # <<>>
  BY SequenceTypes DEF Adopt, Read
<1>2. Head(wire) = wire[1] /\ wire[1] \in Message /\ 1 \in DOMAIN wire
  BY <1>1, Tails
<1>3. wire[1].kind = "ready"
  BY <1>2 DEF Adopt
<1>4. ~private
  BY <1>2, <1>3, Marks DEF PrivateWireInv
<1>5. known <= wire[1].epoch /\ wire[1].epoch <= epoch
  BY <1>2, <1>4 DEF PublicWireInv, Proper, Tag
<1>6. wire[1].epoch \in Epochs /\ wire[1].id = 0
  BY <1>2, <1>3, Messages DEF Types
<1> QED BY <1>1, <1>2, <1>3, <1>4, <1>5, <1>6 DEF Adopt, Read

LEMMA PositionStep ==
    ASSUME IInv, Next
    PROVE  PositionInv'
<1> USE DEF IInv
<1>0. /\ private' = private /\ epoch \in Nat /\ epoch' \in Nat /\ epoch <= epoch'
      /\ \A e \in Epochs : /\ published[e] \in Nat /\ published'[e] \in Nat
                           /\ published[e] <= published'[e]
      /\ known \in Epochs \cup {0} /\ known \in Nat /\ cur \in Nat /\ epoch' \in Epochs
      /\ epoch' # 0
  BY ServerEpoch, PumpFacts DEF Next
<1>a. /\ known <= epoch
      /\ known # 0 => cur <= published[known]
      /\ known = 0 => cur = 0 /\ inbox = <<>> /\ handled = <<>>
      /\ private /\ known = 0 => wire = <<>> /\ ~live
      /\ pump = "suspended" => private
  BY DEF PositionInv
<1> DEFINE P == /\ known' <= epoch'
                /\ known' # 0 => cur' <= published'[known']
                /\ known' = 0 => cur' = 0 /\ inbox' = <<>> /\ handled' = <<>>
                /\ pump' = "suspended" => private
           Q == private /\ known' = 0 => wire' = <<>> /\ ~live'
<1>b. known' = known /\ cur' = cur =>
        known' <= epoch' /\ (known' # 0 => cur' <= published'[known'])
  <2> SUFFICES ASSUME known' = known, cur' = cur
               PROVE  known' <= epoch' /\ (known' # 0 => cur' <= published'[known'])
    OBVIOUS
  <2>1. known' <= epoch'
    BY <1>0, <1>a
  <2>2. ASSUME known # 0 PROVE cur <= published'[known]
    <3>1. /\ published[known] \in Nat /\ published'[known] \in Nat
          /\ published[known] <= published'[known]
      BY <1>0, <2>2
    <3> QED BY <1>0, <1>a, <2>2, <3>1
  <2> QED BY <2>1, <2>2
<1>1. P
  <2>1. CASE UNCHANGED <<acks, pump, known, cur, inbox, handled>>
    BY <1>a, <1>b, <2>1
  <2>2. CASE CheckStatus
    BY <1>a, <1>b, <2>2 DEF CheckStatus, historyVars
  <2>3. CASE Push \/ Ensure
    <3>1. pump' = "suspended" => private
      BY <2>3 DEF Push, Ensure
    <3>2. inbox' = inbox /\ handled' = handled /\ cur' = cur
      BY <2>3 DEF Push, Ensure
    <3>3. known' = known \/ (known = 0 /\ known' = epoch')
      BY <2>3 DEF Push, Ensure, Adopted
    <3>4. CASE known' = known
      BY <1>a, <1>b, <3>1, <3>2, <3>4
    <3>5. CASE known = 0 /\ known' = epoch'
      BY <1>0, <1>a, <3>1, <3>2, <3>5
    <3> QED BY <3>3, <3>4, <3>5
  <2>4. CASE PushFails
    BY <1>a, <1>b, <2>4 DEF PushFails
  <2>5. CASE Open
    BY <1>a, <1>b, <2>5 DEF Open, historyVars
  <2>6. CASE Adopt
    <3>1. /\ known' \in Epochs /\ known' <= epoch /\ cur' \in {0, cur}
          /\ cur' = 0 \/ (known' = known /\ cur' = cur)
          /\ pump' = pump
      BY <2>6, AdoptedFacts
    <3>2. known' # 0 /\ known' \in Nat
      BY <3>1, ServerFacts
    <3>3. cur' <= published'[known']
      BY <1>0, <1>b, <3>1, <3>2
    <3> QED BY <1>0, <1>a, <3>1, <3>2, <3>3
  <2>7. CASE Receive
    <3>1. CASE Expected(wire[1])
      <4>1. /\ known \in Epochs /\ known # 0 /\ known' = known /\ cur' = wire[1].id
            /\ wire[1].id <= published[known] /\ wire[1].id \in Nat /\ pump' = "acking"
        BY <2>7, <3>1, AdmittedFacts DEF Admit
      <4>2. cur' <= published'[known']
        BY <1>0, <4>1
      <4> QED BY <1>0, <1>a, <4>1, <4>2
    <3>2. CASE ~Expected(wire[1])
      <4>1. /\ UNCHANGED <<known, cur, inbox, handled>>
            /\ pump' = "suspended" => private \/ pump = "suspended"
        BY <2>7, <3>2, ReceivedEvent DEF Refuse
      <4> QED BY <1>a, <1>b, <4>1
    <3> QED BY <3>1, <3>2
  <2>8. CASE AckFails
    BY <1>a, <1>b, <2>8 DEF AckFails, historyVars
  <2>9. CASE StreamEnds
    BY <1>a, <1>b, <2>9 DEF StreamEnds, historyVars
  <2>10. CASE Take
    BY <1>a, <1>b, <2>10 DEF Take, historyVars
  <2>11. ASSUME NEW a \in acks, AckArrives(a) PROVE P
    BY <1>a, <1>b, <2>11 DEF AckArrives, historyVars
  <2>12. ASSUME NEW edited \in BOOLEAN, Restart(edited) PROVE P
    BY <1>0, <2>12 DEF Restart
  <2> QED BY <2>1, <2>2, <2>3, <2>4, <2>5, <2>6, <2>7, <2>8, <2>9, <2>10, <2>11, <2>12, PumpCases
<1>2. Q
  <2> SUFFICES ASSUME private, known' = 0 PROVE wire' = <<>> /\ ~live'
    OBVIOUS
  <2>1. known = 0 \/ \E edited \in BOOLEAN : Restart(edited)
    <3>1. CASE Adopt
      BY <3>1, AdoptedFacts
    <3>2. CASE Receive
      BY <3>2, ReceivedEvent
    <3>3. CASE Push \/ Ensure
      BY <1>0, <3>3 DEF Push, Ensure, Adopted
    <3> QED BY <3>1, <3>2, <3>3, PumpCases
          DEF CheckStatus, PushFails, Open, AckFails, StreamEnds, Take, AckArrives
  <2>2. ASSUME NEW edited \in BOOLEAN, Restart(edited) PROVE wire' = <<>> /\ ~live'
    BY <2>2 DEF Restart, Disconnect
  <2>3. ASSUME known = 0 PROVE wire' = <<>> /\ ~live'
    <3>0. wire = <<>> /\ ~live
      BY <1>a, <2>3
    <3>1. CASE Open
      <4>1. UNCHANGED connVars
        BY <1>0, <2>3, <3>1, ServerFacts DEF Open
      <4> QED BY <3>0, <4>1 DEF connVars
    <3>2. CASE Broken
      <4>1. SubSeq(<<>>, 1, 0) = <<>> /\ Len(<<>>) = 0
        BY SubSeqEmpty
      <4>2. wire' = <<>>
        BY <3>0, <3>2, <4>1 DEF Broken, Cut
      <4> QED BY <3>2, <4>2 DEF Broken
    <3>3. CASE UNCHANGED <<wire, live>>
      BY <3>0, <3>3
    <3>4. CASE Announce \/ SendPublic \/ SendPrivate \/ SendError
      BY <3>0, <3>4 DEF Announce, SendPublic, SendPrivate, SendError
    <3>5. CASE Disconnect
      BY <3>5 DEF Disconnect
    <3>6. CASE ReadOnly
      BY <3>0, <3>6 DEF ReadOnly, Read
    <3> QED BY <3>1, <3>2, <3>3, <3>4, <3>5, <3>6, ConnCases DEF connVars, Publish, Woken
  <2> QED BY <2>1, <2>2, <2>3
<1> QED BY <1>0, <1>1, <1>2 DEF PositionInv

\* The inbox holds events of the epoch that the pump knows.
LEMMA InboxStep ==
    ASSUME IInv, Next
    PROVE  InboxOfOneEpoch'
<1> USE DEF IInv
<1>0. /\ inbox \in Seq(Event) /\ Len(inbox) \in Nat /\ DOMAIN inbox = 1..Len(inbox)
      /\ \A k \in DOMAIN inbox : inbox[k].epoch = known
  BY PumpFacts DEF InboxOfOneEpoch
<1>1. CASE UNCHANGED <<known, inbox>>
  BY <1>1 DEF InboxOfOneEpoch
<1>2. CASE inbox' = <<>>
  BY <1>2 DEF InboxOfOneEpoch
<1>3. ASSUME inbox # <<>>, inbox' = Tail(inbox), known' = known
      PROVE  InboxOfOneEpoch'
  <2>1. \A k \in DOMAIN inbox' : k + 1 \in DOMAIN inbox /\ inbox'[k] = inbox[k + 1]
    BY <1>0, <1>3, Tails
  <2> QED BY <1>0, <1>3, <2>1 DEF InboxOfOneEpoch
<1>4. ASSUME Receive, Expected(wire[1])
      PROVE  InboxOfOneEpoch'
  <2>1. Put(wire[1]) /\ wire[1] \in Event /\ wire[1].epoch = known /\ known' = known
    BY <1>4, AdmittedFacts DEF Admit
  <2>2. ASSUME NEW s \in Seq(Event), \A k \in DOMAIN s : s[k].epoch = known,
               inbox' = Append(s, wire[1])
        PROVE  InboxOfOneEpoch'
    <3>1. /\ DOMAIN inbox' = 1..(Len(s) + 1) /\ DOMAIN s = 1..Len(s) /\ Len(s) \in Nat
          /\ \A k \in 1..Len(s) : inbox'[k] = s[k]
          /\ inbox'[Len(s) + 1] = wire[1]
      BY <2>1, <2>2, Appends
    <3> QED BY <2>1, <2>2, <3>1 DEF InboxOfOneEpoch
  <2>3. CASE Len(inbox) = InboxSize /\ inbox' = Append(Tail(inbox), wire[1])
    <3>1. inbox # <<>>
      BY <1>0, <2>3, Bounds, EmptySeq DEF Types
    <3>2. Tail(inbox) \in Seq(Event) /\ \A k \in DOMAIN Tail(inbox) : Tail(inbox)[k].epoch = known
      BY <1>0, <3>1, Tails
    <3> QED BY <2>2, <2>3, <3>2
  <2> QED BY <1>0, <1>1, <2>1, <2>2, <2>3 DEF Put
<1>5. CASE Adopt
  BY <1>1, <1>2, <1>5, AdoptedFacts
<1>6. CASE Receive
  BY <1>1, <1>4, <1>6, ReceivedEvent DEF Refuse
<1>7. CASE Push \/ Ensure
  <2>1. inbox' = inbox /\ (known' = known \/ known = 0)
    BY <1>7 DEF Push, Ensure, Adopted
  <2> QED BY <1>1, <1>2, <2>1 DEF PositionInv
<1> QED BY <1>1, <1>2, <1>3, <1>5, <1>6, <1>7, PumpCases
      DEF CheckStatus, PushFails, Open, AckFails, StreamEnds, Take, AckArrives, Restart, historyVars

\* The history of the pump ends where the pump is.
LEMMA HandledStep ==
    ASSUME IInv, Next
    PROVE  HandledInv'
<1> USE DEF IInv
<1>0. private' = private /\ known \in Nat /\ cur \in Nat
  BY PumpFacts DEF Next
<1>1. CASE UNCHANGED <<known, cur, handled>>
  BY <1>0, <1>1 DEF HandledInv
<1>2. CASE handled' = <<>> /\ cur' = 0
  BY <1>2 DEF HandledInv
<1>3. CASE Push \/ Ensure
  <2>1. UNCHANGED <<cur, handled>> /\ (known' = known \/ known = 0)
    BY <1>3 DEF Push, Ensure, Adopted
  <2> QED BY <1>1, <1>2, <2>1 DEF PositionInv
<1>4. CASE Adopt
  <2>1. /\ ~private /\ handled' = handled /\ known' = wire[1].epoch /\ wire[1].epoch \in Epochs
        /\ known <= known' /\ (known' = known => cur' = cur)
    BY <1>4, AdoptedFacts DEF historyVars
  <2>2. known' \in Nat
    BY <2>1, ServerFacts
  <2>3. CASE handled # <<>>
    <3> DEFINE last == handled[Len(handled)]
    <3>1. last[1] < known \/ (last[1] = known /\ last[2] <= cur)
      BY <2>1, <2>3 DEF HandledInv
    <3>2. last \in Epochs \X Numbers /\ last[1] \in Nat
      <4>1. Len(handled) \in 1..Len(handled)
        BY <2>3, PumpFacts, EmptySeq
      <4>2. last \in Epochs \X Numbers
        BY <4>1, PumpFacts, ElementOfSeq
      <4> QED BY <4>2, ServerFacts
    <3>3. last[1] < known' \/ (last[1] = known' /\ last[2] <= cur')
      BY <1>0, <2>1, <2>2, <3>1, <3>2
    <3> QED BY <1>0, <2>1, <2>3, <3>3 DEF HandledInv
  <2>4. CASE handled = <<>>
    BY <1>0, <2>1, <2>4 DEF HandledInv
  <2> QED BY <2>3, <2>4
<1>5. CASE Receive
  <2>1. CASE Expected(wire[1])
    <3>1. /\ wire[1] \in Event /\ known' = known /\ cur' = wire[1].id
          /\ Name(wire[1]) = <<known, wire[1].id>> /\ wire[1].id \in Nat
          /\ handled' = Append(handled, Name(wire[1]))
      BY <1>5, <2>1, AdmittedFacts DEF Admit
    <3>2. Name(wire[1]) \in Epochs \X Numbers
      BY <3>1, Events DEF Types
    <3>3. handled' # <<>> /\ handled'[Len(handled')] = <<known', cur'>>
      BY <3>1, <3>2, PumpFacts, AppendProperties
    <3> QED BY <1>0, <3>1, <3>3 DEF HandledInv
  <2>2. CASE ~Expected(wire[1])
    BY <1>1, <1>5, <2>2, ReceivedEvent DEF Refuse
  <2> QED BY <2>1, <2>2
<1> QED BY <1>1, <1>2, <1>3, <1>4, <1>5, PumpCases
      DEF CheckStatus, PushFails, Open, AckFails, StreamEnds, Take, AckArrives, Restart, historyVars

(***************************************************************************)
(* What is acknowledged.                                                   *)
(***************************************************************************)
LEMMA SettledGrows ==
    ASSUME Next
    PROVE  Settled \subseteq Settled'
BY HistoryCases DEF Settled

\* After an admission, everything up to the new position is settled.
LEMMA AdmittedSettles ==
    ASSUME IInv, Receive, Expected(wire[1]), Next
    PROVE  \A i \in 1..wire[1].id : <<known, i>> \in Settled'
<1> USE DEF IInv
<1>1. /\ wire[1].epoch = known /\ known \in Epochs /\ wire[1].id \in Nat /\ cur \in Nat
      /\ Name(wire[1]) = <<known, wire[1].id>> /\ Admit(wire[1])
      /\ private => wire[1].id = cur + 1
  BY AdmittedFacts, PumpFacts
<1>2. <<known, wire[1].id>> \in Settled' /\ Settled \subseteq Settled'
  BY <1>1, SettledGrows DEF Admit, Settled
<1>3. ASSUME NEW i \in 1..(wire[1].id - 1)
      PROVE  <<known, i>> \in Settled
  <2>1. CASE private
    <3>1. i \in 1..cur
      BY <1>1, <2>1
    <3> QED BY <3>1 DEF SettledInv
  <2>2. CASE ~private
    <3>1. 1 \in DOMAIN wire
      BY ReceivedEvent, SequenceTypes, EmptySeq
    <3>2. Complete(known, wire, Settled)
      BY <1>1, <2>2 DEF PublicWireInv, Proper
    <3> QED BY <1>1, <3>1, <3>2 DEF Complete
  <2> QED BY <2>1, <2>2
<1>4. \A i \in 1..wire[1].id : i = wire[1].id \/ i \in 1..(wire[1].id - 1)
  BY <1>1
<1> QED BY <1>2, <1>3, <1>4

LEMMA SettledStep ==
    ASSUME IInv, Next
    PROVE  SettledInv'
<1> USE DEF IInv
<1>0. /\ Settled \subseteq Settled' /\ known \in Nat /\ cur \in Nat
      /\ \A i \in 1..cur : <<known, i>> \in Settled
      /\ \A a \in acks : \A i \in 1..a.id : <<a.epoch, i>> \in Settled
      /\ \A i \in 1..acked : <<epoch, i>> \in Settled
  BY SettledGrows, PumpFacts DEF SettledInv
<1>1. \A i \in 1..cur' : <<known', i>> \in Settled'
  <2>1. CASE UNCHANGED <<known, cur>>
    BY <1>0, <2>1
  <2>2. CASE cur' = 0
    BY <2>2
  <2>3. CASE Push \/ Ensure
    <3>1. cur' = cur /\ (known' = known \/ known = 0)
      BY <2>3 DEF Push, Ensure, Adopted
    <3> QED BY <2>1, <2>2, <3>1 DEF PositionInv
  <2>4. CASE Adopt
    BY <2>1, <2>2, <2>4, AdoptedFacts
  <2>5. CASE Receive
    <3>1. CASE Expected(wire[1])
      BY <2>5, <3>1, AdmittedFacts, AdmittedSettles
    <3>2. CASE ~Expected(wire[1])
      BY <2>1, <2>5, <3>2, ReceivedEvent DEF Refuse
    <3> QED BY <3>1, <3>2
  <2> QED BY <2>1, <2>2, <2>3, <2>4, <2>5, PumpCases
        DEF CheckStatus, PushFails, Open, AckFails, StreamEnds, Take, AckArrives, Restart
<1>2. \A a \in acks' : \A i \in 1..a.id : <<a.epoch, i>> \in Settled'
  <2>1. CASE acks' \subseteq acks
    BY <1>0, <2>1
  <2>2. CASE Receive
    <3>1. CASE Expected(wire[1])
      <4>1. acks' = acks \cup {[epoch |-> known, id |-> wire[1].id]}
        BY <2>2, <3>1, AdmittedFacts DEF Admit
      <4>2. \A i \in 1..wire[1].id : <<known, i>> \in Settled'
        BY <2>2, <3>1, AdmittedSettles
      <4>3. ASSUME NEW a \in acks' PROVE \A i \in 1..a.id : <<a.epoch, i>> \in Settled'
        <5>1. a \in acks \/ (a.epoch = known /\ a.id = wire[1].id)
          BY <4>1
        <5> QED BY <1>0, <4>2, <5>1
      <4> QED BY <4>3
    <3>2. CASE ~Expected(wire[1])
      <4>1. acks' \subseteq acks \cup {[epoch |-> known, id |-> cur]}
        BY <2>2, <3>2, ReceivedEvent DEF Refuse
      <4>2. ASSUME NEW a \in acks' PROVE \A i \in 1..a.id : <<a.epoch, i>> \in Settled'
        <5>1. a \in acks \/ (a.epoch = known /\ a.id = cur)
          BY <4>1
        <5> QED BY <1>0, <5>1
      <4> QED BY <4>2
    <3> QED BY <3>1, <3>2
  <2> QED BY <2>1, <2>2, PumpCases
        DEF CheckStatus, Push, Ensure, PushFails, Open, Adopt, AckFails, StreamEnds, Take, AckArrives,
              Restart
<1>3. \A i \in 1..acked' : <<epoch', i>> \in Settled'
  <2>1. CASE UNCHANGED <<epoch, acked>>
    BY <1>0, <2>1
  <2>2. CASE Reset
    BY <2>2, ResetTypes
  <2>3. ASSUME NEW a \in acks, AckArrives(a)
        PROVE  \A i \in 1..acked' : <<epoch', i>> \in Settled'
    <3>1. epoch' = epoch /\ (acked' = acked \/ (a.epoch = epoch /\ acked' = a.id))
      BY <2>3 DEF AckArrives, Acknowledge
    <3> QED BY <1>0, <3>1
  <2> QED BY <2>1, <2>2, <2>3, ServerCases DEF Publish
<1> QED BY <1>1, <1>2, <1>3 DEF SettledInv

LEMMA RestartsGrow ==
    ASSUME Types, Next
    PROVE  /\ restarts \in Nat /\ restarts' \in Nat /\ restarts <= restarts'
           /\ \A edited \in BOOLEAN : Restart(edited) => restarts' > 0
<1>1. restarts \in Nat
  BY Bounds DEF Types, TypeOK
<1>2. \/ restarts' = restarts
      \/ restarts' = restarts + 1
  BY DEF Next, PumpStep, ServerStep, CheckStatus, Push, Open, Adopt, Receive, StreamEnds,
     Announce,
         SendPublic, SendPrivate, SendError, PushFails, Ensure, AckFails, Take, Break, Crash,
         Reconfigure, Restart, Apply, historyVars, Publish, AckArrives
<1>3. \A edited \in BOOLEAN : Restart(edited) => restarts' = restarts + 1
  BY DEF Restart
<1> QED BY <1>1, <1>2, <1>3

\* Until it is reset, the server does not go back.
LEMMA ServerGrows ==
    ASSUME Types, Next
    PROVE  \/ Reset /\ epoch' = epoch + 1
           \/ epoch' = epoch /\ (failed => failed') /\ acked' \in Nat /\ acked <= acked'
<1>0. acked \in Nat /\ \A a \in acks : a.id \in Nat
  BY AckTypes
<1>1. CASE UNCHANGED <<epoch, published, replay, acked, failed>>
  BY <1>0, <1>1
<1>2. CASE Reset
  BY <1>2, ResetTypes
<1>3. ASSUME NEW kind \in Kinds[private], Publish(kind)
      PROVE  epoch' = epoch /\ (failed => failed') /\ acked' \in Nat /\ acked <= acked'
  <2>1. epoch' = epoch /\ acked' = acked
    BY <1>3 DEF Publish
  <2>2. failed => failed'
    BY <1>3, NewEvents DEF PublishPublic, PublishPrivate
  <2> QED BY <1>0, <2>1, <2>2
<1>4. ASSUME NEW a \in acks, AckArrives(a)
      PROVE  epoch' = epoch /\ (failed => failed') /\ acked' \in Nat /\ acked <= acked'
  <2>1. epoch' = epoch /\ failed' = failed
    BY <1>4 DEF AckArrives
  <2>2. acked' = acked \/ (acked' = a.id /\ a.id > acked)
    BY <1>4 DEF AckArrives, Acknowledge
  <2> QED BY <1>0, <2>1, <2>2
<1> QED BY <1>1, <1>2, <1>3, <1>4, ServerCases

LEMMA PrivateAckStep ==
    ASSUME IInv, Next
    PROVE  PrivateAckInv'
<1> USE DEF IInv
<1>0. SUFFICES ASSUME private, restarts' = 0
               PROVE  /\ \A a \in acks' : a.epoch = known' /\ a.id <= cur'
                      /\ acked' > 0 => known' = epoch' /\ acked' <= cur'
  <2>1. private' = private
    BY DEF Next
  <2> QED BY <2>1 DEF PrivateAckInv
<1>1. restarts = 0 /\ \A edited \in BOOLEAN : ~Restart(edited)
  BY <1>0, RestartsGrow
<1>2. /\ \A a \in acks : a.epoch = known /\ a.id <= cur
      /\ acked > 0 => known = epoch /\ acked <= cur
  BY <1>0, <1>1 DEF PrivateAckInv
<1>3. /\ acked \in Nat /\ cur \in Nat /\ known \in Nat /\ epoch \in Nat \ {0}
      /\ \A a \in acks : a.epoch \in Nat \ {0} /\ a.id \in Nat
  BY AckTypes, PumpFacts, ServerFacts
<1>4. \/ known' = known /\ cur' \in Nat /\ cur <= cur'
      \/ known = 0 /\ cur' = cur
  <2>1. CASE UNCHANGED <<known, cur>>
    BY <1>3, <2>1
  <2>2. CASE Push \/ Ensure
    <3>1. cur' = cur /\ (known' = known \/ known = 0)
      BY <2>2 DEF Push, Ensure, Adopted
    <3> QED BY <1>3, <3>1
  <2>3. CASE Adopt
    BY <1>0, <2>3, AdoptedFacts
  <2>4. CASE Receive
    <3>1. CASE Expected(wire[1])
      BY <1>3, <2>4, <3>1, AdmittedFacts
    <3>2. CASE ~Expected(wire[1])
      BY <2>1, <2>4, <3>2, ReceivedEvent DEF Refuse
    <3> QED BY <3>1, <3>2
  <2> QED BY <1>1, <2>1, <2>2, <2>3, <2>4, PumpCases
        DEF CheckStatus, PushFails, Open, AckFails, StreamEnds, Take, AckArrives, historyVars
<1>5. \A a \in acks' : a.epoch = known' /\ a.id <= cur'
  <2>1. CASE acks' \subseteq acks
    BY <1>2, <1>3, <1>4, <2>1
  <2>2. CASE Receive
    <3>1. CASE Expected(wire[1])
      <4>1. /\ acks' = acks \cup {[epoch |-> known, id |-> wire[1].id]} /\ known' = known
            /\ cur' = wire[1].id /\ wire[1].id \in Nat
        BY <2>2, <3>1, AdmittedFacts DEF Admit
      <4>2. cur <= cur' /\ cur' \in Nat
        BY <2>2, <3>1, <1>3, <4>1, AdmittedFacts
      <4> QED BY <1>2, <1>3, <4>1, <4>2
    <3>2. CASE ~Expected(wire[1])
      BY <1>0, <2>1, <2>2, <3>2, ReceivedEvent DEF Refuse
    <3> QED BY <3>1, <3>2
  <2> QED BY <1>1, <2>1, <2>2, PumpCases
        DEF CheckStatus, Push, Ensure, PushFails, Open, Adopt, AckFails, StreamEnds, Take, AckArrives
<1>6. acked' > 0 => known' = epoch' /\ acked' <= cur'
  <2>1. CASE UNCHANGED <<epoch, acked>>
    BY <1>2, <1>3, <1>4, <2>1
  <2>2. CASE Reset
    BY <2>2, ResetTypes
  <2>3. ASSUME NEW a \in acks, AckArrives(a)
        PROVE  acked' > 0 => known' = epoch' /\ acked' <= cur'
    <3>1. epoch' = epoch /\ (acked' = acked \/ (a.epoch = epoch /\ acked' = a.id))
      BY <2>3 DEF AckArrives, Acknowledge
    <3>2. known' = known /\ cur' = cur
      BY <2>3 DEF AckArrives
    <3> QED BY <1>2, <1>3, <3>1, <3>2
  <2> QED BY <2>1, <2>2, <2>3, ServerCases DEF Publish
<1> QED BY <1>5, <1>6

(***************************************************************************)
(* A private stream.                                                       *)
(***************************************************************************)
\* A reason to end the stream remains one.
CauseNext(n) ==
    known' # epoch' \/ failed' \/ <<epoch', n + 1>> \in lost' \/ (restarts' > 0 /\ n < acked')

LEMMA CauseStays ==
    ASSUME IInv, Next, NEW n \in Nat, Cause(n), known' = known
    PROVE  CauseNext(n)
<1> USE DEF IInv
<1>0. /\ known \in Nat /\ epoch \in Nat /\ known <= epoch /\ lost \subseteq lost' /\ acked \in Nat
      /\ restarts \in Nat /\ restarts' \in Nat /\ restarts <= restarts'
  BY PumpFacts, ServerFacts, HistoryCases, RestartsGrow, AckTypes DEF PositionInv
<1>1. CASE epoch' = epoch + 1
  BY <1>0, <1>1 DEF Cause, CauseNext
<1>2. CASE epoch' = epoch /\ (failed => failed') /\ acked' \in Nat /\ acked <= acked'
  <2>1. CASE known # epoch
    BY <1>2, <2>1 DEF Cause, CauseNext
  <2>2. CASE failed
    BY <1>2, <2>2 DEF Cause, CauseNext
  <2>3. CASE <<epoch, n + 1>> \in lost
    BY <1>0, <1>2, <2>3 DEF Cause, CauseNext
  <2>4. CASE restarts > 0 /\ n < acked
    <3>2. restarts' > 0 /\ n < acked'
      BY <1>0, <1>2, <2>4
    <3> QED BY <3>2 DEF Cause, CauseNext
  <2> QED BY <2>1, <2>2, <2>3, <2>4 DEF Cause, CauseNext
<1> QED BY <1>1, <1>2, ServerGrows

\* What is neither in the replay nor a reason to end the stream was acknowledged by an
\* earlier pump.
LEMMA UnavailableCause ==
    ASSUME IInv, private, live, Unavailable
    PROVE  Cause(cursor) /\ cursor \in Nat
<1> USE DEF IInv
<1>0. /\ serving = known /\ cursor = cur + Len(wire) /\ cur \in Nat /\ Len(wire) \in Nat
      /\ known \in Epochs \cup {0} /\ known # 0 /\ acked \in Nat /\ cursor \in Nat
      /\ DOMAIN wire = 1..Len(wire)
  BY PumpFacts, SequenceTypes, AckTypes DEF PrivateWireInv, PositionInv
<1>1. cursor <= published[known]
  <2>1. CASE Len(wire) = 0
    BY <1>0, <2>1 DEF PositionInv
  <2>2. CASE Len(wire) # 0
    <3>1. Len(wire) \in DOMAIN wire
      BY <1>0, <2>2
    <3> QED BY <1>0, <3>1 DEF PrivateWireInv
  <2> QED BY <2>1, <2>2
<1>2. published[epoch] \in Nat
  BY ServerFacts
<1>3. CASE serving # epoch \/ failed
  BY <1>0, <1>3 DEF Cause
<1>4. CASE serving = epoch /\ cursor > published[epoch]
  BY <1>0, <1>1, <1>2, <1>4
<1>5. ASSUME serving = epoch, cursor < acked PROVE Cause(cursor)
  <2>1. CASE restarts = 0
    <3>1. acked <= cur
      BY <1>0, <1>5, <2>1 DEF PrivateAckInv
    <3> QED BY <1>0, <1>5, <3>1
  <2>2. CASE restarts # 0
    <3>1. restarts \in Nat
      BY Bounds DEF Types, TypeOK
    <3>2. restarts > 0
      BY <2>2, <3>1
    <3> QED BY <1>5, <3>2 DEF Cause
  <2> QED BY <2>1, <2>2
<1>6. ASSUME serving = epoch, cursor < published[epoch],
             \A k \in DOMAIN replay : replay[k].id # cursor + 1
      PROVE  Cause(cursor)
  <2>1. cursor + 1 \in 1..published[epoch]
    BY <1>0, <1>2, <1>6
  <2>2. cursor + 1 <= acked \/ <<epoch, cursor + 1>> \in lost \/ failed
    BY <1>6, <2>1 DEF RetainedInv
  <2>3. cursor + 1 <= acked => cursor < acked
    BY <1>0
  <2> QED BY <1>5, <1>6, <2>2, <2>3 DEF Cause
<1> QED BY <1>0, <1>3, <1>4, <1>5, <1>6 DEF Unavailable

LEMMA PrivateWireStep ==
    ASSUME IInv, Next
    PROVE  PrivateWireInv'
<1> USE DEF IInv
<1> DEFINE Next1(k) == /\ wire'[k].epoch = known' /\ wire'[k].id = cur' + k
                       /\ wire'[k].kind \notin {"ready", "error"}
                       /\ wire'[k].id <= published'[known']
           Error1(k) == /\ wire'[k] = ContinuityError /\ k = Len(wire') /\ ~live'
                        /\ CauseNext(cur' + k - 1)
<1>0. SUFFICES ASSUME private
               PROVE  /\ \A k \in DOMAIN wire' : Error1(k) \/ Next1(k)
                      /\ live' => serving' = known' /\ cursor' = cur' + Len(wire')
  <2>1. private' = private
    BY DEF Next
  <2> QED BY <2>1 DEF PrivateWireInv, Cause, CauseNext
<1>1. /\ \A k \in DOMAIN wire :
            \/ wire[k] = ContinuityError /\ k = Len(wire) /\ ~live /\ Cause(cur + k - 1)
            \/ /\ wire[k].epoch = known /\ wire[k].id = cur + k
               /\ wire[k].kind \notin {"ready", "error"}
               /\ wire[k].id <= published[known]
      /\ live => serving = known /\ cursor = cur + Len(wire)
      /\ known = 0 => wire = <<>> /\ ~live
  BY <1>0 DEF PrivateWireInv, PositionInv
<1>2. /\ wire \in Seq(Message) /\ Len(wire) \in Nat /\ DOMAIN wire = 1..Len(wire)
      /\ known \in Epochs \cup {0} /\ cur \in Nat
      /\ \A e \in Epochs : /\ published[e] \in Nat /\ published'[e] \in Nat
                           /\ published[e] <= published'[e]
      /\ \A k \in DOMAIN wire : wire[k].id \in Nat
  BY SequenceTypes, PumpFacts, ServerEpoch, Messages
<1>3. ASSUME NEW k \in DOMAIN wire
      PROVE  known # 0 /\ known \in Epochs /\ cur + k - 1 \in Nat
  <2>1. wire # <<>>
    BY <1>2
  <2> QED BY <1>1, <1>2, <2>1
<1>4. ASSUME NEW k \in DOMAIN wire, wire[k].id <= published[known]
      PROVE  wire[k].id <= published'[known]
  BY <1>2, <1>3, <1>4
<1>5. ASSUME wire' = wire, live' = live, serving' = serving, cursor' = cursor,
             known' = known, cur' = cur
      PROVE  /\ \A k \in DOMAIN wire' : Error1(k) \/ Next1(k)
             /\ live' => serving' = known' /\ cursor' = cur' + Len(wire')
  <2>1. ASSUME NEW k \in DOMAIN wire PROVE Error1(k) \/ Next1(k)
    <3>1. CASE wire[k] = ContinuityError /\ k = Len(wire) /\ ~live /\ Cause(cur + k - 1)
      <4>1. CauseNext(cur + k - 1)
        BY <1>3, <1>5, <3>1, CauseStays
      <4> QED BY <1>5, <3>1, <4>1
    <3>2. CASE /\ wire[k].epoch = known /\ wire[k].id = cur + k
               /\ wire[k].kind \notin {"ready", "error"}
               /\ wire[k].id <= published[known]
      BY <1>4, <1>5, <3>2
    <3> QED BY <1>1, <3>1, <3>2
  <2> QED BY <1>1, <1>5, <2>1
<1>6. ASSUME wire' = <<>>, ~live'
      PROVE  /\ \A k \in DOMAIN wire' : Error1(k) \/ Next1(k)
             /\ live' => serving' = known' /\ cursor' = cur' + Len(wire')
  BY <1>6
<1>7. ASSUME Push \/ Ensure, wire' = wire, live' = live, serving' = serving, cursor' = cursor
      PROVE  /\ \A k \in DOMAIN wire' : Error1(k) \/ Next1(k)
             /\ live' => serving' = known' /\ cursor' = cur' + Len(wire')
  <2>1. cur' = cur /\ (known' = known \/ known = 0)
    BY <1>7 DEF Push, Ensure, Adopted
  <2> QED BY <1>1, <1>5, <1>6, <1>7, <2>1
<1>8. CASE SendPrivate
  <2>1. PICK j \in DOMAIN replay : replay[j].id = cursor + 1 /\ wire' = Append(wire, replay[j])
    BY <1>8 DEF SendPrivate
  <2>2. /\ live /\ live' = live /\ serving' = serving /\ cursor' = cursor + 1 /\ ~Unavailable
        /\ known' = known /\ cur' = cur /\ serving = epoch /\ epoch' = epoch
        /\ published' = published
    BY <1>8 DEF SendPrivate, serverVars, pumpVars, Unavailable
  <2>3. replay[j] \in Event /\ replay[j].epoch = epoch /\ replay[j].id <= published[epoch]
    BY <2>1, SequenceTypes DEF ReplayInv
  <2>4. replay[j] \in Message /\ replay[j].kind \notin {"ready", "error"}
    BY <2>3, Events DEF Message, Types
  <2>5. /\ DOMAIN wire' = 1..(Len(wire) + 1) /\ Len(wire') = Len(wire) + 1
        /\ \A k \in 1..Len(wire) : wire'[k] = wire[k]
        /\ wire'[Len(wire) + 1] = replay[j]
    BY <1>2, <2>1, <2>4, Appends
  <2>6. known = epoch /\ cursor = cur + Len(wire)
    BY <1>1, <2>2
  <2>7. Next1(Len(wire) + 1)
    BY <1>2, <2>1, <2>2, <2>3, <2>4, <2>5, <2>6
  <2>8. \A k \in 1..Len(wire) : Next1(k)
    BY <1>1, <1>2, <2>2, <2>5
  <2>9. cursor' = cur' + Len(wire')
    BY <1>2, <2>2, <2>5, <2>6
  <2> QED BY <1>1, <1>2, <2>2, <2>5, <2>7, <2>8, <2>9
<1>9. CASE SendError
  <2>1. /\ live /\ wire' = Append(wire, ContinuityError) /\ ~live' /\ Unavailable
        /\ known' = known /\ cur' = cur /\ published' = published
    BY <1>9 DEF SendError, serverVars, pumpVars
  <2>2. ContinuityError \in Message
    BY DEF Message
  <2>3. /\ DOMAIN wire' = 1..(Len(wire) + 1) /\ Len(wire') = Len(wire) + 1
        /\ \A k \in 1..Len(wire) : wire'[k] = wire[k]
        /\ wire'[Len(wire) + 1] = ContinuityError
    BY <1>2, <2>1, <2>2, Appends
  <2>4. Cause(cursor) /\ cursor = cur' + (Len(wire) + 1) - 1 /\ cursor \in Nat
    BY <1>0, <1>1, <1>2, <2>1, UnavailableCause
  <2>5. CauseNext(cur' + (Len(wire) + 1) - 1)
    <3>1. CauseNext(cursor)
      BY <2>1, <2>4, CauseStays
    <3> QED BY <2>4, <3>1
  <2>6. Error1(Len(wire) + 1)
    BY <2>1, <2>3, <2>5
  <2>7. \A k \in 1..Len(wire) : Next1(k)
    BY <1>1, <1>2, <2>1, <2>3
  <2> QED BY <1>2, <2>1, <2>3, <2>6, <2>7
<1>10. CASE Open
  <2>1. CASE UNCHANGED connVars
    BY <1>5, <1>10, <2>1 DEF Open, connVars
  <2>2. CASE /\ known = epoch /\ wire' = <<>> /\ serving' = epoch /\ cursor' = cur
             /\ known' = known /\ cur' = cur
    <3>1. Len(wire') = 0 /\ DOMAIN wire' = {}
      BY <2>2
    <3> QED BY <1>2, <2>2, <3>1
  <2> QED BY <1>0, <1>10, <2>1, <2>2 DEF Open
<1>11. CASE ReadOnly
  <2>1. Receive
    BY <1>0, <1>11, AdoptedFacts DEF ReadOnly
  <2>2. /\ wire # <<>> /\ wire' = Tail(wire) /\ UNCHANGED <<live, serving, cursor>>
        /\ known' = known
        /\ 1 \in DOMAIN wire
    BY <1>2, <1>11, <2>1, ReceivedEvent DEF ReadOnly, Read
  <2>3. /\ Len(wire') = Len(wire) - 1 /\ DOMAIN wire' = 1..(Len(wire) - 1)
        /\ \A k \in 1..(Len(wire) - 1) : wire'[k] = wire[k + 1]
    BY <1>2, <2>2, Tails
  <2>4. CASE Expected(wire[1])
    <3>1. cur' = cur + 1
      BY <1>0, <2>1, <2>4, AdmittedFacts
    <3>2. ASSUME NEW k \in DOMAIN wire' PROVE Error1(k) \/ Next1(k)
      <4>0. k \in 1..(Len(wire) - 1) /\ k \in Nat
        BY <1>2, <2>3
      <4>1. k + 1 \in DOMAIN wire /\ wire'[k] = wire[k + 1] /\ cur + (k + 1) = cur' + k
            /\ cur + (k + 1) - 1 = cur' + k - 1 /\ k \in Nat
        <5>1. k + 1 \in 1..Len(wire)
          BY <1>2, <4>0
        <5>2. cur + (k + 1) = cur' + k /\ cur + (k + 1) - 1 = cur' + k - 1
          <6>1. cur \in Nat
            BY <1>2
          <6>2. \A c, n \in Nat : c + (n + 1) = c + 1 + n /\ c + (n + 1) - 1 = c + 1 + n - 1
            OBVIOUS
          <6> QED BY <3>1, <4>0, <6>1, <6>2
        <5> QED BY <1>2, <2>3, <4>0, <5>1, <5>2
      <4>2. CASE /\ wire[k + 1] = ContinuityError /\ k + 1 = Len(wire) /\ ~live
                 /\ Cause(cur + (k + 1) - 1)
        <5>1. CauseNext(cur' + k - 1)
          BY <1>3, <2>2, <4>1, <4>2, CauseStays
        <5>2. k = Len(wire')
          BY <1>2, <2>3, <4>1, <4>2
        <5> QED BY <2>2, <4>1, <4>2, <5>1, <5>2
      <4>3. CASE /\ wire[k + 1].epoch = known /\ wire[k + 1].id = cur + (k + 1)
                 /\ wire[k + 1].kind \notin {"ready", "error"}
                 /\ wire[k + 1].id <= published[known]
        BY <1>4, <2>2, <4>1, <4>3
      <4> QED BY <1>1, <4>1, <4>2, <4>3
    <3>3. live' => serving' = known' /\ cursor' = cur' + Len(wire')
      BY <1>1, <1>2, <2>2, <2>3, <3>1
    <3> QED BY <3>2, <3>3
  <2>5. CASE ~Expected(wire[1])
    <3>1. wire[1] = ContinuityError /\ 1 = Len(wire) /\ ~live
      BY <1>0, <1>1, <2>2, <2>5 DEF Expected
    <3>2. DOMAIN wire' = {} /\ ~live'
      <4>1. Len(wire) - 1 = 0
        BY <3>1
      <4>2. 1..0 = {} /\ live' = live
        BY <2>2
      <4> QED BY <2>3, <3>1, <4>1, <4>2, Zenon
    <3> QED BY <3>2
  <2> QED BY <2>4, <2>5
<1>12. CASE Broken
  <2>1. PICK n \in 0..Len(wire) : wire' = SubSeq(wire, 1, n)
    BY <1>12 DEF Broken, Cut
  <2>2. /\ Len(wire') = n /\ DOMAIN wire' = 1..n /\ \A k \in 1..n : wire'[k] = wire[k]
        /\ ~live' /\ known' = known /\ cur' = cur
    BY <1>2, <1>12, <2>1, Prefixes DEF Broken, pumpVars
  <2>3. ASSUME NEW k \in DOMAIN wire' PROVE Error1(k) \/ Next1(k)
    <3>1. k \in DOMAIN wire /\ wire'[k] = wire[k] /\ k <= n /\ n <= Len(wire)
      BY <1>2, <2>1, <2>2
    <3>2. CASE wire[k] = ContinuityError /\ k = Len(wire) /\ ~live /\ Cause(cur + k - 1)
      <4>1. CauseNext(cur + k - 1)
        BY <1>3, <2>2, <3>1, <3>2, CauseStays
      <4>2. k = Len(wire')
        <5>1. n \in Nat /\ Len(wire) \in Nat
          BY <1>2, <2>1
        <5>2. k = n
          BY <3>1, <3>2, <5>1
        <5> QED BY <2>2, <5>2
      <4> QED BY <2>2, <3>1, <3>2, <4>1, <4>2
    <3>3. CASE /\ wire[k].epoch = known /\ wire[k].id = cur + k
               /\ wire[k].kind \notin {"ready", "error"}
               /\ wire[k].id <= published[known]
      BY <1>4, <2>2, <3>1, <3>3
    <3> QED BY <1>1, <3>1, <3>2, <3>3
  <2> QED BY <2>2, <2>3
<1>13. CASE Disconnect
  BY <1>6, <1>13 DEF Disconnect
<1>14. ASSUME NEW kind \in Kinds[private], Publish(kind)
       PROVE  /\ \A k \in DOMAIN wire' : Error1(k) \/ Next1(k)
              /\ live' => serving' = known' /\ cursor' = cur' + Len(wire')
  BY <1>5, <1>14 DEF Publish, pumpVars
<1>15. CASE UNCHANGED connVars /\ (UNCHANGED <<known, cur>> \/ Push \/ Ensure)
  BY <1>5, <1>7, <1>15 DEF connVars
<1>16. CASE Woken
  BY <1>5, <1>7, <1>16 DEF Woken
<1> HIDE DEF Next1, Error1
<1> QED BY <1>0, <1>8, <1>9, <1>10, <1>11, <1>12, <1>13, <1>14, <1>15, <1>16, ConnCases
      DEF Announce, SendPublic

LEMMA CauseStep ==
    ASSUME IInv, Next
    PROVE  SuspendedForCause'
<1> USE DEF IInv
<1>0. /\ cur \in Nat /\ known \in Nat /\ (pump = "suspended" => Cause(cur)) /\ epoch \in Nat
  BY PumpFacts, ServerFacts DEF SuspendedForCause, Cause
<1>1. SUFFICES ASSUME pump' = "suspended" PROVE Cause(cur)'
  BY DEF SuspendedForCause, Cause
<1>2. CASE UNCHANGED <<pump, known, cur>>
  BY <1>0, <1>1, <1>2, CauseStays DEF Cause, CauseNext
<1>3. CASE known' # epoch'
  BY <1>3 DEF Cause
<1>4. CASE CheckStatus
  BY <1>1, <1>3, <1>4 DEF CheckStatus, serverVars
<1>5. CASE Push \/ Ensure
  BY <1>1, <1>3, <1>5 DEF Push, Ensure, Adopted
<1>6. CASE Open
  BY <1>1, <1>3, <1>6 DEF Open, serverVars
<1>7. CASE Adopt
  BY <1>1, <1>7, AdoptedFacts DEF Adopt, Read
<1>8. CASE Receive
  <2>1. ~Expected(wire[1])
    BY <1>1, <1>8, AdmittedFacts DEF Admit
  <2>2. /\ private /\ cur' = cur /\ known' = known
    BY <1>1, <1>8, <2>1, ReceivedEvent DEF Refuse, Receive, Read
  <2>3. 1 \in DOMAIN wire
    BY <1>8, ReceivedEvent, SequenceTypes, EmptySeq
  <2>4. wire[1] = ContinuityError /\ Cause(cur + 1 - 1)
    BY <2>1, <2>2, <2>3 DEF PrivateWireInv, Expected
  <2>5. cur + 1 - 1 = cur
    BY <1>0
  <2> QED BY <1>0, <2>2, <2>4, <2>5, CauseStays DEF Cause, CauseNext
<1>9. ASSUME NEW a \in acks, AckArrives(a) PROVE Cause(cur)'
  <2>1. CASE pump' = pump
    BY <1>2, <1>9, <2>1 DEF AckArrives
  <2>2. CASE a.epoch = known /\ a.epoch # epoch
    BY <1>3, <1>9, <2>2 DEF AckArrives
  <2>3. a = [epoch |-> known, id |-> cur] => a.epoch = known
    OBVIOUS
  <2> QED BY <1>1, <1>9, <2>1, <2>2, <2>3 DEF AckArrives, Awaited
<1> QED BY <1>1, <1>2, <1>4, <1>5, <1>6, <1>7, <1>8, <1>9, PumpCases
      DEF PushFails, AckFails, StreamEnds, Take, Restart

(***************************************************************************)
(* A public stream.                                                        *)
(***************************************************************************)
\* The epoch after a message sequence is one of the server's.
LEMMA LastTag ==
    ASSUME Types, PositionInv, NEW w \in Seq(Message), Proper(w)
    PROVE  Tag(w, Len(w) + 1) \in Nat /\ Tag(w, Len(w) + 1) <= epoch
<1>1. Len(w) \in Nat /\ DOMAIN w = 1..Len(w)
  BY LenProperties
<1>2. CASE Len(w) = 0
  BY <1>1, <1>2, PumpFacts DEF Tag, PositionInv
<1>3. CASE Len(w) # 0
  <2>1. Len(w) \in DOMAIN w /\ Len(w) + 1 # 1 /\ Len(w) + 1 - 1 = Len(w)
    BY <1>1, <1>3
  <2>2. w[Len(w)] \in Message
    BY <1>1, <2>1, ElementOfSeq
  <2>3. w[Len(w)].epoch \in Nat
    BY <2>2, Messages DEF Types
  <2> QED BY <2>1, <2>3 DEF Tag, Proper
<1> QED BY <1>2, <1>3

\* A message is sent: the epoch, or the next event of it.
LEMMA AppendProper ==
    ASSUME Types, PositionInv, NEW w \in Seq(Message), Proper(w), NEW x \in Message,
           x.kind # "error", Tag(w, Len(w) + 1) <= x.epoch, x.epoch <= epoch,
           x.kind # "ready" => /\ x.epoch = Tag(w, Len(w) + 1)
                               /\ x.id <= published[x.epoch],
           \A i \in 1..(x.id - 1) : <<x.epoch, i>> \in Settled \cup Names(w)
    PROVE  Proper(Append(w, x)) /\ Tag(Append(w, x), Len(Append(w, x)) + 1) = x.epoch
<1> DEFINE t == Append(w, x)
<1>1. /\ Len(w) \in Nat /\ DOMAIN w = 1..Len(w) /\ DOMAIN t = 1..(Len(w) + 1)
      /\ \A k \in 1..Len(w) : t[k] = w[k]
      /\ t[Len(w) + 1] = x /\ Len(t) = Len(w) + 1
  BY Appends
<1>2. \A e \in Epochs : Complete(e, t, Settled)
  BY CompleteAppend DEF Proper
<1> HIDE DEF t
<1>3. \A k \in 1..(Len(w) + 1) : Tag(t, k) = Tag(w, k)
  <2> SUFFICES ASSUME NEW k \in 1..(Len(w) + 1) PROVE Tag(t, k) = Tag(w, k)
    OBVIOUS
  <2>1. k = 1 \/ k - 1 \in 1..Len(w)
    BY <1>1
  <2> QED BY <1>1, <2>1 DEF Tag
<1>4. ASSUME NEW k \in DOMAIN t
      PROVE  /\ t[k].kind # "error"
             /\ Tag(t, k) <= t[k].epoch /\ t[k].epoch <= epoch
             /\ t[k].kind # "ready" =>
                   t[k].epoch = Tag(t, k) /\ t[k].id <= published[t[k].epoch]
  <2>1. CASE k \in 1..Len(w)
    <3>1. t[k] = w[k] /\ Tag(t, k) = Tag(w, k) /\ k \in DOMAIN w
      BY <1>1, <1>3, <2>1
    <3> QED BY <3>1 DEF Proper
  <2>2. CASE k = Len(w) + 1
    BY <1>1, <1>3, <1>4, <2>2
  <2> QED BY <1>1, <2>1, <2>2
<1>5. Tag(t, Len(t) + 1) = x.epoch
  <2>1. Len(t) + 1 # 1 /\ Len(t) + 1 - 1 = Len(w) + 1
    BY <1>1
  <2> QED BY <1>1, <2>1 DEF Tag
<1> QED BY <1>2, <1>4, <1>5 DEF Proper, t

\* What is sent of an event of the snapshot or of the queue.
LEMMA SentProper ==
    ASSUME IInv, ~private, live, serving # 0, NEW x \in Event \cup {Mark},
           x.epoch = epoch => x.id <= published[epoch],
           x.epoch = epoch => \A i \in 1..(x.id - 1) : <<epoch, i>> \in Settled \cup Names(wire)
    PROVE  /\ wire \o Sent(x) \in Seq(Message)
           /\ Proper(wire \o Sent(x))
           /\ Tag(wire \o Sent(x), Len(wire \o Sent(x)) + 1) = epoch
           /\ Names(wire) \subseteq Names(wire \o Sent(x))
           /\ x.epoch = epoch => Name(x) \in Names(wire \o Sent(x))
<1> USE DEF IInv
<1> DEFINE w1 == IF serving # epoch THEN Append(wire, Ready(epoch)) ELSE wire
           w2 == IF x.epoch = epoch THEN Append(w1, x) ELSE w1
<1>0. /\ wire \in Seq(Message) /\ epoch \in Epochs /\ epoch \in Nat \ {0}
      /\ Ready(epoch) \in Message /\ Proper(wire) /\ serving = Tag(wire, Len(wire) + 1)
  BY SequenceTypes, ServerFacts DEF Message, PublicWireInv
<1>1. x.epoch = epoch => x \in Event /\ x \in Message /\ x.kind \notin {"ready", "error"}
  BY <1>0, Marks, Events DEF Message, Types
<1>2. w1 \in Seq(Message) /\ Proper(w1) /\ Tag(w1, Len(w1) + 1) = epoch
      /\ Names(wire) \subseteq Names(w1)
  <2>1. CASE serving # epoch
    <3>1. Tag(wire, Len(wire) + 1) <= epoch
      BY <1>0, LastTag
    <3>2. \A i \in 1..(Ready(epoch).id - 1) : <<epoch, i>> \in Settled \cup Names(wire)
      BY Marks
    <3>3. /\ Proper(Append(wire, Ready(epoch)))
          /\ Tag(Append(wire, Ready(epoch)), Len(Append(wire, Ready(epoch))) + 1) = epoch
      BY <1>0, <3>1, <3>2, Marks, AppendProper
    <3>4. Append(wire, Ready(epoch)) \in Seq(Message)
      BY <1>0, Appends
    <3>5. Names(wire) \subseteq Names(Append(wire, Ready(epoch)))
      BY <1>0, NamesOfAppend
    <3> QED BY <2>1, <3>3, <3>4, <3>5
  <2>2. CASE serving = epoch
    BY <1>0, <2>2
  <2> QED BY <2>1, <2>2
<1>3. wire \o Sent(x) = w2
  <2> DEFINE a == IF serving # epoch THEN <<Ready(epoch)>> ELSE <<>>
             b == IF x.epoch = epoch THEN <<x>> ELSE <<>>
  <2>1. a \in Seq(Message) /\ b \in Seq(Message)
    BY <1>0, <1>1
  <2>2. wire \o Sent(x) = (wire \o a) \o b
    <3>1. Sent(x) = a \o b
      BY DEF Sent
    <3> HIDE DEF a, b
    <3> QED BY <1>0, <2>1, <3>1, ConcatAssociative
  <2>3. wire \o a = w1
    BY <1>0, AppendIsConcat, ConcatEmptySeq
  <2>4. w1 \o b = w2
    <3>1. CASE x.epoch = epoch
      <4>1. x \in Message /\ b = <<x>> /\ w2 = Append(w1, x)
        BY <1>1, <3>1
      <4> HIDE DEF w1, w2, b
      <4> QED BY <1>2, <4>1, AppendIsConcat
    <3>2. CASE x.epoch # epoch
      <4>1. b = <<>> /\ w2 = w1
        BY <3>2
      <4> HIDE DEF w1, w2, b
      <4> QED BY <1>2, <4>1, ConcatEmptySeq
    <3> QED BY <3>1, <3>2
  <2> QED BY <2>2, <2>3, <2>4
<1> HIDE DEF w1
<1>4. CASE x.epoch = epoch
  <2>1. x \in Message /\ x.kind \notin {"ready", "error"}
    BY <1>1, <1>4
  <2>2. Tag(w1, Len(w1) + 1) <= x.epoch /\ x.epoch <= epoch /\ x.id <= published[x.epoch]
    BY <1>0, <1>2, <1>4
  <2>3. \A i \in 1..(x.id - 1) : <<x.epoch, i>> \in Settled \cup Names(w1)
    BY <1>2, <1>4
  <2>4. Proper(Append(w1, x)) /\ Tag(Append(w1, x), Len(Append(w1, x)) + 1) = epoch
    BY <1>2, <1>4, <2>1, <2>2, <2>3, AppendProper
  <2>5. Append(w1, x) \in Seq(Message) /\ Names(Append(w1, x)) = Names(w1) \cup {Name(x)}
    BY <1>2, <2>1, Appends, NamesOfAppend
  <2>6. w2 = Append(w1, x)
    BY <1>4
  <2> HIDE DEF w2
  <2> QED BY <1>2, <1>3, <1>4, <2>4, <2>5, <2>6
<1>5. CASE x.epoch # epoch
  <2>1. w2 = w1
    BY <1>5
  <2> HIDE DEF w2
  <2> QED BY <1>2, <1>3, <1>5, <2>1
<1> QED BY <1>4, <1>5

\* The same of the next state.
TagNext(messages, k) == IF k = 1 THEN known' ELSE messages[k - 1].epoch
ProperNext(messages) ==
    /\ \A k \in DOMAIN messages :
          /\ messages[k].kind # "error"
          /\ TagNext(messages, k) <= messages[k].epoch /\ messages[k].epoch <= epoch'
          /\ messages[k].kind # "ready" =>
                /\ messages[k].epoch = TagNext(messages, k)
                /\ messages[k].id <= published'[messages[k].epoch]
    /\ \A e \in Epochs : Complete(e, messages, Settled')

LEMMA ProperNextFact == Proper(wire)' <=> ProperNext(wire')
BY DEF Proper, ProperNext, Tag, TagNext

\* Messages under way stay proper while the pump does not move.
LEMMA ProperStays ==
    ASSUME Types, Next, NEW w \in Seq(Message), Proper(w), known' = known
    PROVE  ProperNext(w) /\ \A k : TagNext(w, k) = Tag(w, k)
<1>1. /\ epoch \in Nat /\ epoch' \in Nat /\ epoch <= epoch' /\ Epochs \subseteq Nat
      /\ \A e \in Epochs : /\ published[e] \in Nat /\ published'[e] \in Nat
                           /\ published[e] <= published'[e]
      /\ Settled \subseteq Settled'
  BY ServerEpoch, ServerFacts, SettledGrows
<1>2. \A k : TagNext(w, k) = Tag(w, k)
  BY DEF Tag, TagNext
<1>3. \A e \in Epochs : Complete(e, w, Settled')
  BY <1>1, CompleteGrows DEF Proper
<1>4. ASSUME NEW k \in DOMAIN w
      PROVE  /\ w[k].kind # "error"
             /\ TagNext(w, k) <= w[k].epoch /\ w[k].epoch <= epoch'
             /\ w[k].kind # "ready" =>
                   w[k].epoch = TagNext(w, k) /\ w[k].id <= published'[w[k].epoch]
  <2>1. /\ w[k].kind # "error" /\ Tag(w, k) <= w[k].epoch /\ w[k].epoch <= epoch
        /\ w[k].kind # "ready" => w[k].epoch = Tag(w, k) /\ w[k].id <= published[w[k].epoch]
    BY DEF Proper
  <2>2. w[k] \in Message
    BY LenProperties, ElementOfSeq
  <2>3. w[k].epoch \in Nat /\ w[k].id \in Nat
    BY <2>2, Messages DEF Types
  <2>4. w[k].epoch <= epoch'
    BY <1>1, <2>1, <2>3
  <2>5. ASSUME w[k].kind # "ready"
        PROVE  w[k].id <= published'[w[k].epoch]
    <3>1. w[k] \in Event
      BY <2>1, <2>2, <2>5, Messages DEF Types
    <3>2. w[k].epoch \in Epochs
      BY <3>1, Events DEF Types
    <3> QED BY <1>1, <2>1, <2>3, <2>5, <3>2
  <2> QED BY <1>2, <2>1, <2>4, <2>5
<1> QED BY <1>2, <1>3, <1>4 DEF ProperNext

\* A message is read: the pump knows its epoch, and what it was is settled.
LEMMA ProperTail ==
    ASSUME IInv, Next, ~private, wire # <<>>, known' = wire[1].epoch,
           wire[1].id \in Nat \ {0} => Name(wire[1]) \in Settled',
           UNCHANGED serverVars
    PROVE  /\ ProperNext(Tail(wire))
           /\ TagNext(Tail(wire), Len(Tail(wire)) + 1) = Tag(wire, Len(wire) + 1)
<1> USE DEF IInv
<1> DEFINE t == Tail(wire)
<1>0. /\ wire \in Seq(Message) /\ Proper(wire)
  BY SequenceTypes DEF PublicWireInv
<1>1. /\ Len(wire) \in Nat \ {0} /\ DOMAIN wire = 1..Len(wire) /\ Head(wire) = wire[1]
      /\ Len(t) = Len(wire) - 1 /\ DOMAIN t = 1..(Len(wire) - 1)
      /\ \A k \in 1..(Len(wire) - 1) : t[k] = wire[k + 1]
  BY <1>0, Tails
<1>2. ASSUME NEW e \in Epochs PROVE Complete(e, t, Settled')
  <2>1. Complete(e, wire, Settled) /\ Settled \subseteq Settled'
    BY <1>0, SettledGrows DEF Proper
  <2> QED BY <1>0, <1>1, <2>1, CompleteTail
<1> HIDE DEF t
<1>3. ASSUME NEW k \in 1..Len(wire) PROVE TagNext(t, k) = Tag(wire, k + 1)
  <2>1. CASE k = 1
    BY <2>1 DEF Tag, TagNext
  <2>2. CASE k # 1
    <3>1. k - 1 \in 1..(Len(wire) - 1) /\ k - 1 + 1 = k /\ k + 1 # 1 /\ k + 1 - 1 = k
      BY <1>1, <2>2
    <3> QED BY <1>1, <2>2, <3>1 DEF Tag, TagNext
  <2> QED BY <2>1, <2>2
<1>4. ASSUME NEW k \in DOMAIN t
      PROVE  /\ t[k].kind # "error"
             /\ TagNext(t, k) <= t[k].epoch /\ t[k].epoch <= epoch'
             /\ t[k].kind # "ready" =>
                   t[k].epoch = TagNext(t, k) /\ t[k].id <= published'[t[k].epoch]
  <2>1. k \in 1..Len(wire) /\ k + 1 \in DOMAIN wire /\ t[k] = wire[k + 1]
    BY <1>1
  <2>2. TagNext(t, k) = Tag(wire, k + 1)
    BY <1>3, <2>1
  <2> QED BY <1>0, <2>1, <2>2 DEF Proper, serverVars
<1>5. TagNext(t, Len(t) + 1) = Tag(wire, Len(wire) + 1)
  <2>1. Len(t) + 1 = Len(wire) /\ Len(wire) \in 1..Len(wire)
    BY <1>1
  <2> QED BY <1>3, <2>1
<1> QED BY <1>2, <1>4, <1>5 DEF ProperNext, t

\* What is read was settled or is now.
LEMMA ReadSettles ==
    ASSUME IInv, Next, ~private, ReadOnly
    PROVE  /\ wire # <<>> /\ wire' = Tail(wire) /\ known' = wire[1].epoch
           /\ wire[1].id \in Nat \ {0} => Name(wire[1]) \in Settled'
           /\ UNCHANGED serverVars
<1> USE DEF IInv
<1>1. wire # <<>> /\ wire' = Tail(wire) /\ UNCHANGED serverVars
  BY DEF ReadOnly, Read, Adopt, Receive
<1>2. wire \in Seq(Message) /\ wire[1] \in Message /\ 1 \in DOMAIN wire
  BY <1>1, SequenceTypes, Tails
<1>3. CASE Adopt
  BY <1>1, <1>3, AdoptedFacts
<1>4. CASE Receive
  <2>1. wire[1].epoch = known /\ known' = known /\ wire[1] \in Event
    <3>1. wire[1].kind \notin {"ready", "error"}
      BY <1>2, <1>4, ReceivedEvent DEF PublicWireInv, Proper
    <3> QED BY <1>2, <1>4, <3>1, ReceivedEvent, Messages DEF PublicWireInv, Proper, Tag, Types
  <2>2. CASE Expected(wire[1])
    <3>1. Name(wire[1]) \in admitted'
      BY <1>4, <2>2, AdmittedFacts DEF Admit
    <3> QED BY <1>1, <2>1, <3>1 DEF Settled
  <2>3. CASE ~Expected(wire[1])
    <3>1. wire[1].id \in Nat \ {0} /\ cur \in Nat /\ Settled \subseteq Settled'
      BY <2>1, Events, PumpFacts, SettledGrows DEF Types
    <3>2. wire[1].id \in 1..cur
      BY <2>1, <2>3, <3>1 DEF Expected
    <3>3. Name(wire[1]) = <<known, wire[1].id>>
      BY <2>1 DEF Name
    <3> QED BY <1>1, <2>1, <3>1, <3>2, <3>3 DEF SettledInv
  <2> QED BY <2>2, <2>3
<1> QED BY <1>3, <1>4 DEF ReadOnly

LEMMA PrefixProper ==
    ASSUME Types, NEW w \in Seq(Message), Proper(w), NEW n \in 0..Len(w)
    PROVE  SubSeq(w, 1, n) \in Seq(Message) /\ Proper(SubSeq(w, 1, n))
<1> DEFINE t == SubSeq(w, 1, n)
<1>1. /\ t \in Seq(Message) /\ DOMAIN t = 1..n /\ \A k \in 1..n : t[k] = w[k]
      /\ Len(w) \in Nat /\ DOMAIN w = 1..Len(w)
  BY Prefixes, LenProperties
<1>2. \A e \in Epochs : Complete(e, t, Settled)
  BY CompletePrefix DEF Proper
<1> HIDE DEF t
<1>3. ASSUME NEW k \in DOMAIN t PROVE k \in DOMAIN w /\ t[k] = w[k] /\ Tag(t, k) = Tag(w, k)
  <2>1. k = 1 \/ k - 1 \in 1..n
    BY <1>1
  <2> QED BY <1>1, <2>1 DEF Tag
<1>4. \A k \in DOMAIN t :
          /\ t[k].kind # "error"
          /\ Tag(t, k) <= t[k].epoch /\ t[k].epoch <= epoch
          /\ t[k].kind # "ready" =>
                t[k].epoch = Tag(t, k) /\ t[k].id <= published[t[k].epoch]
  BY <1>3 DEF Proper
<1>5. Proper(t)
  BY <1>2, <1>4 DEF Proper
<1> QED BY <1>1, <1>5 DEF t

\* The messages of a public stream that has more to send.
LEMMA SendPublicFacts ==
    ASSUME IInv, SendPublic
    PROVE  \E x \in Event \cup {Mark} :
              /\ wire' = wire \o Sent(x)
              /\ x.epoch = epoch => x.id <= published[epoch]
              /\ x.epoch = epoch =>
                    \A i \in 1..(x.id - 1) : <<epoch, i>> \in Settled \cup Names(wire)
<1> USE DEF IInv
<1>0. ~private /\ live /\ PublicQueueInv
  BY DEF SendPublic
<1>1. CASE snapshot # <<>> /\ wire' = wire \o Sent(Head(snapshot))
  <2>1. /\ Head(snapshot) = snapshot[1] /\ snapshot[1] \in Event /\ 1 \in DOMAIN snapshot
    BY <1>1, SequenceTypes, Tails
  <2>2. snapshot[1].epoch = epoch => snapshot[1].id <= published[epoch]
    BY <1>0, <2>1 DEF PublicQueueInv
  <2>3. ASSUME snapshot[1].epoch = epoch, NEW i \in 1..(snapshot[1].id - 1)
        PROVE  <<epoch, i>> \in Settled \cup Names(wire)
    BY <1>0, <2>1, <2>3 DEF PublicQueueInv, Complete
  <2> QED BY <1>1, <2>1, <2>2, <2>3
<1>2. CASE snapshot = <<>> /\ queue # <<>> /\ wire' = wire \o Sent(Head(queue))
  <2>1. /\ Head(queue) = queue[1] /\ queue[1] \in Event \cup {Mark} /\ 1 \in DOMAIN queue
    BY <1>2, SequenceTypes, Tails
  <2>2. queue[1].epoch = epoch => queue[1].id <= published[epoch]
    BY <1>0, <2>1, Marks, ServerFacts DEF PublicQueueInv
  <2>3. ASSUME queue[1].epoch = epoch, NEW i \in 1..(queue[1].id - 1)
        PROVE  <<epoch, i>> \in Settled \cup Names(wire)
    <3>1. <<epoch, i>> \in Settled \cup Names(wire) \cup Names(snapshot)
      BY <1>0, <2>1, <2>3 DEF PublicQueueInv, Complete
    <3> QED BY <1>2, <3>1, NamesOfEmpty
  <2> QED BY <1>2, <2>1, <2>2, <2>3
<1> QED BY <1>1, <1>2 DEF SendPublic

LEMMA PublicWireStep ==
    ASSUME IInv, Next
    PROVE  PublicWireInv'
<1> USE DEF IInv
<1> DEFINE G == /\ ProperNext(wire')
                /\ live' /\ serving' # 0 => serving' = TagNext(wire', Len(wire') + 1)
<1>0. SUFFICES ASSUME ~private PROVE G
  <2>1. private' = private
    BY DEF Next
  <2>2. TagNext(wire', Len(wire') + 1) = Tag(wire, Len(wire) + 1)'
    BY DEF Tag, TagNext
  <2> QED BY <2>1, <2>2, ProperNextFact DEF PublicWireInv
<1>1. /\ wire \in Seq(Message) /\ Proper(wire) /\ epoch \in Epochs /\ epoch \in Nat \ {0}
      /\ live /\ serving # 0 => serving = Tag(wire, Len(wire) + 1)
  BY <1>0, SequenceTypes, ServerFacts DEF PublicWireInv
<1>2. Push \/ Ensure => UNCHANGED <<known, cur>>
  BY <1>0 DEF Push, Ensure, Adopted
<1>3. ASSUME wire' = wire, live' = live, serving' = serving, known' = known
      PROVE  G
  <2>1. ProperNext(wire) /\ \A k : TagNext(wire, k) = Tag(wire, k)
    BY <1>1, <1>3, ProperStays
  <2> QED BY <1>1, <1>3, <2>1
<1>4. ASSUME wire' = <<>>, ~live' \/ serving' = 0
      PROVE  G
  BY <1>4, CompleteEmpty DEF ProperNext
<1>5. CASE Announce
  <2>1. /\ wire' = Append(wire, Ready(epoch)) /\ serving' = epoch /\ known' = known
    BY <1>5 DEF Announce, pumpVars
  <2>2. Ready(epoch) \in Message
    BY <1>1 DEF Message
  <2>3. Tag(wire, Len(wire) + 1) <= epoch
    BY <1>1, LastTag
  <2>4. \A i \in 1..(Ready(epoch).id - 1) : <<epoch, i>> \in Settled \cup Names(wire)
    BY Marks
  <2>5. Proper(wire') /\ Tag(wire', Len(wire') + 1) = epoch
    BY <1>1, <2>1, <2>2, <2>3, <2>4, Marks, AppendProper
  <2>6. wire' \in Seq(Message)
    BY <1>1, <2>1, <2>2, Appends
  <2>7. ProperNext(wire') /\ \A k : TagNext(wire', k) = Tag(wire', k)
    BY <2>1, <2>5, <2>6, ProperStays
  <2> QED BY <2>1, <2>5, <2>7
<1>6. CASE SendPublic
  <2>1. PICK x \in Event \cup {Mark} :
              /\ wire' = wire \o Sent(x)
              /\ x.epoch = epoch => x.id <= published[epoch]
              /\ x.epoch = epoch =>
                    \A i \in 1..(x.id - 1) : <<epoch, i>> \in Settled \cup Names(wire)
    BY <1>6, SendPublicFacts
  <2>2. live /\ serving # 0 /\ serving' = epoch /\ known' = known
    BY <1>6 DEF SendPublic, pumpVars
  <2>3. wire' \in Seq(Message) /\ Proper(wire') /\ Tag(wire', Len(wire') + 1) = epoch
    BY <1>0, <2>1, <2>2, SentProper
  <2>4. ProperNext(wire') /\ \A k : TagNext(wire', k) = Tag(wire', k)
    BY <2>2, <2>3, ProperStays
  <2> QED BY <2>2, <2>3, <2>4
<1>7. CASE Open
  <2>1. wire' = <<>> /\ serving' = 0
    BY <1>0, <1>7 DEF Open
  <2> QED BY <1>4, <2>1
<1>8. CASE ReadOnly
  <2>1. /\ ProperNext(wire') /\ TagNext(wire', Len(wire') + 1) = Tag(wire, Len(wire) + 1)
    BY <1>0, <1>8, ReadSettles, ProperTail
  <2> QED BY <1>1, <1>8, <2>1 DEF ReadOnly
<1>9. CASE Broken
  <2>1. PICK n \in 0..Len(wire) : wire' = SubSeq(wire, 1, n)
    BY <1>9 DEF Broken, Cut
  <2>2. wire' \in Seq(Message) /\ Proper(wire')
    BY <1>1, <2>1, PrefixProper
  <2>3. ProperNext(wire')
    BY <1>9, <2>2, ProperStays DEF Broken, pumpVars
  <2> QED BY <1>9, <2>3 DEF Broken
<1>10. CASE Disconnect
  BY <1>4, <1>10 DEF Disconnect
<1>11. ASSUME NEW kind \in Kinds[private], Publish(kind)
       PROVE  G
  BY <1>3, <1>11 DEF Publish, pumpVars
<1>12. CASE UNCHANGED connVars /\ (UNCHANGED <<known, cur>> \/ Push \/ Ensure)
  BY <1>2, <1>3, <1>12 DEF connVars
<1>13. CASE Woken
  BY <1>2, <1>3, <1>13 DEF Woken
<1> HIDE DEF G
<1> QED BY <1>0, <1>5, <1>6, <1>7, <1>8, <1>9, <1>10, <1>11, <1>12, <1>13, ConnCases
      DEF SendPrivate, SendError

(***************************************************************************)
(* Nothing of the current epoch is forgotten on the way.                   *)
(***************************************************************************)
\* What a public stream has sent, or need not send.
Passed == Settled \cup Names(wire)

QueueNext ==
    /\ \A k \in DOMAIN snapshot' :
          snapshot'[k].epoch <= epoch' /\ snapshot'[k].id <= published'[snapshot'[k].epoch]
    /\ \A k \in DOMAIN queue' :
          queue'[k] = Mark
            \/ (queue'[k].epoch <= epoch' /\ queue'[k].id <= published'[queue'[k].epoch])
    /\ Complete(epoch', snapshot', Passed')
    /\ Complete(epoch', queue', Passed' \cup Names(snapshot'))
    /\ \A i \in 1..published'[epoch'] :
        <<epoch', i>> \in Passed' \cup Names(snapshot') \cup Names(queue')

LEMMA QueueNextFact ==
    ASSUME private' = private, live' /\ ~private => QueueNext
    PROVE  PublicQueueInv'
BY DEF PublicQueueInv, QueueNext, Passed, Complete

\* The bounds of what is queued.
LEMMA QueueBounds ==
    ASSUME IInv, Next, live, ~private
    PROVE  /\ \A k \in DOMAIN snapshot :
                 snapshot[k].epoch <= epoch' /\ snapshot[k].id <= published'[snapshot[k].epoch]
           /\ \A k \in DOMAIN queue :
                 queue[k] = Mark
                   \/ (queue[k].epoch <= epoch' /\ queue[k].id <= published'[queue[k].epoch])
<1> USE DEF IInv
<1>1. /\ epoch \in Nat /\ epoch' \in Nat /\ epoch <= epoch'
      /\ \A e \in Epochs : /\ published[e] \in Nat /\ published'[e] \in Nat
                           /\ published[e] <= published'[e]
  BY ServerEpoch
<1>2. ASSUME NEW x \in Event, x.epoch <= epoch, x.id <= published[x.epoch]
      PROVE  x.epoch <= epoch' /\ x.id <= published'[x.epoch]
  <2>1. x.epoch \in Epochs /\ x.epoch \in Nat /\ x.id \in Nat
    BY Events DEF Types
  <2> QED BY <1>1, <1>2, <2>1
<1>3. /\ \A k \in DOMAIN snapshot : snapshot[k] \in Event
      /\ \A k \in DOMAIN queue : queue[k] \in Event \cup {Mark}
  BY SequenceTypes
<1> QED BY <1>2, <1>3 DEF PublicQueueInv

\* After a reset nothing of the new epoch was published or queued.
LEMMA QueueReset ==
    ASSUME IInv, Next, live, ~private, Reset, snapshot' = snapshot,
           \A k \in DOMAIN queue' : queue'[k] = Mark \/ \E j \in DOMAIN queue : queue'[k] = queue[j]
    PROVE  QueueNext
<1> USE DEF IInv
<1>1. epoch' = epoch + 1 /\ published' = published /\ epoch \in Nat /\ epoch' \in Epochs
  BY ResetTypes, ServerFacts
<1>2. published'[epoch'] = 0
  BY <1>1 DEF ReplayInv
<1>3. \A k \in DOMAIN snapshot : snapshot[k].epoch <= epoch /\ snapshot[k].epoch \in Nat
  BY SequenceTypes, Events DEF PublicQueueInv, Types
<1>4. \A k \in DOMAIN queue : queue[k].epoch <= epoch /\ queue[k].epoch \in Nat
  <2>1. \A k \in DOMAIN queue : queue[k].epoch \in Nat
    BY SequenceTypes, Events, Marks DEF Types
  <2> QED BY <1>1, <2>1, Marks DEF PublicQueueInv
<1>5. \A k \in DOMAIN snapshot' : snapshot'[k].epoch # epoch'
  BY <1>1, <1>3
<1>6. \A k \in DOMAIN queue' : queue'[k].epoch # epoch'
  BY <1>1, <1>4, Marks
<1>7. /\ Complete(epoch', snapshot', Passed')
      /\ Complete(epoch', queue', Passed' \cup Names(snapshot'))
  BY <1>5, <1>6 DEF Complete
<1> QED BY <1>2, <1>7, QueueBounds DEF QueueNext

\* Nothing is published: what passes on the way is moved, or settled.
LEMMA QueueKept ==
    ASSUME IInv, Next, live, ~private, UNCHANGED <<epoch, published, snapshot, queue>>,
           \A i \in Nat \ {0} : <<epoch, i>> \in Passed => <<epoch, i>> \in Passed'
    PROVE  QueueNext
<1> USE DEF IInv
<1>1. /\ Complete(epoch, snapshot, Passed')
      /\ Complete(epoch, queue, Passed' \cup Names(snapshot))
  BY CompleteGrows DEF PublicQueueInv, Passed
<1>2. \A i \in 1..published[epoch] : <<epoch, i>> \in Passed' \cup Names(snapshot) \cup Names(queue)
  <2>1. \A i \in 1..published[epoch] : i \in Nat \ {0}
    BY ServerFacts
  <2>2. \A i \in 1..published[epoch] :
            <<epoch, i>> \in Passed \cup Names(snapshot) \cup Names(queue)
    BY DEF PublicQueueInv, Passed
  <2> QED BY <2>1, <2>2
<1> QED BY <1>1, <1>2, QueueBounds DEF QueueNext

LEMMA QueueSend ==
    ASSUME IInv, Next, SendPublic
    PROVE  QueueNext
<1> USE DEF IInv
<1>0. /\ ~private /\ live /\ serving # 0 /\ epoch' = epoch /\ published' = published
      /\ admitted' = admitted /\ lost' = lost /\ PublicQueueInv
      /\ snapshot \in Seq(Event) /\ queue \in Seq(Event \cup {Mark})
  BY SequenceTypes DEF SendPublic, serverVars, historyVars
<1>a. \A i \in 1..published[epoch] : i \in Nat \ {0}
  BY ServerFacts
<1>1. ASSUME NEW x \in Event \cup {Mark}, wire' = wire \o Sent(x),
             x.epoch = epoch => x.id <= published[epoch],
             x.epoch = epoch => \A i \in 1..(x.id - 1) : <<epoch, i>> \in Settled \cup Names(wire)
      PROVE  Passed \subseteq Passed' /\ (x.epoch = epoch => Name(x) \in Passed')
  BY <1>0, <1>1, SentProper DEF Passed, Settled
<1>2. CASE /\ snapshot # <<>> /\ wire' = wire \o Sent(Head(snapshot))
           /\ snapshot' = Tail(snapshot) /\ UNCHANGED queue
  <2>1. /\ Head(snapshot) = snapshot[1] /\ snapshot[1] \in Event /\ 1 \in DOMAIN snapshot
        /\ Len(snapshot) \in Nat /\ DOMAIN snapshot = 1..Len(snapshot)
        /\ DOMAIN snapshot' = 1..(Len(snapshot) - 1)
        /\ \A k \in 1..(Len(snapshot) - 1) : snapshot'[k] = snapshot[k + 1]
    BY <1>0, <1>2, Tails
  <2>2. snapshot[1].epoch = epoch => snapshot[1].id <= published[epoch]
    BY <1>0, <2>1 DEF PublicQueueInv
  <2>3. snapshot[1].epoch = epoch =>
           \A i \in 1..(snapshot[1].id - 1) : <<epoch, i>> \in Settled \cup Names(wire)
    BY <1>0, <2>1 DEF PublicQueueInv, Complete
  <2>4. Passed \subseteq Passed' /\ (snapshot[1].epoch = epoch => Name(snapshot[1]) \in Passed')
    BY <1>1, <1>2, <2>1, <2>2, <2>3
  <2>5. Names(snapshot) = Names(snapshot') \cup {Name(snapshot[1])}
    BY <1>0, <1>2, <2>1, NamesOfTail
  <2>6. \A i :
           <<epoch, i>> \in Passed \cup Names(snapshot)
              => <<epoch, i>> \in Passed' \cup Names(snapshot')
    <3>1. \A i : Name(snapshot[1]) = <<epoch, i>> => snapshot[1].epoch = epoch
      BY DEF Name
    <3> QED BY <2>4, <2>5, <3>1
  <2>7. Complete(epoch, snapshot', Passed')
    <3>1. Complete(epoch, snapshot, Passed)
      BY <1>0 DEF PublicQueueInv, Passed
    <3> QED BY <1>0, <1>2, <2>1, <2>4, <3>1, CompleteTail
  <2>8. Complete(epoch, queue, Passed' \cup Names(snapshot'))
    <3>1. Complete(epoch, queue, Passed \cup Names(snapshot))
      BY <1>0 DEF PublicQueueInv, Passed
    <3> QED BY <2>6, <3>1, CompleteGrows
  <2>9. \A i \in 1..published[epoch] :
            <<epoch, i>> \in Passed' \cup Names(snapshot') \cup Names(queue)
    <3>1. \A i \in 1..published[epoch] :
              <<epoch, i>> \in Passed \cup Names(snapshot) \cup Names(queue)
      BY <1>0 DEF PublicQueueInv, Passed
    <3> QED BY <2>6, <3>1
  <2>10. \A k \in DOMAIN snapshot' :
            snapshot'[k].epoch <= epoch' /\ snapshot'[k].id <= published'[snapshot'[k].epoch]
    <3>1. \A k \in DOMAIN snapshot' : k + 1 \in DOMAIN snapshot /\ snapshot'[k] = snapshot[k + 1]
      BY <2>1
    <3> QED BY <1>0, <3>1, QueueBounds
  <2> QED BY <1>0, <1>2, <2>7, <2>8, <2>9, <2>10, QueueBounds DEF QueueNext
<1>3. CASE /\ snapshot = <<>> /\ queue # <<>> /\ wire' = wire \o Sent(Head(queue))
           /\ queue' = Tail(queue) /\ UNCHANGED snapshot
  <2>1. /\ Head(queue) = queue[1] /\ queue[1] \in Event \cup {Mark} /\ 1 \in DOMAIN queue
        /\ Len(queue) \in Nat /\ DOMAIN queue = 1..Len(queue)
        /\ DOMAIN queue' = 1..(Len(queue) - 1)
        /\ \A k \in 1..(Len(queue) - 1) : queue'[k] = queue[k + 1]
    BY <1>0, <1>3, Tails
  <2>2. queue[1].epoch = epoch => queue[1].id <= published[epoch]
    BY <1>0, <2>1, Marks, ServerFacts DEF PublicQueueInv
  <2>3. ASSUME queue[1].epoch = epoch, NEW i \in 1..(queue[1].id - 1)
        PROVE  <<epoch, i>> \in Settled \cup Names(wire)
    <3>1. <<epoch, i>> \in Settled \cup Names(wire) \cup Names(snapshot)
      BY <1>0, <2>1, <2>3 DEF PublicQueueInv, Complete
    <3> QED BY <1>3, <3>1, NamesOfEmpty
  <2>4. Passed \subseteq Passed' /\ (queue[1].epoch = epoch => Name(queue[1]) \in Passed')
    BY <1>1, <1>3, <2>1, <2>2, <2>3
  <2>5. Names(queue) = Names(queue') \cup {Name(queue[1])}
    BY <1>0, <1>3, <2>1, NamesOfTail
  <2>6. \A i :
           <<epoch, i>> \in Passed \cup Names(queue)
              => <<epoch, i>> \in Passed' \cup Names(queue')
    <3>1. \A i : Name(queue[1]) = <<epoch, i>> => queue[1].epoch = epoch
      BY DEF Name
    <3> QED BY <2>4, <2>5, <3>1
  <2>7. Complete(epoch, queue', Passed' \cup Names(snapshot))
    <3>1. Complete(epoch, queue, Passed \cup Names(snapshot))
      BY <1>0 DEF PublicQueueInv, Passed
    <3> QED BY <1>0, <1>3, <2>1, <2>4, <3>1, CompleteTail
  <2>8. Complete(epoch, snapshot, Passed')
    BY <1>3, CompleteEmpty
  <2>9. \A i \in 1..published[epoch] :
            <<epoch, i>> \in Passed' \cup Names(snapshot) \cup Names(queue')
    <3>1. \A i \in 1..published[epoch] :
              <<epoch, i>> \in Passed \cup Names(snapshot) \cup Names(queue)
      BY <1>0 DEF PublicQueueInv, Passed
    <3> QED BY <2>6, <3>1
  <2>10. \A k \in DOMAIN queue' :
            queue'[k] = Mark
              \/ (queue'[k].epoch <= epoch' /\ queue'[k].id <= published'[queue'[k].epoch])
    <3>1. \A k \in DOMAIN queue' : k + 1 \in DOMAIN queue /\ queue'[k] = queue[k + 1]
      BY <2>1
    <3> QED BY <1>0, <3>1, QueueBounds
  <2> QED BY <1>0, <1>3, <2>7, <2>8, <2>9, <2>10, QueueBounds DEF QueueNext
<1> QED BY <1>2, <1>3 DEF SendPublic

\* What is published is queued, or the queue is emptied and what it held is lost.
LEMMA QueuePublish ==
    ASSUME IInv, Next, live, ~private, NEW kind \in Kinds[private], Publish(kind)
    PROVE  QueueNext
<1> USE DEF IInv
<1> DEFINE ev == NewEvent(kind)
           x == Outgoing(ev)
           R == Passed' \cup Names(snapshot)
<1>1. /\ epoch' = epoch /\ snapshot' = snapshot /\ wire' = wire /\ admitted' = admitted
      /\ published' = [published EXCEPT ![epoch] = @ + 1]
      /\ queue' = Enqueue(queue, x)
      /\ lost' = lost \cup Evicted \cup Dropped(queue) \cup (IF x = Mark THEN {Name(ev)} ELSE {})
  BY NewEvents DEF Publish, PublishPublic, PublishPrivate
<1>2. /\ published \in [Epochs -> Numbers \cup {0}] /\ epoch \in Epochs /\ epoch \in Nat \ {0}
      /\ published[epoch] \in Nat
  BY ServerFacts
<1>3. published'[epoch] = published[epoch] + 1
  BY <1>1, <1>2
<1>4. /\ ev \in Event /\ ev.epoch = epoch /\ ev.id = published[epoch] + 1
      /\ Name(ev) = <<epoch, published[epoch] + 1>>
  BY PublishedEvent, NewEvents
<1>5. x = ev \/ x = Mark
  BY DEF Outgoing
<1>6. queue \in Seq(Event \cup {Mark}) /\ Len(queue) \in Nat /\ DOMAIN queue = 1..Len(queue)
  BY SequenceTypes
<1>7. Passed \subseteq Passed' /\ lost' \subseteq Passed'
  BY <1>1 DEF Passed, Settled
<1> HIDE DEF ev, x, R
<1>8. \A i \in 1..published[epoch] : <<epoch, i>> \in R \cup Names(queue)
  BY <1>7 DEF PublicQueueInv, Passed, R
<1>9. Complete(epoch, snapshot, Passed') /\ Complete(epoch, queue, R)
  <2>1. Complete(epoch, snapshot, Passed) /\ Complete(epoch, queue, Passed \cup Names(snapshot))
    BY DEF PublicQueueInv, Passed
  <2> QED BY <1>7, <2>1, CompleteGrows DEF R
<1>10. /\ Complete(epoch, queue', R)
       /\ \A n \in Names(queue) : n \in Names(queue') \cup lost'
       /\ Name(x) \in Names(queue')
       /\ \A k \in DOMAIN queue' : queue'[k] \in {Mark, x}
           \/ \E j \in DOMAIN queue : queue'[k] = queue[j]
  <2>1. CASE Len(queue) < QueueSize
    <3>1. queue' = Append(queue, x)
      BY <1>1, <2>1 DEF Enqueue
    <3>2. x.epoch = epoch => \A i \in 1..(x.id - 1) : <<epoch, i>> \in R \cup Names(queue)
      <4>1. x.epoch = epoch => x = ev
        BY <1>2, <1>5, Marks
      <4>2. ev.id - 1 = published[epoch]
        BY <1>2, <1>4
      <4> QED BY <1>8, <4>1, <4>2
    <3>3. Complete(epoch, queue', R)
      BY <1>4, <1>5, <1>6, <1>9, <3>1, <3>2, CompleteAppend
    <3>4. Names(queue') = Names(queue) \cup {Name(x)}
      BY <1>4, <1>5, <1>6, <3>1, NamesOfAppend
    <3>5. /\ DOMAIN queue' = 1..(Len(queue) + 1) /\ queue'[Len(queue) + 1] = x
          /\ \A k \in 1..Len(queue) : queue'[k] = queue[k]
      BY <1>4, <1>5, <1>6, <3>1, Appends
    <3>6. ASSUME NEW k \in DOMAIN queue'
          PROVE  queue'[k] = x \/ \E j \in DOMAIN queue : queue'[k] = queue[j]
      <4>1. k = Len(queue) + 1 \/ k \in DOMAIN queue
        BY <1>6, <3>5
      <4> QED BY <1>6, <3>5, <4>1
    <3> QED BY <3>3, <3>4, <3>6
  <2>2. CASE ~(Len(queue) < QueueSize)
    <3>1. queue' = <<Mark, x>> /\ Names(queue) \subseteq lost'
      BY <1>1, <2>2 DEF Enqueue, Dropped, Names
    <3>2. DOMAIN queue' = {1, 2} /\ queue'[1] = Mark /\ queue'[2] = x
      BY <3>1
    <3>3. Name(x) \in Names(queue')
      BY <3>2 DEF Names
    <3>4. Complete(epoch, queue', R)
      <4> SUFFICES ASSUME NEW k \in DOMAIN queue', queue'[k].epoch = epoch,
                          NEW i \in 1..(queue'[k].id - 1)
                   PROVE  <<epoch, i>> \in R
        BY DEF Complete
      <4>1. queue'[k] = ev
        BY <1>2, <1>5, <3>2, Marks
      <4>2. i \in 1..published[epoch]
        BY <1>2, <1>4, <4>1
      <4> QED BY <1>7, <1>8, <3>1, <4>2 DEF R
    <3> QED BY <3>1, <3>2, <3>3, <3>4
  <2> QED BY <2>1, <2>2
<1>11. \A k \in DOMAIN queue' :
          queue'[k] = Mark
            \/ (queue'[k].epoch <= epoch' /\ queue'[k].id <= published'[queue'[k].epoch])
  <2>1. ev.epoch <= epoch' /\ ev.id <= published'[ev.epoch]
    BY <1>1, <1>2, <1>3, <1>4
  <2> QED BY <1>5, <1>10, <2>1, QueueBounds
<1>12. ASSUME NEW i \in 1..published'[epoch]
       PROVE  <<epoch, i>> \in R \cup Names(queue')
  <2>1. i \in 1..published[epoch] \/ i = published[epoch] + 1
    BY <1>2, <1>3
  <2>2. CASE i \in 1..published[epoch]
    BY <1>7, <1>8, <1>10, <2>2 DEF R
  <2>3. CASE i = published[epoch] + 1
    <3>1. Name(ev) \in Names(queue') \cup lost'
      BY <1>1, <1>5, <1>10
    <3> QED BY <1>4, <1>7, <2>3, <3>1 DEF R
  <2> QED BY <2>1, <2>2, <2>3
<1> QED BY <1>1, <1>9, <1>10, <1>11, <1>12, QueueBounds DEF QueueNext, R

\* A connection starts with the replay after the position of the pump.
LEMMA QueueOpen ==
    ASSUME IInv, Next, ~private, Open
    PROVE  QueueNext
<1> USE DEF IInv
<1> DEFINE n == IF known \in {0, epoch} THEN cur ELSE 0
<1>1. /\ snapshot' = Above(n, replay) /\ wire' = <<>> /\ queue' = <<>>
      /\ epoch' = epoch /\ published' = published /\ Settled' = Settled
  BY DEF Open, ReplayAfter, serverVars, historyVars, Settled
<1>2. n \in Nat /\ \A i \in 1..n : <<epoch, i>> \in Settled
  <2>1. cur \in Nat /\ (known = 0 => cur = 0) /\ \A i \in 1..cur : <<known, i>> \in Settled
    BY PumpFacts DEF PositionInv, SettledInv
  <2>2. CASE known = epoch
    BY <2>1, <2>2
  <2>3. CASE known # epoch
    <3>1. n = 0
      BY <2>1, <2>3
    <3> QED BY <3>1
  <2> QED BY <2>2, <2>3
<1> HIDE DEF n
<1>3. PICK m \in 0..Len(replay) :
         /\ DOMAIN Above(n, replay) = 1..(Len(replay) - m)
         /\ \A k \in 1..(Len(replay) - m) : Above(n, replay)[k] = replay[k + m]
         /\ \A k \in DOMAIN replay : replay[k].id <= n <=> k <= m
  BY <1>2, AboveReplay
<1>4. /\ Len(replay) \in Nat /\ DOMAIN replay = 1..Len(replay) /\ m \in Nat
      /\ \A k \in 1..Len(replay) : replay[k].id \in Nat \ {0}
      /\ \A k \in DOMAIN replay : replay[k].epoch = epoch /\ replay[k].id <= published[epoch]
      /\ \A j, k \in DOMAIN replay : j < k => replay[j].id < replay[k].id
      /\ published[epoch] \in Nat /\ epoch \in Nat
  BY ServerFacts DEF ReplayInv
<1>5. /\ DOMAIN snapshot' = 1..(Len(replay) - m)
      /\ \A k \in 1..(Len(replay) - m) : k + m \in DOMAIN replay /\ snapshot'[k] = replay[k + m]
  BY <1>1, <1>3, <1>4
<1>6. ASSUME NEW i \in 1..published[epoch], <<epoch, i>> \notin Settled
      PROVE  \E k \in DOMAIN snapshot' : snapshot'[k] = replay[k + m] /\ replay[k + m].id = i
  <2>1. ~(i <= acked)
    <3>1. acked \in Nat
      BY AckTypes
    <3> QED BY <1>6, <3>1 DEF SettledInv
  <2>2. PICK j \in DOMAIN replay : replay[j].id = i
    BY <1>6, <2>1 DEF RetainedInv, Settled
  <2>3. ~(i <= n)
    BY <1>2, <1>4, <1>6
  <2>4. ~(j <= m)
    BY <1>3, <2>2, <2>3
  <2>5. j - m \in 1..(Len(replay) - m) /\ (j - m) + m = j
    BY <1>4, <2>4
  <2> QED BY <1>5, <2>2, <2>5
<1>7. \A i \in 1..published[epoch] : <<epoch, i>> \in Settled \cup Names(snapshot')
  <2> SUFFICES ASSUME NEW i \in 1..published[epoch], <<epoch, i>> \notin Settled
               PROVE  <<epoch, i>> \in Names(snapshot')
    OBVIOUS
  <2>1. PICK k \in DOMAIN snapshot' : snapshot'[k] = replay[k + m] /\ replay[k + m].id = i
    BY <1>6
  <2>2. replay[k + m].epoch = epoch
    BY <1>4, <1>5
  <2>3. Name(snapshot'[k]) = <<epoch, i>>
    BY <2>1, <2>2 DEF Name
  <2> QED BY <2>3 DEF Names
<1>8. Complete(epoch, snapshot', Passed')
  <2> SUFFICES ASSUME NEW k \in DOMAIN snapshot', NEW i \in 1..(snapshot'[k].id - 1),
                      <<epoch, i>> \notin Settled
               PROVE  \E j \in 1..(k - 1) : Name(snapshot'[j]) = <<epoch, i>>
    BY <1>1 DEF Complete, Passed
  <2>1. k \in 1..(Len(replay) - m) /\ k + m \in DOMAIN replay /\ snapshot'[k] = replay[k + m]
    BY <1>5
  <2>2. i \in 1..published[epoch] /\ i < replay[k + m].id
    BY <1>4, <2>1
  <2>3. PICK j \in DOMAIN snapshot' : snapshot'[j] = replay[j + m] /\ replay[j + m].id = i
    BY <1>6, <2>2
  <2>4. j \in 1..(Len(replay) - m) /\ j + m \in DOMAIN replay
    BY <1>5
  <2>5. ~(k + m <= j + m)
    <3>1. k + m = j + m => replay[k + m].id = i
      BY <2>3
    <3>2. k + m < j + m => replay[k + m].id < i
      BY <1>4, <2>1, <2>3, <2>4
    <3>3. k \in Nat /\ j \in Nat /\ m \in Nat /\ i \in Nat /\ replay[k + m].id \in Nat
      BY <1>4, <2>1, <2>4
    <3> QED BY <2>2, <3>1, <3>2, <3>3
  <2>6. j \in 1..(k - 1)
    BY <1>4, <2>1, <2>4, <2>5
  <2>7. Name(snapshot'[j]) = <<epoch, i>>
    BY <1>4, <2>3, <2>4 DEF Name
  <2> QED BY <2>6, <2>7
<1>9. \A k \in DOMAIN snapshot' :
         snapshot'[k].epoch <= epoch' /\ snapshot'[k].id <= published'[snapshot'[k].epoch]
  <2>1. \A k \in DOMAIN snapshot' : k + m \in DOMAIN replay /\ snapshot'[k] = replay[k + m]
    BY <1>5
  <2>2. \A k \in DOMAIN snapshot' :
           snapshot'[k].epoch = epoch /\ snapshot'[k].id <= published[epoch]
    BY <1>4, <2>1
  <2>3. epoch <= epoch
    BY <1>4
  <2> QED BY <1>1, <2>2, <2>3
<1>10. /\ \A k \in DOMAIN queue' :
             queue'[k] = Mark
               \/ (queue'[k].epoch <= epoch' /\ queue'[k].id <= published'[queue'[k].epoch])
       /\ Complete(epoch', queue', Passed' \cup Names(snapshot'))
  <2>1. DOMAIN queue' = {}
    BY <1>1
  <2> QED BY <2>1 DEF Complete
<1> QED BY <1>1, <1>7, <1>8, <1>9, <1>10 DEF QueueNext, Passed

\* Marks wake the subscribers of a public stream.
LEMMA WokenQueue ==
    ASSUME Types, live, ~private, WakeSubscribers
    PROVE  \A k \in DOMAIN queue' : queue'[k] = Mark \/ \E j \in DOMAIN queue : queue'[k] = queue[j]
<1> DEFINE q == Enqueue(queue, Mark)
<1>1. /\ queue \in Seq(Event \cup {Mark}) /\ Len(queue) \in Nat /\ DOMAIN queue = 1..Len(queue)
      /\ Len(queue) <= QueueSize /\ private \in Streams /\ queue' = Enqueue(q, Mark)
  BY SequenceTypes DEF Types, TypeOK, WakeSubscribers
<1>2. ASSUME NEW s \in Seq(Event \cup {Mark}), NEW k \in DOMAIN Enqueue(s, Mark)
      PROVE  Enqueue(s, Mark)[k] = Mark \/ (k \in DOMAIN s /\ Enqueue(s, Mark)[k] = s[k])
  <2>1. CASE Len(s) < QueueSize
    <3>1. Enqueue(s, Mark) = Append(s, Mark)
      BY <2>1 DEF Enqueue
    <3>2. /\ Len(s) \in Nat /\ DOMAIN s = 1..Len(s) /\ DOMAIN Append(s, Mark) = 1..(Len(s) + 1)
          /\ \A j \in 1..Len(s) : Append(s, Mark)[j] = s[j]
          /\ Append(s, Mark)[Len(s) + 1] = Mark
      BY Appends
    <3>3. k \in 1..Len(s) \/ k = Len(s) + 1
      BY <1>2, <3>1, <3>2
    <3> QED BY <3>1, <3>2, <3>3
  <2>2. CASE ~(Len(s) < QueueSize)
    <3>1. Enqueue(s, Mark) = <<Mark, Mark>>
      BY <2>2 DEF Enqueue
    <3>2. DOMAIN <<Mark, Mark>> = {1, 2} /\ <<Mark, Mark>>[1] = Mark /\ <<Mark, Mark>>[2] = Mark
      OBVIOUS
    <3>3. k = 1 \/ k = 2
      BY <1>2, <3>1, <3>2
    <3> QED BY <3>1, <3>2, <3>3
  <2> QED BY <2>1, <2>2
<1>3. q \in Seq(Event \cup {Mark})
  BY <1>1, Enqueues
<1> HIDE DEF q
<1>4. ASSUME NEW k \in DOMAIN queue'
      PROVE  queue'[k] = Mark \/ \E j \in DOMAIN queue : queue'[k] = queue[j]
  <2>1. queue'[k] = Mark \/ (k \in DOMAIN q /\ queue'[k] = q[k])
    BY <1>1, <1>2, <1>3, <1>4
  <2>2. k \in DOMAIN q => q[k] = Mark \/ (k \in DOMAIN queue /\ q[k] = queue[k])
    BY <1>1, <1>2 DEF q
  <2> QED BY <2>1, <2>2
<1> QED BY <1>4

LEMMA PublicQueueStep ==
    ASSUME IInv, Next
    PROVE  PublicQueueInv'
<1> USE DEF IInv
<1>0. SUFFICES ASSUME live', ~private PROVE QueueNext
  BY QueueNextFact DEF Next
<1>1. CASE UNCHANGED <<connVars, published, admitted, lost>>
  <2>1. live /\ snapshot' = snapshot /\ queue' = queue /\ wire' = wire
    BY <1>0, <1>1 DEF connVars
  <2>2. CASE epoch' = epoch
    <3>1. Passed' = Passed
      BY <1>1, <2>1 DEF Passed, Settled
    <3> QED BY <1>0, <1>1, <2>1, <2>2, <3>1, QueueKept
  <2>3. CASE epoch' # epoch
    <3>1. Reset
      BY <2>3, ServerEpoch
    <3> QED BY <1>0, <2>1, <3>1, QueueReset
  <2> QED BY <2>2, <2>3
<1>2. ASSUME NEW kind \in Kinds[private], Publish(kind) PROVE QueueNext
  <2>1. live
    BY <1>0, <1>2 DEF Publish
  <2> QED BY <1>0, <1>2, <2>1, QueuePublish
<1>3. CASE Woken
  <2>1. live /\ Reset /\ WakeSubscribers /\ snapshot' = snapshot
    BY <1>0, <1>3 DEF Woken
  <2> QED BY <1>0, <2>1, WokenQueue, QueueReset
<1>4. CASE Announce
  <2>1. /\ live /\ wire' = Append(wire, Ready(epoch)) /\ Settled' = Settled
        /\ UNCHANGED <<epoch, published, snapshot, queue>>
    BY <1>4 DEF Announce, serverVars, historyVars, Settled
  <2>2. wire \in Seq(Message) /\ Ready(epoch) \in Message
    BY SequenceTypes, ServerFacts DEF Message
  <2>3. Passed \subseteq Passed'
    BY <2>1, <2>2, NamesOfAppend DEF Passed
  <2> QED BY <1>0, <2>1, <2>3, QueueKept
<1>5. CASE SendPublic
  BY <1>5, QueueSend
<1>6. CASE Open
  BY <1>0, <1>6, QueueOpen
<1>7. CASE ReadOnly
  <2>1. /\ wire # <<>> /\ wire' = Tail(wire) /\ UNCHANGED serverVars
        /\ wire[1].id \in Nat \ {0} => Name(wire[1]) \in Settled'
    BY <1>0, <1>7, ReadSettles
  <2>2. live /\ UNCHANGED <<epoch, published, snapshot, queue>>
    BY <1>0, <1>7, <2>1 DEF ReadOnly, serverVars
  <2>3. Names(wire) = Names(wire') \cup {Name(wire[1])}
    <3>1. wire \in Seq(Message)
      BY SequenceTypes
    <3>2. Head(wire) = wire[1]
      BY <2>1, <3>1, Tails
    <3> QED BY <2>1, <3>1, <3>2, NamesOfTail
  <2>4. ASSUME NEW i \in Nat \ {0}, <<epoch, i>> \in Passed
        PROVE  <<epoch, i>> \in Passed'
    <3>1. Settled \subseteq Settled'
      BY SettledGrows
    <3>2. Name(wire[1]) = <<epoch, i>> => wire[1].id = i
      BY DEF Name
    <3> QED BY <2>1, <2>3, <2>4, <3>1, <3>2 DEF Passed
  <2> QED BY <1>0, <2>2, <2>4, QueueKept
<1>8. ~SendPrivate /\ ~SendError /\ ~Broken /\ ~Disconnect
  BY <1>0 DEF SendPrivate, SendError, Broken, Disconnect
<1> QED BY <1>1, <1>2, <1>3, <1>4, <1>5, <1>6, <1>7, <1>8, ConnCases

(***************************************************************************)
(* The invariant holds, and what it implies.                               *)
(***************************************************************************)
LEMMA InvInit == Init => IInv
<1> SUFFICES ASSUME Init PROVE IInv
  OBVIOUS
<1>1. Types
  BY TypeInit
<1>2. /\ DOMAIN replay = {} /\ DOMAIN wire = {} /\ DOMAIN inbox = {} /\ 1..0 = {}
      /\ published[epoch] = 0 /\ \A e \in Epochs : published[e] = 0
  <2>1. epoch \in Epochs
    BY <1>1, ServerFacts
  <2> QED BY <2>1 DEF Init
<1>3. ReplayInv /\ RetainedInv
  BY <1>2 DEF Init, ReplayInv, RetainedInv
<1>4. PositionInv /\ HandledInv
  BY DEF Init, PositionInv, HandledInv
<1>5. SettledInv /\ PrivateAckInv
  BY <1>2 DEF Init, SettledInv, PrivateAckInv
<1>6. PublicWireInv /\ PublicQueueInv /\ PrivateWireInv
  BY <1>2, CompleteEmpty DEF Init, PublicWireInv, PublicQueueInv, PrivateWireInv, Proper
<1>7. InboxOfOneEpoch /\ SuspendedForCause
  BY <1>2 DEF Init, InboxOfOneEpoch, SuspendedForCause
<1> QED BY <1>1, <1>3, <1>4, <1>5, <1>6, <1>7 DEF IInv

LEMMA InvNext == IInv /\ [Next]_vars => IInv'
<1> SUFFICES ASSUME IInv, [Next]_vars PROVE IInv'
  OBVIOUS
<1>1. CASE Next
  <2>1. Types' /\ ReplayInv' /\ RetainedInv'
    BY <1>1, TypeStep, ReplayStep, RetainedStep DEF IInv
  <2>2. PositionInv' /\ HandledInv' /\ SettledInv'
    BY <1>1, PositionStep, HandledStep, SettledStep
  <2>3. PublicWireInv' /\ PublicQueueInv'
    BY <1>1, PublicWireStep, PublicQueueStep
  <2>4. PrivateWireInv' /\ PrivateAckInv'
    BY <1>1, PrivateWireStep, PrivateAckStep
  <2>5. InboxOfOneEpoch' /\ SuspendedForCause'
    BY <1>1, InboxStep, CauseStep
  <2> QED BY <2>1, <2>2, <2>3, <2>4, <2>5 DEF IInv
<1>2. CASE UNCHANGED vars
  <2>0. /\ private' = private /\ epoch' = epoch /\ published' = published /\ replay' = replay
        /\ acked' = acked /\ failed' = failed /\ synced' = synced /\ live' = live
        /\ serving' = serving /\ cursor' = cursor /\ snapshot' = snapshot /\ queue' = queue
        /\ wire' = wire /\ acks' = acks /\ pump' = pump /\ known' = known /\ cur' = cur
        /\ inbox' = inbox /\ handled' = handled /\ admitted' = admitted /\ lost' = lost
        /\ breaks' = breaks /\ restarts' = restarts
    BY <1>2 DEF vars
  <2>1. Types' /\ ReplayInv' /\ RetainedInv'
    BY <2>0 DEF IInv, Types, TypeOK, Event, ReplayInv, RetainedInv
  <2>2. PositionInv' /\ HandledInv' /\ SettledInv'
    BY <2>0 DEF IInv, PositionInv, HandledInv, SettledInv, Settled
  <2>3. PublicWireInv' /\ PublicQueueInv'
    BY <2>0 DEF IInv, PublicWireInv, PublicQueueInv, Proper, Tag, Settled
  <2>4. PrivateWireInv' /\ PrivateAckInv'
    BY <2>0 DEF IInv, PrivateWireInv, PrivateAckInv, Cause
  <2>5. InboxOfOneEpoch' /\ SuspendedForCause'
    BY <2>0 DEF IInv, InboxOfOneEpoch, SuspendedForCause
  <2> QED BY <2>1, <2>2, <2>3, <2>4, <2>5 DEF IInv
<1> QED BY <1>1, <1>2

THEOREM Invariance == Spec => []IInv
<1> QED
  BY InvInit, InvNext, PTL DEF Spec

\* Every variable has its type.
THEOREM TypeCorrect == Spec => []TypeOK
<1>1. IInv => TypeOK
  BY DEF IInv, Types
<1> QED
  BY <1>1, Invariance, PTL

\* The inbox of the origin pipeline never mixes epochs: when the pump learns of a new
\* one it restarts the origin pipelines before it puts an event of it (Adopt, Put).
THEOREM InboxHoldsOneEpoch == Spec => []InboxOfOneEpoch
<1>1. IInv => InboxOfOneEpoch
  BY DEF IInv
<1> QED
  BY <1>1, Invariance, PTL

\* The server forgets only what the origin admitted or a bound dropped, in the same epoch,
\* however late an acknowledgement arrives (Acknowledge).
THEOREM ForgetsWhatWasAdmitted == Spec => []AckFollowsAdmission
<1>1. IInv => AckFollowsAdmission
  BY DEF IInv, SettledInv, Settled, AckFollowsAdmission
<1> QED
  BY <1>1, Invariance, PTL

\* A private stream is suspended only for another instance of the server, an event over
\* the limit, a replay that lost the next event or a restart of the origin: no broken
\* connection, failed push or lost acknowledgement suspends it.
THEOREM NeverSuspendedWithoutCause == Spec => []SuspendedForCause
<1>1. IInv => SuspendedForCause
  BY DEF IInv
<1> QED
  BY <1>1, Invariance, PTL

(***************************************************************************)
(* The stream implements the contract.                                     *)
(***************************************************************************)
LEMMA InitRefines == Init => Contract!Init
<1> SUFFICES ASSUME Init PROVE Contract!Init
  OBVIOUS
<1>1. private \in BOOLEAN
  BY Bounds DEF Init
<1> QED BY <1>1 DEF Init, Contract!Init

\* The steps that the contract sees, and the others.
LEMMA ContractCases ==
    ASSUME Next
    PROVE  \/ \E kind \in Kinds[private] : Publish(kind)
           \/ Receive
           \/ \E edited \in BOOLEAN : Restart(edited)
           \/ UNCHANGED <<published, handled>> /\ (pump' = pump \/ pump # "suspended")
BY DEF Next, PumpStep, ServerStep, CheckStatus, Push, Open, Adopt, StreamEnds, Announce,
       SendPublic, SendPrivate, SendError, PushFails, Ensure, AckFails, Take, Break, Crash,
       Reconfigure, Apply, Reset, AckArrives, Awaited, serverVars, pumpVars, historyVars

\* What the pump admits, the contract allows it to handle.
LEMMA AdmissionRefines ==
    ASSUME IInv, Next, Receive, Expected(wire[1])
    PROVE  Contract!Handle(known, wire[1].id) /\ known \in Epochs
           /\ wire[1].id \in 1..published[known]
<1> USE DEF IInv
<1> DEFINE i == wire[1].id
           last == handled[Len(handled)]
<1>1. /\ known \in Epochs /\ known # 0 /\ i \in Nat \ {0} /\ cur < i /\ i <= published[known]
      /\ private => i = cur + 1
      /\ Name(wire[1]) = <<known, i>> /\ Admit(wire[1]) /\ cur \in Nat
  BY AdmittedFacts, PumpFacts
<1>2. /\ handled' = Append(handled, <<known, i>>) /\ pump = "open" /\ pump' = "acking"
      /\ published' = published
  BY <1>1 DEF Receive, Read, Admit, serverVars
<1>3. published[known] \in Nat
  BY <1>1, ServerFacts
<1>4. handled # <<>> => last \in Epochs \X Numbers /\ last[1] \in Nat /\ last[2] \in Nat
  <2>1. handled \in Seq(Epochs \X Numbers) /\ Len(handled) \in Nat
    BY PumpFacts
  <2>2. handled # <<>> => last \in Epochs \X Numbers
    <3>1. handled # <<>> => Len(handled) \in 1..Len(handled)
      BY <2>1, EmptySeq
    <3> QED BY <2>1, <3>1, ElementOfSeq
  <2> QED BY <2>2, Bounds DEF Types
<1> HIDE DEF i, last
<1>5. Contract!IsLater(known, i)
  <2>1. CASE private
    <3>1. handled # <<>> => last = <<known, cur>>
      BY <2>1 DEF HandledInv, last
    <3> QED BY <1>1, <3>1 DEF Contract!IsLater, Contract!Last, last
  <2>2. CASE ~private
    <3>1. handled # <<>> => last[1] < known \/ (last[1] = known /\ last[2] <= cur)
      BY <2>2 DEF HandledInv, last
    <3>2. handled # <<>> => last[1] < known \/ (last[1] = known /\ last[2] < i)
      BY <1>1, <1>4, <3>1
    <3> QED BY <3>2 DEF Contract!IsLater, Contract!Last, last
  <2> QED BY <2>1, <2>2
<1>6. private => Contract!IsNext(known, i)
  <2> SUFFICES ASSUME private PROVE Contract!IsNext(known, i)
    OBVIOUS
  <2>1. i = cur + 1 /\ i - 1 = cur
    BY <1>1
  <2>2. handled = <<>> => i = 1
    BY <2>1 DEF HandledInv
  <2>3. handled # <<>> => last = <<known, i - 1>>
    BY <2>1 DEF HandledInv, last
  <2> QED BY <2>2, <2>3 DEF Contract!IsNext, Contract!Last, last
<1>7. i \in 1..published[known]
  BY <1>1, <1>3
<1> QED BY <1>1, <1>2, <1>5, <1>6, <1>7 DEF Contract!Handle, i

LEMMA StepRefines == IInv /\ [Next]_vars => [Contract!Next]_(Contract!vars)
<1> SUFFICES ASSUME IInv, [Next]_vars
             PROVE  Contract!Next \/ UNCHANGED <<private, published, handled, pump = "suspended">>
  BY DEF Contract!vars
<1>0. PositionInv'
  BY InvNext DEF IInv
<1>1. CASE UNCHANGED vars
  BY <1>1 DEF vars
<1>2. CASE Next
  <2>0. private' = private
    BY <1>2 DEF Next
  <2>a. ASSUME UNCHANGED <<published, handled>>, pump' = "suspended"
        PROVE  Contract!Next
    BY <1>0, <2>0, <2>a DEF PositionInv, Contract!Next, Contract!Suspend
  <2>1. ASSUME NEW kind \in Kinds[private], Publish(kind) PROVE Contract!Next
    <3>1. /\ published' = [published EXCEPT ![epoch] = @ + 1] /\ handled' = handled
          /\ pump' = pump /\ epoch \in Epochs
      BY <2>1, ServerFacts DEF Publish, pumpVars, IInv
    <3> QED BY <2>0, <3>1 DEF Contract!Next, Contract!Publish
  <2>2. CASE Receive
    <3>1. CASE Expected(wire[1])
      BY <1>2, <2>0, <2>2, <3>1, AdmissionRefines DEF Contract!Next
    <3>2. CASE ~Expected(wire[1])
      <4>1. Refuse(wire[1]) /\ UNCHANGED <<published, handled>> /\ pump = "open"
        BY <2>2, <3>2, ReceivedEvent DEF IInv, Receive, Read, Refuse, serverVars
      <4>2. pump' \in {"open", "acking", "suspended"}
        BY <4>1 DEF Refuse
      <4> QED BY <2>0, <2>a, <4>1, <4>2
    <3> QED BY <3>1, <3>2
  <2>3. ASSUME NEW edited \in BOOLEAN, Restart(edited) PROVE Contract!Next
    BY <2>0, <2>3 DEF Restart, Contract!Next, Contract!Restart
  <2>4. ASSUME UNCHANGED <<published, handled>>, pump' = pump \/ pump # "suspended"
        PROVE  Contract!Next \/ UNCHANGED <<private, published, handled, pump = "suspended">>
    <3>1. CASE pump' = "suspended"
      BY <2>4, <2>a, <3>1
    <3>2. CASE pump' # "suspended"
      BY <2>0, <2>4, <3>2
    <3> QED BY <3>1, <3>2
  <2> QED BY <1>2, <2>1, <2>2, <2>3, <2>4, ContractCases
<1> QED BY <1>1, <1>2

\* The stream with its queues, its replay, its broken connections and its restarts keeps
\* the contract: in order, none twice, no epoch again, and without a gap if it is private.
THEOREM ImplementsContract == Spec => KeepsContract
<1> QED
  BY Invariance, InitRefines, StepRefines, PTL DEF Spec, KeepsContract, Contract!Spec
=============================================================================
