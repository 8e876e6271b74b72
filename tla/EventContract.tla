---------------------------- MODULE EventContract ----------------------------
(***************************************************************************)
(* What the event stream between a processing server and the origin        *)
(* promises.  The server numbers its events from 1 in each epoch; an epoch *)
(* ends when the server is reconfigured or restarted.                      *)
(*                                                                         *)
(* The origin handles events in the order of their numbers, none twice,    *)
(* and never goes back to an earlier epoch.  A public stream may skip      *)
(* events.  A private stream skips none: it stays in one epoch, handles    *)
(* 1, 2, 3, ... and is suspended when it cannot.  A restart of the origin  *)
(* starts over.                                                            *)
(***************************************************************************)
EXTENDS Naturals, Sequences

CONSTANTS
    Epochs      \* the epochs of the server, numbers

VARIABLES
    gapless,    \* TRUE for a private stream
    published,  \* epoch -> how many events were published in it
    handled,    \* the <<epoch, number>> the origin handled since it started
    suspended   \* the delivery stopped with an error

vars == <<gapless, published, handled, suspended>>

Last == handled[Len(handled)]

\* The event may be handled after those that were.
IsLater(e, i) ==
    handled = <<>> \/ Last[1] < e \/ (Last[1] = e /\ Last[2] < i)
IsNext(e, i) ==
    IF handled = <<>> THEN i = 1 ELSE Last = <<e, i - 1>>

Init ==
    /\ gapless \in BOOLEAN
    /\ published = [e \in Epochs |-> 0]
    /\ handled = <<>>
    /\ suspended = FALSE

Publish(e) ==
    /\ published' = [published EXCEPT ![e] = @ + 1]
    /\ UNCHANGED <<handled, suspended>>

Handle(e, i) ==
    /\ ~suspended
    /\ i \in 1..published[e]
    /\ IsLater(e, i)
    /\ gapless => IsNext(e, i)
    /\ handled' = Append(handled, <<e, i>>)
    /\ UNCHANGED <<published, suspended>>

Suspend ==
    /\ gapless
    /\ suspended' = TRUE
    /\ UNCHANGED <<published, handled>>

Restart ==
    /\ handled' = <<>> /\ suspended' = FALSE
    /\ UNCHANGED published

Next ==
    /\ UNCHANGED gapless
    /\ \/ \E e \in Epochs : Publish(e)
       \/ \E e \in Epochs : \E i \in 1..published[e] : Handle(e, i)
       \/ Suspend
       \/ Restart

Spec == Init /\ [][Next]_vars
=============================================================================
