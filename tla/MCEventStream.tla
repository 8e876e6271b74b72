---------------------------- MODULE MCEventStream ----------------------------
(***************************************************************************)
(* Instances of EventStream for TLC.                                       *)
(***************************************************************************)
EXTENDS EventStream

\* What the server publishes: packets that the bridge projects, batches of
\* observability, and packets over the size limit of the broadcaster or of a private
\* stream.
StreamKinds ==
    [s \in BOOLEAN |->
        IF s THEN {"packet", "batch", "large"} ELSE {"packet", "large"}]
\* A public stream is reset more often, for each push to a server without a configuration
\* resets it; a private one, which is suspended at the first reset that it sees, fills its
\* replay.  Only the origin of a private stream restarts, which is where positions could be
\* lost.
OfEither(public, ofPrivate) == [s \in BOOLEAN |-> IF s THEN ofPrivate ELSE public]
StreamEvents == OfEither(2, 3)
StreamEpochs == OfEither(4, 3)
StreamBreaks == OfEither(2, 2)
StreamRestarts == OfEither(0, 1)
=============================================================================
