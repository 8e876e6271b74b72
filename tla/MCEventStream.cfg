SPECIFICATION FairSpec
CONSTANTS
    Streams = {TRUE, FALSE}
    Kinds <- StreamKinds
    MaxReplay = 2
    QueueSize = 2
    InboxSize = 1
    WireSize = 1
    MaxEvents <- StreamEvents
    MaxEpochs <- StreamEpochs
    MaxBreaks <- StreamBreaks
    MaxRestarts <- StreamRestarts
CHECK_DEADLOCK FALSE
INVARIANTS
    InboxOfOneEpoch
    AckFollowsAdmission
    SuspendedForCause
PROPERTIES
    EpochIsAdopted
    AdmittedOrSuspended
    KeepsContract
