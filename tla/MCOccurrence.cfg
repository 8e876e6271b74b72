SPECIFICATION FairSpec
CONSTANTS
    r1 = r1
    r2 = r2
    Recorders = {r1, r2}
    QueueSize = 2
    Setups <- MCSetups
CHECK_DEADLOCK FALSE
INVARIANTS
    NothingWithdrawnIsKept
    ChangesAreFollowedUp
    WithdrawnIsHidden
    ErasedHasNoImages
    ObservedWhileRecorded
PROPERTIES
    NoticesArrive
