SPECIFICATION FairSpec
CONSTANTS
    source = source
    tracker = tracker
    sink = sink
    Nodes = {source, tracker, sink}
    Edges <- Connections
    Shareable = {source}
    Plans <- ConfigEdits
    FirstPlan <- Original
    MaxRounds = 3
    MaxCancels = 2
PROPERTIES
    CommitFinishes
    CallsReturn
INVARIANTS
    OneTaskPerNode
    ShutDownOnce
    NoTaskAfterShutdown
    EndsShareChannel
    PublishedIsRunning
\* A run ends when the bundle was stopped.
CHECK_DEADLOCK FALSE
