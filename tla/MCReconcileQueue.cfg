SPECIFICATION Spec
CONSTANTS
    source = source
    tracker = tracker
    sink = sink
    Nodes = {source, tracker, sink}
    Edges <- Chain
    Shareable = {source}
    Plans <- QueueEdits
    FirstPlan <- Original
    MaxRounds = 2
    MaxCancels = 0
INVARIANT
    RetainedKeepsRunning
\* A run ends when the bundle was stopped.
CHECK_DEADLOCK FALSE
