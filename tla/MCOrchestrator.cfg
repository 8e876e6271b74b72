SPECIFICATION Spec
CONSTANTS
    l1 = l1
    r1 = r1
    r2 = r2
    d1 = d1
    Local = {l1}
    Remote = {r1}
    Demands = {d1}
    Unfit = {l1}
    MaxEdits = 1
    MaxAsks = 2
    MaxFaults = 1
    Configs <- MCConfigs
    FirstConfig <- MCFirst
CHECK_DEADLOCK FALSE
INVARIANTS
    ReleasedIsGone
    AnsweredRuns
    OriginsOfRecord
    StopLeavesNothing
PROPERTIES
    StartsConfirmed
    ReleasedStops
    CallsReturn
