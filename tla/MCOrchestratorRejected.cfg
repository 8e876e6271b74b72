SPECIFICATION Spec
CONSTANTS
    l1 = l1
    r1 = r1
    r2 = r2
    d1 = d1
    Local = {l1}
    Remote = {r1, r2}
    Demands = {}
    Unfit = {r1}
    MaxEdits = 2
    MaxAsks = 0
    MaxFaults = 1
    Configs <- MCPairConfigs
    FirstConfig <- MCPairFirst
CHECK_DEADLOCK FALSE
PROPERTIES
    RejectedStaysOut
