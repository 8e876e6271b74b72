SPECIFICATION FairSpec
CONSTANTS
    p1 = p1
    p2 = p2
    a = a
    b = b
    None = None
    Producers = {p1, p2}
    Keys = {a, b}
    Policies = {"block", "drop_updates", "drop_oldest", "drop_newest", "latest_only", "keyed_latest_only"}
    MaxSize = 1
    Limit = 0
    MaxBytes = 0
    MaxPackets = 3
CHECK_DEADLOCK FALSE
PROPERTIES
    EdgesGetThrough
