SPECIFICATION Spec
CONSTANTS
    p1 = p1
    p2 = p2
    a = a
    b = b
    None = None
    Producers = {p1}
    Keys = {a, b}
    Policies = {"block", "drop_updates", "drop_oldest", "drop_newest", "latest_only", "keyed_latest_only"}
    MaxSize = 3
    Limit = 1
    MaxBytes = 1
    MaxPackets = 5
CHECK_DEADLOCK FALSE
SYMMETRY KeySymmetry
INVARIANTS
    PlacesMatchItems
    CountersExact
    EdgesKept
    PlaceIsKept
