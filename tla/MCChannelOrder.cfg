SPECIFICATION FairSpec
CONSTANTS
    c1 = c1
    c2 = c2
    p1 = p1
    p2 = p2
    k1 = k1
    k2 = k2
    pipeline = pipeline
    global = global
    None = None
    Channels = {c1}
    Producers = {p1}
    Consumers = {k1}
    Counters = {pipeline}
    OutputOf <- SoloOutput
    InputOf <- SoloInput
    MaxSize <- SoloSize
    CountersOf <- SoloCounters
    Limit <- SoloLimit
    MaxBytes = 1
    Policies = {"block", "drop_updates", "drop_oldest", "drop_newest", "latest_only", "keyed_latest_only"}
    MaxPackets = 5
PROPERTIES
    EdgesGetThrough
    DeliveredInOrder
\* A run ends when every packet was sent and every node is cancelled.
CHECK_DEADLOCK FALSE
