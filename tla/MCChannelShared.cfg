SPECIFICATION Spec
CONSTANTS
    c1 = c1
    c2 = c2
    p1 = p1
    p2 = p2
    k1 = k1
    k2 = k2
    pipeline = pipeline
    global = global
    None = None
    Channels = {c1, c2}
    Producers = {p1, p2}
    Consumers = {k1, k2}
    Counters = {pipeline, global}
    OutputOf <- PairOutput
    InputOf <- PairInput
    MaxSize <- PairSize
    CountersOf <- PairCounters
    Limit <- PairLimit
    MaxBytes = 1
    Policies = {"drop_oldest"}
    MaxPackets = 2
SYMMETRY Readers
INVARIANTS
    NoLostWakeup
    RevokedStaysEmpty
    CountersExact
\* A run ends when every packet was sent and every node is cancelled.
CHECK_DEADLOCK FALSE
