SPECIFICATION FairSpec
CONSTANTS
    a = a
    b = b
    c = c
    j1 = j1
    j2 = j2
    j3 = j3
    q1 = q1
    q2 = q2
    None = None
    Callers = {a, b, c}
    Jobs = {j1, j2, j3}
    Pools = {q1, q2}
    Profiles <- ThreadsOrPool
INVARIANTS
    PermitsAccounted
    AloneInPool
PROPERTIES
    CallsReturn
