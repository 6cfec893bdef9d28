CONSTANTS
    Requests = {r1, r2, r3, r4, r5}
    Max = 2
    Window = 3
    KeyLife = 4
    Delay = 1
    MaxTime = 7
    MaxFaults = 1
    Keys <- MCKeys
    WriteKinds <- MCWrites
    Changes <- MCChanges
    Deletes <- MCDeletes
    CacheRequests = {q1, q2}
    Absent = Absent
    MaxVersion = 2
SPECIFICATION MCSpec
SYMMETRY Permuted
INVARIANTS
    NoBurst
    RefusalJustified
    CacheIsCurrent
CHECK_DEADLOCK FALSE
