CONSTANTS
    Notes = {n1, n2}
    Requests = {r1, r2}
    None = None
    MaxRepeats = 1
    MaxFaults = 1
    Notices = {"q1", "q2"}
    Receiver <- MCReceiver
    Audience <- MCAudience
    JobAttempts = 3
    MaxClock = 1
    MaxTries = 2
    JobStalls = 1
SPECIFICATION MCSpec
INVARIANTS
    CountExactInOrder
    LastingOnlyAfterFault
    ReachedInOrder
PROPERTIES
    DriftHeals
    JobsAtLeastOnce
    JobsFinish
CHECK_DEADLOCK FALSE
