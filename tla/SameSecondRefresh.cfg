CONSTANTS
    Requests = {r1}
    Life = 2
    BlacklistTtl = 2
    MaxTime = 2
    MaxFaults = 0
    NoToken = NoToken
SPECIFICATION Spec
CHECK_DEADLOCK FALSE
INVARIANT RefreshReturnsNewToken
