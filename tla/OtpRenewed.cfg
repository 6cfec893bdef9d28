CONSTANTS
    Codes = {c1, c2}
    Requests = {r1}
    MaxAttempts = 2
    Ttl = 2
    NoEntry = NoEntry
SPECIFICATION ResetSpec
INVARIANT ValidForOtpTtl
