CONSTANTS
    Codes = {c1, c2}
    Requests = {r1, r2}
    MaxAttempts = 3
    Ttl = 2
    NoEntry = NoEntry
    Applicants = {a1, a2, a3}
    OauthLogins = {o1, o2}
    NoAccount = NoAccount
    Adders = {f1, f2, f3}
    MaxActivities = 2
    MaxPushes = 5
    DeviceRows = {d1, d2, d3}
    DeviceCalls = {k1, k2}
    NoRow = NoRow
    Places = {1, 2, 3, 4, 5}
    Limit = 2
    Folks = {asker, brother, friend}
    Asker = asker
    Kin = {brother}
    Talks = {x, y}
    MaxMoves = 2
SPECIFICATION MCSpec
INVARIANTS
    CodePaysOneChange
    SerialCodeSafe
    RegisteredOwnsAccount
    FeedIsNewest
    LastWordHolds
    PagesComplete
    RelatedListed
CHECK_DEADLOCK FALSE
