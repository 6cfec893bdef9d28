CONSTANTS
    Requests = {r1, r2}
    Life = 2
    BlacklistTtl = 2
    MaxTime = 3
    MaxFaults = 1
    NoToken = NoToken
    user = user
    s1 = s1
    s2 = s2
    family = family
    Sessions = {s1, s2}
    Members = {user}
    UserOfSession <- MCUserOfSession
    Processes = {p1, p2}
    ChatRooms = {chat}
    TaskRooms = {task}
    Families = {family}
    FamilyOf <- MCFamilyOf
    Nobody = Nobody
    MaxLosses = 2
    TaskRequests = {1, 2, 3}
    Window = 2
    Max = 1
    Second = 2
    DailyLimit = 1
    StatisticsTtl = 1
    Bodies <- MCBodies
    MaxTicks = 2
    MaxRejections = 1
SPECIFICATION MCSpec
SYMMETRY Permuted
INVARIANTS
    RevokedIsDead
    QuietUserIsGone
    OrderlyStateExact
    TasksInBounds
    StatisticsRecent
CHECK_DEADLOCK FALSE
