CONSTANTS
    paid = paid
    refunded = refunded
    other = other
    cs1 = cs1
    Events = {paid, refunded, other}
    Checkouts = {paid}
    Unhandled = {other}
    Sessions = {cs1}
    SessionOf <- MCSessionOf
    Runs = {r1, r2, r3}
    Clerks = {clerk}
    None = None
    MaxFaults = 2
    RcDeliveries = {d1, d2, d3}
    RcTypes = {"INITIAL_PURCHASE", "RENEWAL", "TEST"}
    HandledTypes = {"INITIAL_PURCHASE", "RENEWAL"}
    SubRequests = {q1, q2}
    Orders = {"o1"}
    GivenStatuses = {"active"}
    MaxSubs = 2
    PlanRequests = {q1, q2}
    MaxPlans = 3
    AccountRequests = {q1, q2}
    MaxAccounts = 2
    MonthStart <- MCMonthStart
    January = 4
SPECIFICATION MCSpec
INVARIANTS
    RowTellsOutcome
    SharedRowSettles
    SerialTrialOnce
    ExpiredStaysInactive
    PlanStaysOffered
    LinkedIsCompleted
    MonthOfTheSunday
    EachPaymentOnce
PROPERTIES
    AckedIsSettled
CHECK_DEADLOCK FALSE
