CONSTANTS
    paid = paid
    refunded = refunded
    other = other
    cs1 = cs1
    Events = {paid, refunded, other}
    Checkouts = {paid}
    Unhandled = {other}
    Sessions = {cs1}
    SessionOf <- MCSessionOf
    Runs = {r1, r2}
    Clerks = {}
    None = None
    MaxFaults = 0
    RcDeliveries = {}
    RcTypes = {"TEST"}
    HandledTypes = {}
    SubRequests = {}
    Orders = {}
    GivenStatuses = {}
    MaxSubs = 0
    PlanRequests = {}
    MaxPlans = 0
    AccountRequests = {}
    MaxAccounts = 0
    MonthStart <- MCMonthStart
    January = 4
SPECIFICATION MCSpec
INVARIANT OneTransactionPerSession
CHECK_DEADLOCK FALSE
