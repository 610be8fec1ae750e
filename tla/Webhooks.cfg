SPECIFICATION ToldFairSpec
CONSTANTS
    e1 = e1
    Proc = {p1, p2}
    Event = {e1}
    Sub = {s1}
    TopicLists = {{e1}}
    MaxAttempts = 2
    MaxUpdates = 1
    MaxRetries = 1
    MaxFaults = 1
    k1 = k1
    k2 = k2
    ma = ma
    mb = mb
    o1 = o1
    pr1 = pr1
    null = null
    noorg = noorg
    LogKey = {k1,k2}
    LogModel = {ma,mb}
    Org <- MCOrg
    NoOrg = noorg
    Price <- MCPrice
    Null = null
    Kinds = {"rate_limited"}
    StatusOf <- MCStatusOf
    DayTicks = 2
    MonthDays = 2
    Scopes <- MCScopes
    FirstHour = 1
    MaxClock = 4
    MaxRows = 2
    Top = 1
INVARIANTS NoEcho DuplicatesExplained LedgerHolds ReportsAgree
PROPERTIES EventuallySettled
CHECK_DEADLOCK FALSE
