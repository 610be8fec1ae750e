SPECIFICATION FairSpec
CONSTANTS
    m1 = m1
    m2 = m2
    p1 = p1
    p2 = p2
    Model = {m1, m2}
    Provider = {p1, p2}
    Key = {m1, m2, p1, p2}
    ProviderOf <- OwnProviders
    Registered = {p1}
    Plans <- EitherOrder
    MaxAttempts = 2
    RetryOn = {"overload", "outage", "thrown"}
    MaxDbFaults = 2
    ForeignKeyOK = {m1, m2, p1, p2}
    RowId = {r1, r2, r3}
    NoRow = NoRow
    NoId = NoId
    AttemptsCap = 1
    Store = "prisma"
    Caller = {q1}
INVARIANT CallsFollowPlan
INVARIANT ReportsMatchCalls
INVARIANT ResponseIsLastCall
PROPERTY EveryRequestAnswered
