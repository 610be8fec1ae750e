SPECIFICATION Spec
CONSTANTS
    m1 = m1
    m2 = m2
    p1 = p1
    p2 = p2
    Model = {m1}
    Provider = {p1}
    Key = {m1, p1}
    ProviderOf <- OneProvider
    Registered = {p1}
    Plans <- OneModel
    MaxAttempts = 1
    RetryOn = {"overload", "outage", "thrown"}
    MaxDbFaults = 0
    ForeignKeyOK = {m1}
    RowId = {r1, r2}
    NoRow = NoRow
    NoId = NoId
    AttemptsCap = 1
    Store = "prisma"
    Caller = {q1, q2}
INVARIANT ModelProbeOwed
SYMMETRY Symmetry
