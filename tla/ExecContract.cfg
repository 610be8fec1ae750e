SPECIFICATION Spec
CONSTANTS
    m1 = m1
    m2 = m2
    p1 = p1
    p2 = p2
    Model = {m1, m2}
    Provider = {p1}
    Key = {m1, m2, p1}
    ProviderOf <- SharedProvider
    Registered = {p1}
    Plans <- EitherOrder
    MaxAttempts = 2
    RetryOn = {"overload", "outage", "thrown"}
    MaxDbFaults = 0
    ForeignKeyOK = {m1, m2, p1}
    RowId = {r1, r2, r3}
    NoRow = NoRow
    NoId = NoId
    AttemptsCap = 1
    Store = "prisma"
    Caller = {q1}
INVARIANT LogTellsAnswer
PROPERTY Implements
SYMMETRY Symmetry
