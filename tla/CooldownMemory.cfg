SPECIFICATION FairSpec
CONSTANTS
    Key = {k1,k2}
    ForeignKeyOK = {k1,k2}
    RowId = {r1,r2}
    NoRow = NoRow
    NoId = NoId
    AttemptsCap = 2
    Store = "memory"
    Caller = {c1,c2}
INVARIANT TypeOK
INVARIANT HalfOpenOwed
INVARIANT ExpiredKeyAdmits
PROPERTY ProbeResolves
