SPECIFICATION Spec
CONSTANTS
    Key = {k1}
    ForeignKeyOK = {k1}
    RowId = {r1}
    NoRow = NoRow
    NoId = NoId
    AttemptsCap = 2
    Store = "prisma"
    Caller = {c1}
PROPERTY SuccessClears
