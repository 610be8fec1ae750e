SPECIFICATION Spec
CONSTANTS
    Key = {}
    Counter = {}
    Minute = 1
    Day = 1
    MaxTime = 1
    User = {u1, u2}
    SessionId = {s1, s2}
    NoUser = NoUser
    Caller = {w1, w2}
    FailedLimit = 2
    Lockout = 1
    SessionTtl = 2
    MaxWrong = 2
    MaxAdmin = 2
    Operator = {w1, w2}
    Deployment = {"production", "development"}
    MaxOperations = 4
    MaxKeyRows = 4
    MaxDefects = 1
    Name = {1, 2, 3}
    Editor = {w1, w2}
    MaxEdits = 4
    WithEditors = TRUE
    Runner = {w1, w2}
    HoursPerDay = 2
    MaxHours = 4
    MaxLogs = 2
    MaxUpsets = 1
    Checker = {w1, w2}
    AlertDay = 2
    Limit = 1
    Rule = {x1, x2, x3}
    Unknown = {x2}
    Evaluator = {w1, w2}
    MaxHits = 1
    MaxTrouble = 1
    Retention = {0, 1}
    MaxClock = 3
    MaxUse = 1
    MaxEvents = 1
    MaxFailures = 1
    HealthCheck = {w1, w2}
    FailureCooldown = 1
    MaxTicks = 4
    MaxChecks = 4
SYMMETRY Symmetry
INVARIANTS AccountsInOrder ProvidersInOrder OneActiveInOrder UsageIsTrue RulesInOrder HealthInOrder
PROPERTIES AlertsKept
CHECK_DEADLOCK FALSE
