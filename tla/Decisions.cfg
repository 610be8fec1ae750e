SPECIFICATION Spec
CONSTANTS
    Key = {k}
    Counter = {o}
    Minute = 2
    Day = 3
    MaxTime = 4
    Limit = 2
    MaxRefused = 1
    Upstream = {"a", "b", "c", "d", "openrouter/free"}
    Slug = {"openrouter", "other"}
    OpenRouter = "openrouter"
    FreeRouter = "openrouter/free"
    HashRank <- MCHashRank
    AttemptsLimit = 3
    BackoffLimit = 10
    DefaultAttempts = 2
    DefaultInitial = 2
    DefaultMax = 5
    DefaultJitter = 3
    Asks <- MCAsks
    Executed <- MCExecuted
    Policies <- MCPolicies
    Answers <- MCAnswers
    Recorder = {r1, r2}
    Durations = {1, 30}
    MaxSamples = 4
    Candidate = {ca, cb}
    Client = {w1, w2}
    Streak = 2
    Samples = 3
    MaxRows = 3
    MaxUnwritten = 1
    StreamId = {s1}
    Texts <- MCTexts
    Call = {c1}
    MaxVersion = 2
    MaxErrors = 2
    Conversation = {pa, pb}
    MaxTurns = 3
    MaxTroubles = 1
INVARIANTS StreamsWhole QuotasKept RoutableIsListed PlanInOrder WalkInOrder JudgedByDeeds ShownIsCurrent ConversationsWhole
SYMMETRY ConversationsAlike
CHECK_DEADLOCK FALSE
