SPECIFICATION FairSpec
CONSTANTS
    vk = vk
    org = org
    today = today
    tomorrow = tomorrow

    Key = {vk}
    Counter = {org, today, tomorrow, ip}
    Minute = 1
    Day = 1
    MaxTime = 1
    Limits <- OnlyOrdinary
    DemoLimits <- Demo
    IpLimit = 1
    Ip = ip
    MaxSecrets = 2
    MaxPatches = 1
    MaxFaults = 1
    Request = {q1, q2}
    ReqId = {i1}
    NoReqId = NoReqId
    Org = {org}
    NoOrg = NoOrg
    OrgLimit = 1
    DemoOf <- OwnDemo
    DemoRequests = 2
    Answers = {1}
    MaxCalls = 3
INVARIANTS RequestsInOrder OvershootBounded PendingExplained LogWithinUsage
PROPERTIES RequestsAnswered
CHECK_DEADLOCK FALSE
