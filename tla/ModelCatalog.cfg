SPECIFICATION BothFairSpec
CONSTANTS
    f1 = f1
    f2 = f2
    Model = {m1}
    Refresher = {r1, r2}
    Scanner = {s1}
    Facts = {f1, f2}
    Listing <- Offers
    NoRow = NoRow
    Unlisted = Unlisted
    MaxChanges = 3
    Reader = {q1, q2}
    Load = {b1, b2, b3}
    NoLoad = NoLoad
    NoValue = NoValue
    MaxVersion = 2
    MaxFaults = 1
INVARIANTS UpdatesHaveRows CacheInOrder
PROPERTIES EventuallyInSync EventuallyCurrent
