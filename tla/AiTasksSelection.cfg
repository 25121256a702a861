CONSTANTS
    Workers = {w1, w2}
    Ops = {o1, o2}
    Kinds = {"terms", "text"}
    Limit = 1
    MaxJobs = 2
    MaxRevision = 2
    MaxClaims = 2
    MaxDay = 2
    Faults = 1
    MaxText = 2
    MaxProfile = 2
    MaxLeases = 3
    MaxPublish = 2
    MaxRecord = 3
    Articles = {a1, a2}
    InitialArticles = 1
    Batch = 1
    MaxChanges = 2

SPECIFICATION SelectionSpec
CHECK_DEADLOCK FALSE
PROPERTIES
    SelectionMade
