SPECIFICATION Spec
CONSTANTS
    Collectors = {c1, c2}
    Items = {1, 2, 3}
    MaxFeeds = 3
    FirstBatch = 1
    LaterBatch = 1
    MaxLosses = 1
    MaxPauses = 1
    Extractors = {w1, w2}
    MaxRevision = 2
    MaxClock = 2
    MaxRuns = 3
    Clients = {c1, c2}
    Workspaces = {1, 2}
    Urls = {u1, u2}
    Recipes = {1, 2}
    SeedUrl = u1
    SeedKind = 1
    LegacyUrl = u2
    MaxSubs = 2
    MaxRev = 1
    MaxAsked = 4
    Ids = {1, 2, 3}
    Foreign = {3}
    Textual = {2}
    Versions = {1, 2}
    Appliers = {w1, w2}
    Limit = 2
    Attempts = 2
    Articles = {a1, a2}
    MaxOps = 2
    MaxCalls = 3
    MaxOther = 1
    MaxMoves = 1
    Sessions = {s1, s2}
    Plans = {0, 1, 2}
    MaxNow = 6
    MaxEdits = 4
    Initial = 2
    Views = {"feed", "later", "history"}
    Gap = 2
    Micro = 2
    PageSize = 1
    MaxActs = 3
CHECK_DEADLOCK FALSE
INVARIANTS NothingLost SnapshotExact SubscriptionsAgree CompletedMeansAll NeverDisowned CompletionExact SessionKept ListExact
PROPERTIES VersionsForward
