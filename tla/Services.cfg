SPECIFICATION Spec
CONSTANTS
    Calls = {c1, c2}
    Passwords = {1, 2}
    Invites = {i1}
    Resets = {r1}
    MaxAuth = 2
    MaxSessions = 2
    Limit = 1
    Minute = 2
    MaxNow = 2
    Owner = own
    Guest = guest
    Pages = {1, 2, 3}
    Names = {"a", "b", "Subscriptions"}
    Root = "Subscriptions"
    Moved = 1
    Other = 2
    First = "a"
    Second = "b"
    MaxRev = 7
    MaxSent = 3
    MaxLost = 1
    Windows = {w1, w2}
    MaxTexts = 2
    MaxPageRev = 3
    MaxOps = 2
    Pollers = {w1, w2}
    Readers = {w1, w2}
    Archived = 2
    MaxMessages = 3
    MaxVersion = 3
    MaxUpdates = 2
    Batch = 1
    MaxLosses = 1
    MaxFailures = 1
    MaxPasses = 1
    Requests = {r1, r2}
    Endpoints = {1, 2, 3}
    MaxRequests = 4
    Home = home
    Elsewhere = elsewhere
    Paths = {1, 2}
    MaxAddresses = 2
    MaxHops = 3
    MaxBody = 1
    Runners = {p1, p2}
    MaxRows = 3
    Chunk = 2
    MaxRuns = 3
    Inserted = {"q", "b", "}"}
    MaxUnits = 2
    MaxDelta = 2
    MaxReply = 20
    Letters = {"a", "b"}
    MaxText = 3
    MaxPart = 2
    Ingest = {"i1"}
    Loops = {"history"}
    Ai = {"definitions", "chat"}
    Slots = 1
    Icons = 2
    Concurrency = 2
    MaxPanics = 1
CHECK_DEADLOCK FALSE
INVARIANTS SignInSound PagesReachable AppliedNotRefused TypedTextKept ChannelKept RecoveryFair RequestKept OneRelease ReplyExact AppliedExactly OrderlyEnd
PROPERTIES NoStaleWrite
