SPECIFICATION FairSpec
CONSTANTS
    Workers = {w1}
    Ops = {o1, o2}
    Amount = 2
    Actuals = {1}
    Unknown = Unknown
    Limit = 3
    MaxChats = 1
    MaxDay = 1
    MaxClaims = 2
    MaxEdits = 0
    Faults = 1
    Ingest = {"i1"}
    Loops = {"history"}
    Ai = {"definitions", "chat"}
    Slots = 1
    Page = 1
    Concurrency = 1
    MaxPanics = 1
CHECK_DEADLOCK FALSE
PROPERTIES CallsEnd Stops Served
