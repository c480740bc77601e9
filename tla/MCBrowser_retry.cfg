SPECIFICATION BrowserFairSpec
CONSTANTS
    e1 = e1
    e2 = e2
    Session = {s1}
    Payload = {laptop}
    Equipment = {laptop}
    Request = {r1}
    Entry = {e1}
    EntryDay <- MCEntryDay
    None = None
    LastDay = 1
    MaxVersion = 2
    MaxCalls = 2
    MaxBatches = 2
    MaxCalcs = 2
PROPERTIES
    EventuallyTold QueuedHasItsTurn
CHECK_DEADLOCK FALSE
