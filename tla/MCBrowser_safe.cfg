SPECIFICATION BrowserSpec
CONSTANTS
    e1 = e1
    e2 = e2
    Session = {s1, s2}
    Payload = {laptop, service}
    Equipment = {laptop}
    Request = {r1, r2}
    Entry = {e2}
    EntryDay <- MCEntryDay
    None = None
    LastDay = 1
    MaxVersion = 2
    MaxCalls = 2
    MaxBatches = 2
    MaxCalcs = 3
SYMMETRY Symmetry
CHECK_DEADLOCK FALSE
INVARIANTS PostedAsPreviewed AnswersTrue RecognizedOnce CalculationInv
