CONSTANTS
    Idle = Idle
    a = a  b = b  t1 = t1  p1 = p1  p2 = p2
    Connection = {a, b}
    Transaction = {t1}
    Party = {p1, p2}
    MaxVersion = 4
    i1 = i1  i2 = i2  j1 = j1  j2 = j2
    Importer = {i1, i2}
    Movement <- MCMovement
    Exports <- MCExports
    Legacy <- MCLegacy
    Journal = {j1, j2}
    Fits <- MCFits
    Reviewable <- MCReviewable
    Absent = Absent
    Unmatched = Unmatched
    MaxImports = 3
    Line = {1, 2}
    Content = {"abroad", "moved"}
    Of <- MCOf
    Abroad = {"abroad"}
    Books <- MCBooks
    Remark = {"amount", "missing"}
    Provisional = {"amount"}
    Reports <- MCReports
    Reconciled = 1
    Inventories = {{}, {1}}
    None = None
    MaxMigrations = 2
    MaxByHand = 1
SPECIFICATION ConnectionsSpec
SYMMETRY ConnectionSymmetry
CHECK_DEADLOCK FALSE
INVARIANTS FiledIsClosed ReportedIsRecorded StatementsInv HistoryInv
PROPERTIES QuestionsStand
