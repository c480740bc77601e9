CONSTANTS
    None = None  m216 = m216
    q1 = q1  q2 = q2  q3 = q3  q4 = q4  d1 = d1  d2 = d2  t1 = t1  t2 = t2
    c1 = c1  c2 = c2  i1 = i1  i2 = i2
    Period = {q1}
    Document = {d1}
    Transaction = {t1}
    Party = {c1}
    Issue = {i1, i2}
    Form = {m216}
    LastDay = 0
    DaysOf <- MCOneDay
    IssuePeriod <- MCOnePeriod
    IssueSubject <- MCIssueSubject
    WizardIssue = {i1}
    IrnrIssue = {i2}
    IrnrForm = m216
    Imported = {d1}
    BookLine = {}
    RateInput = {"eur", "derived"}
    TreatmentInput = {"invoice"}
    SnapshotInput = {"baseline"}
    MaxSnapshots = 1
SPECIFICATION Spec
CHECK_DEADLOCK FALSE
INVARIANTS ClosedClean
