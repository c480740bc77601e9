CONSTANTS
    None = None  m216 = m216
    q1 = q1  q2 = q2  q3 = q3  q4 = q4  d1 = d1  d2 = d2  t1 = t1  t2 = t2
    c1 = c1  c2 = c2  i1 = i1  i2 = i2
    Period = {q1, q2}
    Document = {d1}
    Transaction = {t1, t2}
    Party = {c1}
    Issue = {}
    Form = {}
    LastDay = 0
    DaysOf <- MCOneDay
    IssuePeriod <- MCIssuePeriod
    IssueSubject <- MCIssueSubject
    WizardIssue = {}
    IrnrIssue = {}
    IrnrForm = m216
    Imported = {d1}
    BookLine = {t2}
    RateInput = {"eur", "unsourced", "official", "derived"}
    TreatmentInput = {"other"}
    SnapshotInput = {"final"}
    MaxSnapshots = 1
SPECIFICATION Spec
CHECK_DEADLOCK FALSE
INVARIANTS TypeOK AmendmentAcyclic
PROPERTIES ClosedFrozen SettledFrozen
