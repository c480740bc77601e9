SPECIFICATION Spec
CONSTANTS
  c1 = c1  c2 = c2  d1 = d1  d2 = d2  q1 = q1  q2 = q2
  hours = hours  empty = empty  r1 = r1  r2 = r2
  Idle = Idle  NoEvidence = NoEvidence
  Connection = {c1, c2}
  Draft = {d1, d2}
  Period = {q1, q2}
  Content = {hours, empty}
  Incomplete = {empty}
  Evidence = {r1, r2}
  Total <- MCTotal
  Number <- MCNumber
  PeriodOf <- MCPeriodOf
  MaxVersion = 3
  MaxTemplates = 3
SYMMETRY Symmetry
CHECK_DEADLOCK FALSE
INVARIANTS ActiveIsNewest IssuedMatches
PROPERTIES StatusForward
