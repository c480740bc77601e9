SPECIFICATION Spec
CONSTANTS
  Release = {1, 2, 3}
  Schema <- MCSchema
  First = 1
  w1 = w1  w2 = w2
  Write = {w1, w2}
  None = None
  MaxScripts = 3
CHECK_DEADLOCK FALSE
SYMMETRY Writes
INVARIANTS ReleasesInv
PROPERTIES AcceptedServes FailureUndone
