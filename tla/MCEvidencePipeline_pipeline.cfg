SPECIFICATION Spec
CONSTANTS
  e1 = e1  e2 = e2  w1 = w1  w2 = w2
  Idle = Idle
  Evidence = {e1, e2}
  Worker = {w1, w2}
  Flagged = {e1}
  Unreadable = {e1}
  Reviewed = {e2}
  Receipted = {e1}
  MaxVersion <- Versions
SYMMETRY Workers
CHECK_DEADLOCK FALSE
INVARIANTS PipelineInv AnswerTrue ClosedSettled
