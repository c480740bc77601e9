CONSTANTS
    Idle = Idle
    a = a  b = b  t1 = t1  t2 = t2  p1 = p1  p2 = p2
    Connection = {a, b}
    Transaction = {t1}
    Party = {p1, p2}
    MaxVersion = 4
SPECIFICATION Spec
CHECK_DEADLOCK FALSE
PROPERTIES ClosedRowsFrozen
