SPECIFICATION StoresSpec
CONSTANTS
  local = local  managed = managed  archive = archive  mirror = mirror
  c1 = c1  c2 = c2
  Idle = Idle
  Process = {c1, c2}
  Backend = {local, managed, archive, mirror}
  Local = local
  Driver <- MCDriver
  Writable = {local, managed, mirror}
  AdoptTarget = {archive}
  d1 = d1  d2 = d2  d3 = d3
  Evidence = {d1, d2, d3}
  MaxMoves = 3
  p1 = p1  p2 = p2
  Program = {p1, p2}
  Starts = {0, 6, 18, 31}
  Complaint <- MCComplaint
  Rate = {1, 2}
  Recorded = {1}
  Line = {1, 2, 3}
  LinkOf <- MCLinkOf
  Journals = {1, 2}
  MaxRestores = 1
SYMMETRY StoresSymmetry
CHECK_DEADLOCK FALSE
INVARIANTS StorageInv AlwaysServable RelocationInv MigrationsInv
