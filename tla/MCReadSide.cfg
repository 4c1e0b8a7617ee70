SPECIFICATION Spec
CONSTANTS
  Id = {1, 2, 3}
  Writer = {w1, w2}
  User = {u1, u2}
  PageSize = 1
  Window = 0
  MaxTime = 1
  Seeded = {1, 2}
  RunAhead = 1
SYMMETRY Symmetry
CHECK_DEADLOCK FALSE
INVARIANTS
  TypeOK
  WalkMissesOnlyAfterRetreat
  AuditWalkMissesOnlyTies
  TotalAgreesWithPage
  RevisionsCoverItem
  SummaryGrows
  AuditOrderKeepsRealTime
