SPECIFICATION Spec
CONSTANTS
  Decision = {d1}
  Request = {r1, r2, r3}
  Fields = {f1, f2}
  Blank = blank
  Callers = {"admin"}
  RunAhead = 0
SYMMETRY Symmetry
CHECK_DEADLOCK FALSE
INVARIANTS
  HistoryFollowsGraph
  AnswersHonest
  SnapshotCoversItem
  AuditTruthful
PROPERTY HistoryImmutable
