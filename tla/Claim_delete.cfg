SPECIFICATION Spec
CONSTANTS
  Decision = {d1}
  Request = {r1, r2}
  Fields = {f1, f2}
  Blank = blank
  Callers = {"operator", "admin"}
  RunAhead = 0
SYMMETRY Symmetry
CHECK_DEADLOCK FALSE
INVARIANT OnlyDraftsDeleted
