SPECIFICATION Spec
CONSTANTS
  Record = {x1}
  Request = {r1, r2}
  Fields = {f1, f2}
  Blank = blank
  Callers = {"operator", "admin"}
  RunAhead = 0
SYMMETRY Symmetry
CHECK_DEADLOCK FALSE
INVARIANTS
  TypeOK
  SuccessExclusive
  ReplyShowsWrite
PROPERTIES
  ImplementsRecordService
  NoStaleCopyWritten
