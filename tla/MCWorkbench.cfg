SPECIFICATION Spec
CONSTANTS
  Id = {1}
  Roles = {"viewer", "operator", "admin"}
  Task = {k1, k2}
  MaxVersion = 2
SYMMETRY Symmetry
INVARIANTS
  RefusalHasCause
  StaleListFlagged
  LoadingOnlyWhileWaiting
PROPERTY ConfirmedMoveIsShownMove
