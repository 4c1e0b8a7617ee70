SPECIFICATION Spec
CONSTANTS
  Tab = {t1, t2}
  LoginRole = "admin"
INVARIANTS
  OverlayWhileLoggingIn
  TokenChangedByAnotherTab
  PageNeedsRank
PROPERTIES
  LogoutAsksAgain
  GuardDecides
