SPECIFICATION Spec
CONSTANTS
  terminal = terminal
  reviewer = reviewer
  browser = browser
  People = {terminal, reviewer, browser}
  Surface <- MCSurface
  Gates = {"scope", "release"}
  CanExpire = TRUE
  MaxRows = 2
  MaxCrashes = 1
INVARIANTS
  ActedOnce
PROPERTIES
  OneDecisionPerGate
  CancelIsFinal
  ResumeClearsNoLaterHold
