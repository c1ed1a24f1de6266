SPECIFICATION Spec
CONSTANTS
  terminal = terminal
  reviewer = reviewer
  browser = browser
  People = {terminal, browser}
  Surface <- MCSurface
  Gates = {"scope"}
  CanExpire = FALSE
  MaxRows = 2
  MaxCrashes = 0
PROPERTIES
  FormsAreFresh
