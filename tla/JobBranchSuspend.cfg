SPECIFICATION Spec
CONSTANTS
  None = None
  ProtectTests = TRUE
  ReviewerDiffMustBeEmpty = TRUE
  RebaseBeforeMerge = {TRUE}
  PeopleSend = FALSE
  MaxAgentRetries = 1
  MaxCommits = 3
  MaxBase = 1
  MaxHuman = 0
  MaxRewrites = 0
  MaxCrashes = 0
PROPERTY
  TestsProtected
CHECK_DEADLOCK FALSE
