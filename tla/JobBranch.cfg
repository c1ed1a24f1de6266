SPECIFICATION Spec
CONSTANTS
  None = None
  ProtectTests = TRUE
  ReviewerDiffMustBeEmpty = TRUE
  RebaseBeforeMerge = {TRUE, FALSE}
  PeopleSend = TRUE
  MaxAgentRetries = 1
  MaxCommits = 3
  MaxBase = 1
  MaxHuman = 1
  MaxRewrites = 1
  MaxCrashes = 1
INVARIANTS
  BaselineExcludesOwnWork
PROPERTIES
  FixLeavesTests
  HumanWorkKept
  CheckpointsKept
