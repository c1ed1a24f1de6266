SPECIFICATION Spec
CONSTANTS
  ScopingEnabled = TRUE
  HumanGates = {}
  OnNoDevice = "skip"
  RebaseBeforeMerge = FALSE
  MaxScopeRounds = 1
  MaxDesignReviewRounds = 2
  MaxCodeReviewRounds = 3
  MaxFixAttempts = 2
  MaxFlakeRetries = 1
  MaxReleaseRetries = 1
  MaxAgentRetries = 1
  MaxAgentInvocations = 14
  VerifyVotes = 2
  MaxFindings = 2
  CanExpire = TRUE
  MaxResumes = 0
  MaxRejects = 0
  MaxCrashes = 1
PROPERTIES
  AgeLimitStops
  ComesToRest
