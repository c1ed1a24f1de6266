SPECIFICATION Spec
CONSTANTS
  ScopingEnabled = TRUE
  HumanGates = {"scope", "spec", "code"}
  OnNoDevice = "wait"
  RebaseBeforeMerge = TRUE
  MaxScopeRounds = 1
  MaxDesignReviewRounds = 2
  MaxCodeReviewRounds = 2
  MaxFixAttempts = 1
  MaxFlakeRetries = 1
  MaxReleaseRetries = 1
  MaxAgentRetries = 1
  MaxAgentInvocations = 10
  VerifyVotes = 2
  MaxFindings = 2
  CanExpire = FALSE
  MaxResumes = 1
  MaxRejects = 1
  MaxCrashes = 1
INVARIANTS
  AgentBudget
  
  GatesInOrder
  
  RepairIsDirected
  ShippedOnce
