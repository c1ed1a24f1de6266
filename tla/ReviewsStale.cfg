SPECIFICATION MCSpec
CONSTANTS
  NumJobs = 1
  MaxParallelJobs = 2
  Once = TRUE
  MaxWrites = 2
  MaxStarts = 1
  Votes = 3
  MinConfirm = 2
  Threshold = 2
  SpecGate = TRUE
  CodeGate = TRUE
  MaxDesignReviewRounds = 2
  MaxCodeReviewRounds = 3
  Reports <- MCReports
  MaxReviews = 4
  MaxSetbacks = 0
  Changes <- MCChanges
  Budget = 3
  Huge <- MCHuge
INVARIANTS
  PassedFindingsHandedOn
