SPECIFICATION Spec
CONSTANTS
  NumJobs = 2
  MaxParallelJobs = 2
  Once = FALSE
  MaxWrites = 3
  MaxStarts = 1
PROPERTY
  WritesFollow
