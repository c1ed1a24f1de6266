SPECIFICATION Spec
CONSTANTS
  MaxRetries = 1
  OutCap = 2
  ErrCap = 1
  PipeDepth = 1
  MaxSaid = 3
  MaxSteps = 1
  Spoken <- MCSpoken
INVARIANTS
  CaptureIsHonest
  Quiescent
  StepsTakenUp
  TranscriptNeverSuspends
PROPERTIES
  Ends
CHECK_DEADLOCK FALSE
