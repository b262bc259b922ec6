SPECIFICATION FairSpec
CONSTANTS
  Callers = {c1, c2}
  Endpoints = 2
  maxRetriesPerURL = 2
  maxRetries = 2
  failureThreshold = 2
  MaxConcurrent = 1
  RotationLimit = 0
  MaxCalls = 3
CHECK_DEADLOCK FALSE
INVARIANTS TypeOK ExhaustedMeansAll
PROPERTIES EveryCallAnswered
