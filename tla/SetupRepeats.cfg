SPECIFICATION SetupSpec
CONSTANTS
  MaxRetrans = 2
  Burst = 1
  MaxUnderWay = 1
  MaxFaults = 1
  MaxDuplicates = 1
INVARIANTS SetupTypeOK OnlyInitForks AnswerIsCurrent Attempts
