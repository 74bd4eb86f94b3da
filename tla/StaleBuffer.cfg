SPECIFICATION Spec
CONSTANTS
  NBlocks = 9
  LastLen = 1
  BufSize = 2
  WindowSize = 4
  MaxDataFaults = 6
  MaxAckFaults = 0
  MaxDelays = 0
  MaxDisorder = 0
  MaxRetrans = 3
  Failures = FALSE
  OpenFails = FALSE
  MaxWriteFaults = 0
INVARIANT CopyComplete
