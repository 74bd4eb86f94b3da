SPECIFICATION Spec
CONSTANTS
  NBlocks = 4
  LastLen = 2
  BufSize = 2
  WindowSize = 3
  MaxDataFaults = 1
  MaxAckFaults = 0
  MaxDelays = 0
  MaxDisorder = 0
  MaxRetrans = 2
  Failures = FALSE
  OpenFails = FALSE
  MaxWriteFaults = 0
INVARIANT CopyPrefix
