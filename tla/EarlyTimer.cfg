SPECIFICATION Spec
CONSTANTS
  NBlocks = 5
  LastLen = 1
  BufSize = 2
  WindowSize = 2
  MaxDataFaults = 0
  MaxAckFaults = 0
  MaxDelays = 1
  MaxDisorder = 0
  MaxRetrans = 2
  Failures = FALSE
  OpenFails = FALSE
  MaxWriteFaults = 0
INVARIANT RetainedUntilAcked
