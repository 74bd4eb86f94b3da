SPECIFICATION Spec
CONSTANTS
  NBlocks = 5
  LastLen = 1
  BufSize = 2
  WindowSize = 3
  MaxDataFaults = 0
  MaxAckFaults = 3
  MaxDelays = 0
  MaxDisorder = 0
  MaxRetrans = 3
  Failures = FALSE
  OpenFails = FALSE
  MaxWriteFaults = 0
INVARIANT NoEmptySend
