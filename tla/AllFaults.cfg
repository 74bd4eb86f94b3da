SPECIFICATION Spec
CONSTANTS
  NBlocks = 4
  LastLen = 1
  BufSize = 2
  WindowSize = 2
  MaxDataFaults = 1
  MaxAckFaults = 2
  MaxDelays = 2
  MaxDisorder = 1
  MaxRetrans = 3
  Failures = TRUE
  OpenFails = TRUE
  MaxWriteFaults = 1
INVARIANTS TypeOK TransferInv WindowOrder  EndsAgree
PROPERTY CopiesWhileReliable
