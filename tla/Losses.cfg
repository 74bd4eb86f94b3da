SPECIFICATION FairSpec
CONSTANTS
  NBlocks = 7
  LastLen = 1
  BufSize = 2
  WindowSize = 3
  MaxDataFaults = 3
  MaxAckFaults = 2
  MaxDelays = 0
  MaxDisorder = 0
  MaxRetrans = 3
  Failures = FALSE
  OpenFails = FALSE
  MaxWriteFaults = 0
INVARIANTS WindowBound RetainedUntilAcked ResentExact FlushReady
PROPERTIES SlidesForward ImplementsCopy Termination Delivery
