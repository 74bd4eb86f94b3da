SPECIFICATION FairSetup
CONSTANTS
  MaxRetrans = 2
  Burst = 1
  MaxUnderWay = 1
  MaxFaults = 1
  MaxDuplicates = 0
INVARIANT OneChildPerSocket
PROPERTIES
  HandshakeEnds
  AbandonedEnds
