SPECIFICATION Spec
CONSTANTS
  POLL_SET_SIZE = 4
  OPEN_MAX = 6
  Inherited <- SmallSets
  MaxAttempts = 4
  HangsUp = FALSE
INVARIANTS PollSetTypeOK InTable PollTellsReady FewDescriptors
