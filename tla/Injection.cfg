SPECIFICATION Spec
CONSTANTS
  ByteBase = 4
  SeqLen = 2
  Unset = Unset
  Junk = Junk
  DropLists <- SmallLists
  FlipLists <- FewLists
  Rates = {0, 1}
  Seeds = {7}
  SeqNums = {0, 6}
  Payloads <- SmallPayloads
  Flags = {0, 3}
  NumberBase = 4
  MaxDraw = 2
  StartSecond = 20
  MaxSeconds = 1
  MaxProcesses = 2
  MaxSends = 2
INVARIANTS InjectionTypeOK AcceptedIsOriginal ListedAreLost Configured
