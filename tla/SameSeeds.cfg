SPECIFICATION Spec
CONSTANTS
  ByteBase = 4
  SeqLen = 2
  Unset = Unset
  Junk = Junk
  DropLists <- FewLists
  FlipLists <- FewLists
  Rates = {1}
  Seeds = {7}
  SeqNums = {6}
  Payloads <- OnePayload
  Flags = {3}
  NumberBase = 4
  MaxDraw = 1
  StartSecond = 20
  MaxSeconds = 1
  MaxProcesses = 3
  MaxSends = 0
INVARIANT SeedsDiffer
