SPECIFICATION CallSpec
CONSTANTS
  NCores = 1
  Bits = {1, 2}
  DebugBit = 1
  IntLines = {}
  InitVal = {1}
  NMem = 0
  NIO = 0
  Div = 1
  ResetCycles = 2
  MaxTime = 0
  Programs <- CallPrograms
INVARIANT PollGetsAnswer
