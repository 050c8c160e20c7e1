SPECIFICATION SharedSpec
CONSTANTS
  NCores = 2
  Bits = {1}
  DebugBit = 1
  IntLines = {1}
  InitVal = {1}
  NMem = 2
  NIO = 1
  Div = 3
  ResetCycles = 2
  MaxTime = 1
  Programs <- SharedPrograms
INVARIANTS TypeOK CopiesAgree TagCtrlAgrees NoWordLost TimerNotEarly
PROPERTY CommitTakesRegisters
