SPECIFICATION PipeSpec
CONSTANTS
  Regs = {0, 1, 2}
  User = {}
  Program <- SmallProgram
INVARIANTS
  OperandTagsRight
  TagTrapExact
  FileRight
  ScoreboardExact
