SPECIFICATION Spec
CONSTANTS
  Ids = {a1, a2}
  Wb = wb
  NoId = none
  Vals = {x, y}
  InitVal = x
  Junk = junk
  Beats = 2
  RowBlocks = 2
  NSets = 1
  Ways = {w1}
  Tags = {0, 1}
  DramTags = {1}
  ReqBlocks <- TwoLines
  AcqKinds = {"Get"}
INVARIANTS Coherent AckAccepted BurstDiscipline ControlInv
PROPERTY ImplementsTaggedMemory
SYMMETRY Symmetry
