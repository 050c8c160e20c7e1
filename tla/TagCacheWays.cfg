SPECIFICATION Spec
CONSTANTS
  Ids = {a1}
  Wb = wb
  NoId = none
  Vals = {x}
  InitVal = x
  Junk = junk
  Beats = 2
  RowBlocks = 1
  NSets = 1
  Ways = {w1, w2}
  Tags = {0, 1, 2}
  DramTags = {1}
  ReqBlocks <- ThreeLines
  AcqKinds = {"Get", "Put"}
INVARIANTS TypeOK OneWayPerLine
