SPECIFICATION FaultSpec
CONSTANTS
  NFatEnt = 5
  EPF = 3
  SS = 2
  CSize = 1
  NFats = 2
  EOC = 1000
  Bad = 2000
  Handles = {h1, h2}
  Paths <- FilePaths
  Labels = {}
  Modes <- WriteModes
  Bytes = {1, 2}
  Counts = {1, 3}
  Offsets = {0, 3}
  MaxSize = 3
  MaxCalls = 5
  FaultKinds = {"cut", "err"}
  MaxIo = 12
SYMMETRY Twins
INVARIANTS Durable VolumeSound
PROPERTY ClosedIsSaved
