SPECIFICATION FileSpec
CONSTANTS
  NFatEnt = 5
  EPF = 3
  SS = 2
  CSize = 2
  NFats = 2
  EOC = 1000
  Bad = 2000
  Handles = {h1, h2}
  Paths <- FilePaths
  Labels = {}
  Modes <- WriteModes
  Bytes = {1, 2}
  Counts = {1, 4}
  Offsets = {0, 3}
  MaxSize = 6
  MaxCalls = 6
  FaultKinds = {}
  MaxIo = 0
SYMMETRY Twins
INVARIANTS VolumeSound NothingLost
PROPERTY ImplementsFileStore
