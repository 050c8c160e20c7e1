SPECIFICATION DirSpec
CONSTANTS
  NFatEnt = 6
  EPF = 3
  SS = 2
  CSize = 1
  NFats = 1
  EOC = 1000
  Bad = 2000
  Handles = {h1}
  Paths <- AllPaths
  Labels = {"d", ""}
  Modes <- OpenModes
  Bytes = {1}
  Counts = {1}
  Offsets = {1}
  MaxSize = 4
  MaxCalls = 6
  FaultKinds = {}
  MaxIo = 0
INVARIANTS VolumeSound CwdNamed ListingComplete
PROPERTY ImplementsFileStore
