SPECIFICATION SdSpec
CONSTANTS
  Types = {"MMC", "SD1", "SD2", "SDHC"}
  NSec = 3
  Data = {d1, d2}
  MaxCount = 2
  BL = 4
  Timeout = 4
  W = 4
  Wakes = {1, 2, 4}
  FaultKinds = {"error", "echo", "token", "reject", "stuck", "gone", "pulled", "busy"}
  MaxAt = 6
SYMMETRY Contents
VIEW Driver
CHECK_DEADLOCK FALSE
INVARIANTS BusFree AddressesRight InitialisedIsAwake
PROPERTIES  ImplementsBlockStore
