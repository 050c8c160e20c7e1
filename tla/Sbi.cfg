SPECIFICATION MCSpec
CONSTANTS
  Harts = {0, 1}
  Msgs = {m1, m2, m3}
  NULL = NULL
  MaxChars = 2
CHECK_DEADLOCK FALSE
INVARIANTS
  ResponseSignalled
  QueuesSound
  CharsInOrder
  TimerKept
  BootOrder
PROPERTIES
  ResponseReceived
  CharDelivered
