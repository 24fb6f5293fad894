SPECIFICATION Spec
CONSTANTS
  DEFAUT_CRITICAL_WAIT_TIME = 2
  Stored = {0, 1, 3, 4, 9, 8191}
  IntModulus = 128
  LongModulus = 8192
INVARIANTS
  NeverTooLong
  WaitInv
PROPERTIES
  WaitsInFull
