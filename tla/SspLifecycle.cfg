SPECIFICATION Spec
CONSTANTS
  Level = {0, 1}
  Lowest = 0
  Invalid = Invalid
  MaxEngaged = 2
INVARIANTS
  TypeOK
  CrashHasACause
  WholeOrNothing
  GreenIsRegistered
  LoggingInForce
  GreenHasLoaded
  LifecycleInv
