SPECIFICATION Spec
CONSTANTS
  N = 2
  Default <- Defaults
  Requested = {1}
  IntModulus = 4
  LongModulus = 4
  None = None
PROPERTIES
  FaultHasNoEffect
