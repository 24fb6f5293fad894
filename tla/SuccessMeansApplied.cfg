SPECIFICATION Spec
CONSTANTS
  N = 2
  Default <- Defaults
  Requested = {1, 3}
  IntModulus = 4
  LongModulus = 8
  None = None
PROPERTIES
  SuccessMeansApplied
