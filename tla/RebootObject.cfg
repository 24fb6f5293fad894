SPECIFICATION Spec
CONSTANTS
  None = None
INVARIANTS
  TypeOK
  StagedAgrees
  ReadStaysTrue
  RequestInv
PROPERTIES
  SuccessMeansAsked
  KeepsLatch
