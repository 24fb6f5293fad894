SPECIFICATION FairSpec
CONSTANTS
  c1 = c1
  c2 = c2
  Component = {c1, c2}
  eRT <- Both
  eMG <- Nothing
  Attempts = 1
  LoopCounts = {1}
  GraceTicks = {0}
  MaxRestarts = 1
PROPERTIES
  RequestIsDecided
