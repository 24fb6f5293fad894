SPECIFICATION Spec
CONSTANTS
  c1 = c1
  c2 = c2
  Component = {c1, c2}
  eRT <- OnlyFirst
  eMG <- OnlySecond
  Attempts = 2
  LoopCounts = {0, 1}
  GraceTicks = {0, 1}
  MaxRestarts = 1
INVARIANTS
  TypeOK
  SafeToReset
  StatusIsHonest
  ReenabledWhileWaiting
  SafetyInv
PROPERTIES
  KeepsContract
  DecisionComesNearer
  OnlyEventsDelay
