SPECIFICATION Spec
CONSTANTS
  c1 = c1
  c2 = c2
  Component = {c1, c2}
  eRT <- OnlyFirst
  eMG <- OnlySecond
  Attempts = 1
  LoopCounts = {1}
  GraceTicks = {0}
  MaxRestarts = 0
PROPERTIES
  NotificationEndsWait
