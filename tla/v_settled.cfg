SPECIFICATION Spec
CONSTANTS
  s1 = s1  s2 = s2
  Swap <- McSwap
  Instances <- OneReverse
  RevealsTo = {"chain", "reverse"}
  RestoreAt <- McRestoreAt
  Parallel = FALSE
  QueueCap = 2
INVARIANT SettledIsReceived
CHECK_DEADLOCK FALSE
