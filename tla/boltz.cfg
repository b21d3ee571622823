SPECIFICATION FairSpec
CONSTANTS
  s1 = s1  s2 = s2
  Swap <- McSwap
  Instances <- Both
  RevealsTo = {"chain"}
  RestoreAt <- McRestoreAt
  Parallel = FALSE
  QueueCap = 2
INVARIANTS TypeOK OwedIsPending PendingKept
PROPERTIES KeepsPromise KeepsLockupTxid Finishes OwedIsReceived
CHECK_DEADLOCK FALSE
