SPECIFICATION FairSpec
CONSTANTS
  MinDepth = 2  SeqLocktime = 3  BtcLocktime = 4  Margin = 1  Lag = 1  Delay = 2
  MaxBtc = 5  MaxSeq = 5  MaxReorg = 2
INVARIANTS TypeOK LegsBound SurvivesShallow ClaimFirst
PROPERTIES Settles
CHECK_DEADLOCK FALSE
