SPECIFICATION FairSpec
CONSTANTS
  n1 = n1  n2 = n2  d1 = d1  d2 = d2  sig = sig  reg = reg  tok = tok  pol = pol
  None = None
  Name <- McName  Desc <- McDesc  Signer = {sig}  Asset = {reg}  Token <- McToken  Policy = pol
  EarlyClients = FALSE
  MaxTip = 1  MaxRequest = 3  MaxCall = 2  MaxStart = 2
INVARIANTS TypeOK Restarts RestartRestores
PROPERTIES ScanSees ScanEnds StopEnds
CHECK_DEADLOCK FALSE
