SPECIFICATION Spec
CONSTANTS
  n1 = n1  n2 = n2  d1 = d1  d2 = d2  sig = sig  reg = reg  tok = tok  pol = pol
  None = None
  Name <- McName  Desc <- McDesc  Signer = {sig}  Asset = {reg}  Token <- McToken  Policy = pol
  EarlyClients = FALSE
  MaxTip = 0  MaxRequest = 3  MaxCall = 0  MaxStart = 1
INVARIANT VolatileForgotten
CHECK_DEADLOCK FALSE
