SPECIFICATION Spec
CONSTANTS
  aP = aP  aX = aX  aT = aT  aR = aR  aI = aI  aK = aK  None = None
  Asset <- McAsset  Policy = aP  Token = aT  Reissued = aR  Issued = aI  IssuedToken = aK
  Funds <- McFunds  Foreign <- McForeign  Incoming <- McIncoming  Order <- McOrder  MaxTx = 4
  MaxInputs = 6  FeeRate = 1  Scale = 9  DustValue = 1  U64 = 76
INVARIANTS TypeOK Balanced SpendsOnce FeeFits RefusesRightly
INVARIANTS ConflictsAsMeant Relayable BumpPaysSame
CHECK_DEADLOCK FALSE
