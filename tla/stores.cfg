SPECIFICATION SpecAll
CONSTANTS
  f = f  a = a  b = b
  f0 = f0  a0 = a0  b0 = b0
  e0 = e0  e1 = e1  i0 = i0  i1 = i1
  External = External  Internal = Internal
  NoBlock = NoBlock  Unconf = Unconf  Absent = Absent
  NoMerge = NoMerge  NoUpdate = NoUpdate
  Tx <- McTx  OutPoint <- McOut  TxOf <- McTxOf  Unblindable <- McOut
  Explicit = {}  Spends <- McSpends  Script <- McScript  ScriptOf <- McScriptOf
  Chain <- McChain  ChainOf <- McChainOf  IndexOf <- McIndexOf
  Height <- Taller  Fork <- McFork  ChainOrder <- McOrder
  BatchSize = 1  ToIndex = 0
  Client = "electrum"
  Options <- AnyStore  CrashPoint <- NoneRemoved
  Local = {a}  Built = {}
  MaxEvents = 3  MaxLocal = 1  MaxDrop = 2  StartHeight = 2  MidScan = FALSE
INVARIANTS TypeOK Reopens RestoresStatus RestoresCache LosesOnlyReturned AddsNoUnspent CoalescesForward UnspentInHistory
