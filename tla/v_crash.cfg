SPECIFICATION SpecAll
CONSTANTS
  f = f  a = a  b = b
  f0 = f0  a0 = a0  b0 = b0
  e0 = e0  e1 = e1  i0 = i0  i1 = i1
  External = External  Internal = Internal
  NoBlock = NoBlock  Unconf = Unconf  Absent = Absent
  NoMerge = NoMerge  NoUpdate = NoUpdate
  Tx <- McTx  OutPoint <- McOut  TxOf <- McTxOf  Unblindable <- McOut
  Explicit = {}  Spends <- McSpends  Script <- McScript  ScriptOf <- McScriptOf
  Chain <- McChain  ChainOf <- McChainOf  IndexOf <- McIndexOf
  Height <- McHeight  Fork <- McFork  ChainOrder <- McOrder
  BatchSize = 1  ToIndex = 0
  Client = "electrum"
  Options <- WithStores  CrashPoint <- InRemoval
  Local = {a}  Built = {}
  MaxEvents = 3  MaxLocal = 0  MaxDrop = 1  StartHeight = 0  MidScan = FALSE
INVARIANTS NoUnspentMissing
CHECK_DEADLOCK FALSE
