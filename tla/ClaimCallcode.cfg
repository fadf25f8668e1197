\* CALLCODE with a value.
CONSTANTS
  Addr = {"a", "b", "n"}
  Key = {"k"}
  WordMod = 2
  MaxNonce = 0
  Ops = {"PC", "CALLCODE", "STOP"}
  MaxStack = 7
  StackCap = 8
  MaxDepth = 2
  MaxMem = 0
  NDEBUG = FALSE
  Precompiled = {}
  NewAddress <- OneNewAddress
  InitAccounts <- Pair8
  Requests <- CallA
  MaxLogs = 0
  MaxRuns = 1
SPECIFICATION Spec
PROPERTY
  CallcodePaysThisAccount
