\* Init code that returns.
CONSTANTS
  Addr = {"a", "b", "n"}
  Key = {"k"}
  WordMod = 2
  MaxNonce = 0
  Ops = {"PC", "CREATE", "RETURN", "STOP"}
  MaxStack = 3
  StackCap = 3
  MaxDepth = 2
  MaxMem = 3
  NDEBUG = FALSE
  Precompiled = {}
  NewAddress <- OneNewAddress
  InitAccounts <- Alone4
  Requests <- CallA
  MaxLogs = 0
  MaxRuns = 1
SPECIFICATION Spec
INVARIANT
  CreateStoresCode
