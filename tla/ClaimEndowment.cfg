\* CREATE with a value.
CONSTANTS
  Addr = {"a", "b", "n"}
  Key = {"k"}
  WordMod = 3
  MaxNonce = 0
  Ops = {"PC", "CREATE", "STOP"}
  MaxStack = 3
  StackCap = 3
  MaxDepth = 2
  MaxMem = 1
  NDEBUG = FALSE
  Precompiled = {}
  NewAddress <- OneNewAddress
  InitAccounts <- Alone4
  Requests <- CallA
  MaxLogs = 0
  MaxRuns = 1
SPECIFICATION Spec
PROPERTY
  EndowmentIsTransferred
