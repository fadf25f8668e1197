\* A full stack below a nested context.
CONSTANTS
  Addr = {"a", "b", "n"}
  Key = {"k"}
  WordMod = 2
  MaxNonce = 0
  Ops = {"PC", "DUP", "DELEGATECALL", "STOP", "UNKNOWN"}
  MaxStack = 2
  StackCap = 8
  MaxDepth = 2
  MaxMem = 0
  NDEBUG = FALSE
  Precompiled = {}
  NewAddress <- OneNewAddress
  InitAccounts <- CallerAndShort
  Requests <- CallA
  MaxLogs = 0
  MaxRuns = 1
SPECIFICATION Spec
INVARIANT
  VmExceptionsCaught
