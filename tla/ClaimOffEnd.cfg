\* A callee that runs off the end of its code ends the whole run.
CONSTANTS
  Addr = {"a", "b", "n"}
  Key = {"k"}
  WordMod = 2
  MaxNonce = 0
  Ops = {"PC", "DELEGATECALL", "STOP"}
  MaxStack = 7
  StackCap = 7
  MaxDepth = 2
  MaxMem = 0
  NDEBUG = FALSE
  Precompiled = {}
  NewAddress <- OneNewAddress
  InitAccounts <- Alone8
  Requests <- CallA
  MaxLogs = 0
  MaxRuns = 1
SPECIFICATION Spec
INVARIANT
  OuterContextHalted
