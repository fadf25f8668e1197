\* Nested calls of two contracts that call themselves, each other and an account
\* that does not exist yet, three contexts deep, with stacks that fill up.
CONSTANTS
  Addr = {"a", "b", "e"}
  Key = {"k"}
  WordMod = 2
  MaxNonce = 0
  Ops = {"PC", "JUMP", "CALL", "CALLCODE", "DELEGATECALL", "RETURN", "STOP"}
  MaxStack = 7
  StackCap = 8
  MaxDepth = 3
  MaxMem = 1
  NDEBUG = FALSE
  Precompiled = {}
  NewAddress <- SameAddress
  InitAccounts <- Pair3And2
  Requests <- CallA
  MaxLogs = 0
  MaxRuns = 1
SPECIFICATION Spec
INVARIANTS
  TypeOK
  CallChain
  ReturnRegionReserved
  HandlerRoom
  NoVmEscape
PROPERTIES
  RefinesCallStack
  ValuePaidOnEntry
  TransferIsAtomic
