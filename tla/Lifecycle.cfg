\* Accounts that come and go over two runs, with init code, borrowed code and
\* contracts that destroy themselves.  DUP takes stacks past the limit, so that
\* the handlers of nested contexts find their parent's stack full.  There are
\* no jumps and no gas, and still every run ends.
CONSTANTS
  Addr = {"a", "n", "p"}
  Key = {"k"}
  WordMod = 2
  MaxNonce = 0
  Ops = {"PC", "DUP", "PUSH", "DELEGATECALL", "CREATE", "RETURN", "STOP", "SELFDESTRUCT",
         "UNKNOWN", "CALLDATALOAD", "SSTORE"}
  MaxStack = 2
  StackCap = 6
  MaxDepth = 3
  MaxMem = 1
  NDEBUG = TRUE
  Precompiled = {"p"}
  NewAddress <- OneNewAddress
  InitAccounts <- Alone8
  Requests <- CallSelf
  MaxLogs = 0
  MaxRuns = 2
SPECIFICATION FairSpec
INVARIANTS
  LiveReferences
  PcInCode
PROPERTIES
  RefinesCallStack
  Isolation
  RunsForward
  Termination
