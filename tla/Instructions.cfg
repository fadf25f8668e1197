\* Every opcode (one of each group that behaves alike) at the depth limit, so
\* that calls and CREATE fail after they paid: two accounts with code, a
\* generated one, a precompiled one, and two runs.
CONSTANTS
  Addr = {"a", "b", "n", "p"}
  Key = {"k"}
  WordMod = 4
  MaxNonce = 0
  Ops = {"PC", "ISZERO", "BLOCKHASH", "ADD", "ADDMOD", "BYTE", "POP", "SWAP", "DUP",
         "PUSH", "JUMP", "JUMPI", "JUMPDEST", "UNKNOWN", "MLOAD", "MSTORE", "CODECOPY",
         "CALLDATALOAD", "SSTORE", "BALANCE", "EXTCODECOPY", "LOG", "RETURN", "STOP",
         "SELFDESTRUCT", "CALL", "CALLCODE", "CREATE"}
  MaxStack = 7
  StackCap = 8
  MaxDepth = 1
  MaxMem = 0
  NDEBUG = TRUE
  Precompiled = {"p"}
  NewAddress <- OneNewAddress
  InitAccounts <- Pair3
  Requests <- CallEither
  MaxLogs = 1
  MaxRuns = 2
SPECIFICATION Spec
INVARIANTS
  FreshOnlyAtStart
  OutcomeReported
PROPERTIES
  FirstInstructionHarmless
  Isolation
  FundsNeverVanish
  MintsOnlyByCreateOrSelfPayment
