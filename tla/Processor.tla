------------------------------ MODULE Processor ------------------------------
(***************************************************************************)
(* The virtual machine of src/processor.cpp: the stack of contexts, the    *)
(* loop of _Processor::run, and the handlers of the opcodes that dispatch  *)
(* selects, over the accounts of module GlobalState.                       *)
(*                                                                         *)
(* A step of the specification is one iteration of the loop: the handler,  *)
(* the catch clause when the handler throws, pop_context, and the step()   *)
(* of whichever context is current afterwards.                             *)
(*                                                                         *)
(* What is abstract.  The bytes of a program are not kept, only how many   *)
(* there are: the opcode found at pc is any member of Ops, so a behaviour  *)
(* of the specification is one of some program, and what holds here holds  *)
(* for every program over Ops.  Words on the stack are not kept, only how  *)
(* many there are: the operands a handler pops are chosen with \E.  A      *)
(* region of memory is kept as its end (offset + size), where MaxMem + 1   *)
(* stands for every region that overflows or exceeds the limit and every   *)
(* offset or size that pop64 rejects.                                      *)
(***************************************************************************)
EXTENDS GlobalState

CONSTANTS
    Ops,               \* the opcodes that occur in programs
    MaxStack,          \* Stack::MAX_SIZE
    MaxDepth,          \* Consts::MAX_CALL_DEPTH
    MaxMem,            \* Consts::MAX_MEM_SIZE
    NDEBUG,            \* whether assert() is compiled out
    Precompiled,       \* the addresses 1 .. 8
    NewAddress(_, _),  \* generate_address(sender, nonce)
    InitAccounts,      \* the account maps the host may start from
    Requests,          \* the calls of Processor::run the host may make
    StackCap,          \* bound: no stack grows beyond this height
    MaxLogs,           \* bound: number of log entries
    MaxRuns            \* bound: number of calls of Processor::run

ASSUME SizesAssumption ==
    /\ MaxStack \in Nat /\ StackCap \in Nat /\ MaxStack <= StackCap
    /\ MaxMem \in Nat /\ MaxDepth \in Nat \ {0}
    /\ MaxLogs \in Nat /\ MaxRuns \in Nat
    /\ NDEBUG \in BOOLEAN

ASSUME AddressAssumption ==
    /\ Precompiled \subseteq Addr
    /\ \A a \in Addr, n \in Nonce : NewAddress(a, n) \in Addr

ASSUME HostAssumption ==
    /\ \A m \in InitAccounts : IsAccounts(m)
    /\ Requests \subseteq [caller : Addr, callee : Addr, call_value : Word]

(* Exception::Type; outOfGas is declared by the program and never thrown. *)
ExceptionType ==
    {"outOfBounds", "outOfFunds", "overflow", "illegalInstruction", "notImplemented"}

MemEnd == 0 .. (MaxMem + 1)

VARIABLES
    accounts,           \* SimpleGlobalState::accounts
    depth,              \* ctxts.size()
    ctxts,              \* the contexts, outermost first: a function on 1 .. depth
    result,             \* ExecResult, and which handler wrote it (history)
    selfdestruct_list,  \* Transaction::selfdestruct_list, as a set
    logs,               \* number of entries the log handler was given
    phase,              \* where Processor::run is, or how it ended
    runs                \* number of calls of Processor::run so far

vars == <<accounts, depth, ctxts, result, selfdestruct_list, logs, phase, runs>>

CallKind == {"CALL", "CALLCODE", "DELEGATECALL"}

(* class Context.  kind says which operation pushed the context, and with it *)
(* which handlers rh, hh and eh it carries; ret is offOut + sizeOut, captured *)
(* by the return handler of a call (0 when sizeOut is 0).                     *)
Context ==
    [acc : Addr, caller : Addr, call_value : Word, code : Nat,
     pc : Nat, pc_changed : BOOLEAN, s : Nat, mem : Nat,
     kind : CallKind \cup {"run", "CREATE"}, ret : Nat]

ExecResult ==
    [er : {"returned", "halted", "threw"},
     ex : ExceptionType \cup {"none"},
     by : {"none", "rh", "hh", "eh"}]

Phase == {"idle", "run", "done", "escaped", "escapedStd", "aborted", "crashed"}

(* The one type invariant: every variable has its type, no context is above  *)
(* another than the ones of 1 .. depth, and only a running processor has any.*)
TypeOK ==
    /\ IsAccounts(accounts)
    /\ depth \in 0 .. MaxDepth
    /\ ctxts \in [1 .. depth -> Context]
    /\ result \in ExecResult
    /\ selfdestruct_list \in SUBSET Addr
    /\ logs \in 0 .. MaxLogs
    /\ phase \in Phase
    /\ runs \in 0 .. MaxRuns
    /\ depth > 0 => phase = "run"

-----------------------------------------------------------------------------
(* Contexts and the stack. *)

top == ctxts[depth]

Larger(a, b) == IF a >= b THEN a ELSE b

(* A new Context: empty stack and memory, pc 0 and pc_changed set. *)
NewContext(acc, caller, call_value, code, kind, ret) ==
    [acc |-> acc, caller |-> caller, call_value |-> call_value, code |-> code,
     pc |-> 0, pc_changed |-> TRUE, s |-> 0, mem |-> 0,
     kind |-> kind, ret |-> ret]

step_sticky(c) ==                        \* variant: pc_changed is never reset
    IF c.pc_changed THEN c ELSE [c EXCEPT !.pc = @ + 1]

step(c) ==
    IF c.pc_changed
      THEN [c EXCEPT !.pc_changed = FALSE]
      ELSE [c EXCEPT !.pc = @ + 1]

set_pc(c, pc) == [c EXCEPT !.pc = pc, !.pc_changed = TRUE]

CanPush_late(c) == c.s <= MaxStack       \* variant: off by one

(* Stack::push throws when the height equals the limit, and only then. *)
CanPush(c) == c.s # MaxStack

push(c) == [c EXCEPT !.s = @ + 1]

pop_peek(c, n) == c                      \* variant: operands read, not popped

pop(c, n) == [c EXCEPT !.s = @ - n]

(* prepare_mem_access: memory grows to the end of the region. *)
grow(c, end) == [c EXCEPT !.mem = Larger(@, end)]

(* The n innermost-last contexts, the last of them replaced by c. *)
Frames(n, c) == [i \in 1 .. n |-> IF i = n THEN c ELSE ctxts[i]]

NoFrames == [i \in {} |-> 0]

-----------------------------------------------------------------------------
(* How an iteration of the loop ends. *)

(* The current context goes on as c. *)
Proceed(c) ==
    /\ c.s <= StackCap
    /\ ctxts' = Frames(depth, step(c))
    /\ UNCHANGED <<depth, result, phase>>

Leave_silent(r) ==                       \* variant: the result is not written
    /\ result' = result
    /\ depth' = 0
    /\ ctxts' = NoFrames
    /\ UNCHANGED phase

(* The outermost context ends and leaves r for the caller of run. *)
Leave(r) ==
    /\ result' = r
    /\ depth' = 0
    /\ ctxts' = NoFrames
    /\ UNCHANGED phase

Resume_unstepped(n, c) ==                \* variant: the parent's pc stays
    /\ depth' = n - 1
    /\ ctxts' = Frames(n - 1, c)
    /\ UNCHANGED <<result, phase>>

(* Context n - 1 becomes current again as c. *)
Resume(n, c) ==
    /\ depth' = n - 1
    /\ ctxts' = Frames(n - 1, step(c))
    /\ UNCHANGED <<result, phase>>

(* Processor::run ends without a result. *)
EndRun(how) ==
    /\ phase' = how
    /\ depth' = 0
    /\ ctxts' = NoFrames
    /\ UNCHANGED result

catch_silent(n, ex) ==                   \* variant: the caller is not told
    \/ /\ ctxts[n].kind = "run"
       /\ Leave([er |-> "threw", ex |-> ex, by |-> "eh"])
    \/ /\ ctxts[n].kind # "run"
       /\ Resume(n, ctxts[n - 1])

(* The catch clause of the loop, when context n is the current one: its      *)
(* exception handler, then pop_context.  The handler of a nested context     *)
(* pushes 0 on the parent's stack; an exception of that push is thrown       *)
(* inside the catch clause and leaves run.                                   *)
catch(n, ex) ==
    \/ /\ ctxts[n].kind = "run"
       /\ Leave([er |-> "threw", ex |-> ex, by |-> "eh"])
    \/ /\ ctxts[n].kind # "run"
       /\ CanPush(ctxts[n - 1])
       /\ Resume(n, push(ctxts[n - 1]))
    \/ /\ ctxts[n].kind # "run"
       /\ ~ CanPush(ctxts[n - 1])
       /\ EndRun("escaped")

throw(ex) == catch(depth, ex)

(* The handler pushes its result and is done. *)
Yield(c) ==
    \/ CanPush(c) /\ Proceed(push(c))
    \/ ~ CanPush(c) /\ throw("outOfBounds")

(* stop(): pop_context, then the halt handler.  A handler that throws does   *)
(* so when the parent already is the current context.                        *)
stop ==
    \/ /\ top.kind = "run"
       /\ Leave([er |-> "halted", ex |-> "none", by |-> "hh"])
    \/ /\ top.kind # "run"
       /\ CanPush(ctxts[depth - 1])
       /\ Resume(depth, push(ctxts[depth - 1]))
    \/ /\ top.kind # "run"
       /\ ~ CanPush(ctxts[depth - 1])
       /\ catch(depth - 1, "outOfBounds")

-----------------------------------------------------------------------------
(* Opcodes that only compute on the stack. *)

Nullary ==
    {"PC", "MSIZE", "CODESIZE", "CALLDATASIZE", "ADDRESS", "ORIGIN", "CALLER",
     "CALLVALUE", "NUMBER", "GASPRICE", "COINBASE", "TIMESTAMP", "DIFFICULTY",
     "GAS", "GASLIMIT"}

Unary == {"ISZERO", "NOT", "SLOAD", "BLOCKHASH"}

Binary ==
    {"ADD", "SUB", "MUL", "DIV", "SDIV", "MOD", "SMOD", "EXP", "SIGNEXTEND",
     "LT", "GT", "SLT", "SGT", "EQ", "AND", "OR", "XOR"}

Ternary == {"ADDMOD", "MULMOD"}

(* How many words the handler may pop: byte() leaves its second operand on   *)
(* the stack when the index is 32 or more.                                   *)
Operands(o) ==
    CASE o \in Nullary -> {0}
      [] o \in Unary   -> {1}
      [] o \in Binary  -> {2}
      [] o \in Ternary -> {3}
      [] o = "BYTE"    -> {1, 2}

(* The loop's condition holds and the opcode at pc is o. *)
dispatch(o) ==
    /\ phase = "run" /\ depth > 0 /\ top.pc < top.code
    /\ o \in Ops

Compute ==
    \E o \in Nullary \cup Unary \cup Binary \cup Ternary \cup {"BYTE"} :
        /\ dispatch(o)
        /\ \E n \in Operands(o) :
              \/ n > top.s /\ throw("outOfBounds")
              \/ n <= top.s /\ Yield(pop(top, n))
              \/ o \in {"EXP", "BLOCKHASH"} /\ throw("outOfBounds")
        /\ UNCHANGED <<accounts, selfdestruct_list, logs, runs>>

Pop ==
    /\ dispatch("POP")
    /\ \/ top.s = 0 /\ throw("outOfBounds")
       \/ top.s > 0 /\ Proceed(pop(top, 1))
    /\ UNCHANGED <<accounts, selfdestruct_list, logs, runs>>

Swap ==
    /\ dispatch("SWAP")
    /\ \E i \in 1 .. 16 :
          \/ i >= top.s /\ throw("outOfBounds")
          \/ i < top.s /\ Proceed(top)
    /\ UNCHANGED <<accounts, selfdestruct_list, logs, runs>>

(* Stack::dup checks that the word exists and not that there is room. *)
Dup ==
    /\ dispatch("DUP")
    /\ \E i \in 0 .. 15 :
          \/ i >= top.s /\ throw("outOfBounds")
          \/ i < top.s /\ Proceed(push(top))
    /\ UNCHANGED <<accounts, selfdestruct_list, logs, runs>>

Push_late ==                             \* variant: off by one
    /\ dispatch("PUSH")
    /\ \E bytes \in 1 .. 32 :
          \/ top.pc + bytes > top.code /\ throw("outOfBounds")
          \/ top.pc + bytes <= top.code
             /\ Yield(set_pc(top, top.pc + bytes + 1))
    /\ UNCHANGED <<accounts, selfdestruct_list, logs, runs>>

(* PUSH1 .. PUSH32: a truncated immediate throws. *)
Push ==
    /\ dispatch("PUSH")
    /\ \E bytes \in 1 .. 32 :
          \/ top.pc + bytes >= top.code /\ throw("outOfBounds")
          \/ top.pc + bytes < top.code
             /\ Yield(set_pc(top, top.pc + bytes + 1))
    /\ UNCHANGED <<accounts, selfdestruct_list, logs, runs>>

(* jump_to: the destination is one of the program's JUMPDESTs, or it throws. *)
jump_to(c) ==
    \/ \E newPc \in 0 .. (top.code - 1) : Proceed(set_pc(c, newPc))
    \/ throw("illegalInstruction")

Jump ==
    /\ dispatch("JUMP")
    /\ \/ throw("outOfBounds")            \* no operand, or wider than 64 bits
       \/ top.s >= 1 /\ jump_to(pop(top, 1))
    /\ UNCHANGED <<accounts, selfdestruct_list, logs, runs>>

Jumpi ==
    /\ dispatch("JUMPI")
    /\ \/ throw("outOfBounds")
       \/ top.s >= 2 /\ jump_to(pop(top, 2))
       \/ top.s >= 2 /\ Proceed(pop(top, 2))
    /\ UNCHANGED <<accounts, selfdestruct_list, logs, runs>>

Jumpdest ==
    /\ dispatch("JUMPDEST")
    /\ Proceed(top)
    /\ UNCHANGED <<accounts, selfdestruct_list, logs, runs>>

(* The default case of dispatch. *)
UnknownOpcode ==
    /\ dispatch("UNKNOWN")
    /\ throw("illegalInstruction")
    /\ UNCHANGED <<accounts, selfdestruct_list, logs, runs>>

-----------------------------------------------------------------------------
(* Opcodes that read or write memory, the input, storage, logs or accounts. *)

(* MLOAD, MSTORE, MSTORE8, SHA3, CODECOPY, CALLDATACOPY: operands popped. *)
MemOperands ==
    [MLOAD |-> 1, MSTORE |-> 2, MSTORE8 |-> 2, SHA3 |-> 2,
     CODECOPY |-> 3, CALLDATACOPY |-> 3]

MemoryAccess ==
    \E o \in DOMAIN MemOperands :
        LET n == MemOperands[o]
        IN  /\ dispatch(o)
            /\ \/ throw("outOfBounds")    \* operand missing or too large
               \/ /\ top.s >= n
                  /\ \E end \in 0 .. MaxMem :
                        LET c == grow(pop(top, n), end)
                        IN  IF o \in {"MLOAD", "SHA3"} THEN Yield(c) ELSE Proceed(c)
            /\ UNCHANGED <<accounts, selfdestruct_list, logs, runs>>

(* CALLDATALOAD: safeAdd throws std::overflow_error, which no clause catches. *)
Calldataload ==
    /\ dispatch("CALLDATALOAD")
    /\ \/ throw("outOfBounds")
       \/ top.s >= 1 /\ EndRun("escapedStd")
       \/ top.s >= 1 /\ Yield(pop(top, 1))
    /\ UNCHANGED <<accounts, selfdestruct_list, logs, runs>>

Sstore ==
    /\ dispatch("SSTORE")
    /\ \/ /\ top.s < 2
          /\ throw("outOfBounds")
          /\ UNCHANGED accounts
       \/ /\ top.s >= 2
          /\ \E k \in Key, isZero \in BOOLEAN :
                accounts' = st_write(accounts, top.acc, k, isZero)
          /\ Proceed(pop(top, 2))
    /\ UNCHANGED <<selfdestruct_list, logs, runs>>

(* BALANCE and EXTCODESIZE look an address up, and GlobalState::get creates  *)
(* the account it does not find.                                             *)
BalanceOrExtcodesize ==
    \E o \in {"BALANCE", "EXTCODESIZE"} :
        /\ dispatch(o)
        /\ \/ /\ top.s = 0
              /\ throw("outOfBounds")
              /\ UNCHANGED accounts
           \/ /\ top.s > 0
              /\ \E a \in Addr : accounts' = gs_get(accounts, a)
              /\ Yield(pop(top, 1))
        /\ UNCHANGED <<selfdestruct_list, logs, runs>>

(* EXTCODECOPY looks the address up before it pops the other operands. *)
Extcodecopy ==
    /\ dispatch("EXTCODECOPY")
    /\ \/ /\ top.s = 0
          /\ throw("outOfBounds")
          /\ UNCHANGED accounts
       \/ /\ top.s > 0
          /\ \E a \in Addr : accounts' = gs_get(accounts, a)
          /\ \/ throw("outOfBounds")
             \/ top.s >= 4 /\ \E end \in 0 .. MaxMem : Proceed(grow(pop(top, 4), end))
    /\ UNCHANGED <<selfdestruct_list, logs, runs>>

Log_unchecked ==                         \* variant: the operands are not popped
    /\ dispatch("LOG")
    /\ logs < MaxLogs
    /\ \/ throw("outOfBounds") /\ UNCHANGED logs
       \/ logs' = logs + 1 /\ Proceed(top)
    /\ UNCHANGED <<accounts, selfdestruct_list, runs>>

Log ==
    /\ dispatch("LOG")
    /\ logs < MaxLogs
    /\ \/ throw("outOfBounds") /\ UNCHANGED logs
       \/ \E n \in 0 .. 4, end \in 0 .. MaxMem :
              /\ top.s >= n + 2
              /\ logs' = logs + 1
              /\ Proceed(grow(pop(top, n + 2), end))
    /\ UNCHANGED <<accounts, selfdestruct_list, runs>>

-----------------------------------------------------------------------------
(* Leaving a context. *)

(* return_(): the return handler runs while the returning context still is   *)
(* the current one, so an exception of the handler goes to that context's    *)
(* own exception handler.                                                    *)
ReturnToHost ==
    /\ top.kind = "run"
    /\ Leave([er |-> "returned", ex |-> "none", by |-> "rh"])
    /\ UNCHANGED accounts

(* rh of call(): copy_mem_raw into [offOut, offOut + sizeOut), then push 1. *)
ReturnToCall ==
    /\ top.kind \in CallKind
    /\ LET parent == ctxts[depth - 1]
       IN  \/ /\ top.ret <= MaxMem /\ CanPush(parent)
              /\ Resume(depth, push(grow(parent, top.ret)))
           \/ /\ ~ (top.ret <= MaxMem /\ CanPush(parent))
              /\ throw("outOfBounds")
    /\ UNCHANGED accounts

(* rh of create() stores the n bytes of output as the new account's code and *)
(* pushes the address.  It reads the local variable newAcc of a create() that *)
(* has returned, which is undefined.  The stack slot may still hold newAcc, it *)
(* may hold the account of a later call of create(), or nothing valid: some   *)
(* account gets the code, or the process crashes.                             *)
ReturnToCreate(n) ==
    /\ top.kind = "CREATE"
    /\ \/ /\ \E a \in DOMAIN accounts : accounts' = set_code(accounts, a, n)
          /\ \/ CanPush(ctxts[depth - 1]) /\ Resume(depth, push(ctxts[depth - 1]))
             \/ ~ CanPush(ctxts[depth - 1]) /\ throw("outOfBounds")
       \/ EndRun("crashed") /\ UNCHANGED accounts

Return ==
    /\ dispatch("RETURN")
    /\ \/ throw("outOfBounds") /\ UNCHANGED accounts
       \/ top.s >= 2 /\ ReturnToHost
       \/ top.s >= 2 /\ ReturnToCall
       \/ top.s >= 2 /\ \E n \in 0 .. MaxMem : ReturnToCreate(n)
    /\ UNCHANGED <<selfdestruct_list, logs, runs>>

Stop ==
    /\ dispatch("STOP")
    /\ stop
    /\ UNCHANGED <<accounts, selfdestruct_list, logs, runs>>

SelfdestructTo_eager(r) ==               \* variant: the account goes at once
    LET m == gs_get(accounts, r)
        v == m[top.acc].balance
    IN  \/ /\ pay_error(m, top.acc, r, v) # "none"
           /\ accounts' = m
           /\ throw(pay_error(m, top.acc, r, v))
           /\ UNCHANGED selfdestruct_list
        \/ /\ pay_error(m, top.acc, r, v) = "none"
           /\ accounts' = gs_remove(pay_to(m, top.acc, r, v), {top.acc})
           /\ selfdestruct_list' = selfdestruct_list \cup {top.acc}
           /\ stop

(* The whole balance goes to r, the account is marked, and the context halts; *)
(* the account itself is removed when run ends.                               *)
SelfdestructTo(r) ==
    LET m == gs_get(accounts, r)
        v == m[top.acc].balance
    IN  \/ /\ pay_error(m, top.acc, r, v) # "none"
           /\ accounts' = m
           /\ throw(pay_error(m, top.acc, r, v))
           /\ UNCHANGED selfdestruct_list
        \/ /\ pay_error(m, top.acc, r, v) = "none"
           /\ accounts' = pay_to(m, top.acc, r, v)
           /\ selfdestruct_list' = selfdestruct_list \cup {top.acc}
           /\ stop

Selfdestruct ==
    /\ dispatch("SELFDESTRUCT")
    /\ \/ /\ top.s = 0
          /\ throw("outOfBounds")
          /\ UNCHANGED <<accounts, selfdestruct_list>>
       \/ top.s > 0 /\ \E r \in Addr : SelfdestructTo(r)
    /\ UNCHANGED <<logs, runs>>

-----------------------------------------------------------------------------
(* Entering a context. *)

Enter_unlimited(parent, child) ==        \* variant: no depth limit
    /\ depth <= MaxDepth
    /\ depth' = depth + 1
    /\ ctxts' = [i \in 1 .. (depth + 1) |->
                    IF i = depth + 1 THEN step(child)
                    ELSE IF i = depth THEN parent
                    ELSE ctxts[i]]
    /\ UNCHANGED <<result, phase>>

(* push_context inside a handler, below the limit: parent is suspended, child *)
(* is current and takes the step() at the end of the iteration.               *)
Enter(parent, child) ==
    /\ depth < MaxDepth
    /\ depth' = depth + 1
    /\ ctxts' = [i \in 1 .. (depth + 1) |->
                    IF i = depth + 1 THEN step(child)
                    ELSE IF i = depth THEN parent
                    ELSE ctxts[i]]
    /\ UNCHANGED <<result, phase>>

(* CREATE with endowment v and init code of n bytes that ends at end: the    *)
(* account is created with balance v, and then v is paid to it.              *)
CreateAccount(v, end, n) ==
    LET a  == NewAddress(top.acc, accounts[top.acc].nonce)
        m  == gs_create(accounts, a, v)
        ex == pay_error(m, top.acc, a, v)
    IN  \/ /\ a \in DOMAIN accounts /\ ~ NDEBUG
           /\ EndRun("aborted")
           /\ UNCHANGED accounts
        \/ /\ a \notin DOMAIN accounts \/ NDEBUG
           /\ \/ /\ ex # "none"
                 /\ accounts' = m
                 /\ throw(ex)
              \/ /\ ex = "none"
                 /\ accounts' = pay_to(m, top.acc, a, v)
                 /\ \/ depth >= MaxDepth /\ throw("outOfBounds")
                    \/ Enter(grow(pop(top, 3), end),
                             NewContext(a, top.acc, 0, n, "CREATE", 0))

Create ==
    /\ dispatch("CREATE")
    /\ \/ throw("outOfBounds") /\ UNCHANGED accounts
       \/ /\ top.s >= 3
          /\ \E v \in Word, end \in 0 .. MaxMem :
                \E n \in 0 .. end : CreateAccount(v, end, n)
    /\ UNCHANGED <<selfdestruct_list, logs, runs>>

Callee_sender(o, a, v, code, ret) ==     \* variant: DELEGATECALL as from here
    CASE o = "CALL"     -> NewContext(a, top.acc, v, code, o, ret)
      [] o = "CALLCODE" -> NewContext(top.acc, top.acc, v, code, o, ret)
      [] o = "DELEGATECALL" ->
             NewContext(top.acc, top.acc, top.call_value, code, o, ret)

(* The three cases of the switch in call(). *)
Callee(o, a, v, code, ret) ==
    CASE o = "CALL"     -> NewContext(a, top.acc, v, code, o, ret)
      [] o = "CALLCODE" -> NewContext(top.acc, top.acc, v, code, o, ret)
      [] o = "DELEGATECALL" ->
             NewContext(top.acc, top.caller, top.call_value, code, o, ret)

CallAccount_again(o, c, a, v, in, out, ret) ==  \* variant: DELEGATECALL pays too
    LET m    == gs_get(accounts, a)
        code == m[a].code
        w    == IF o = "DELEGATECALL" THEN c.call_value ELSE v
        ex   == pay_error(m, c.acc, a, w)
    IN  IF a \in Precompiled \/ ex # "none"
          THEN UNCHANGED accounts /\ throw("notImplemented")
          ELSE /\ accounts' = pay_to(m, c.acc, a, w)
               /\ \/ code = 0 /\ Yield(c)
                  \/ /\ code > 0 /\ (out > MaxMem \/ in > MaxMem \/ depth >= MaxDepth)
                     /\ throw("outOfBounds")
                  \/ /\ code > 0 /\ out <= MaxMem /\ in <= MaxMem
                     /\ Enter(grow(grow(c, out), in), Callee(o, a, v, code, ret))

CallAccount_early(o, c, a, v, in, out, ret) ==  \* variant: regions before has_code()
    LET m    == gs_get(accounts, a)
        code == m[a].code
        ex   == pay_error(m, c.acc, a, v)
    IN  IF a \in Precompiled \/ ex # "none"
          THEN UNCHANGED accounts /\ throw("notImplemented")
          ELSE /\ accounts' = pay_to(m, c.acc, a, v)
               /\ IF out > MaxMem \/ in > MaxMem
                    THEN throw("outOfBounds")
                    ELSE \/ code = 0 /\ Yield(c)
                         \/ code > 0 /\ depth >= MaxDepth /\ throw("outOfBounds")
                         \/ code > 0 /\ Enter(grow(grow(c, out), in),
                                               Callee(o, a, v, code, ret))

CallAccount_unreserved(o, c, a, v, in, out, ret) ==  \* variant: output not reserved
    LET m    == gs_get(accounts, a)
        ex   == pay_error(m, c.acc, a, v)
        code == m[a].code
    IN  IF a \in Precompiled \/ ex # "none"
          THEN UNCHANGED accounts /\ throw("notImplemented")
          ELSE /\ accounts' = pay_to(m, c.acc, a, v)
               /\ \/ code = 0 /\ Yield(c)
                  \/ code > 0 /\ (in > MaxMem \/ depth >= MaxDepth) /\ throw("outOfBounds")
                  \/ code > 0 /\ in <= MaxMem /\ Enter(grow(c, in), Callee(o, a, v, code, ret))

(* call() to address a with value v: in and out are the ends of the input and *)
(* output regions, c the current context with its operands popped.  The value *)
(* is paid before the regions and the depth are checked.                      *)
CallAccount(o, c, a, v, in, out, ret) ==
    LET m    == gs_get(accounts, a)
        ex   == pay_error(m, c.acc, a, v)
        code == m[a].code
    IN  \/ /\ a \in Precompiled
           /\ UNCHANGED accounts
           /\ throw("notImplemented")
        \/ /\ a \notin Precompiled /\ ex # "none"
           /\ accounts' = m
           /\ throw(ex)
        \/ /\ a \notin Precompiled /\ ex = "none"
           /\ accounts' = pay_to(m, c.acc, a, v)
           /\ \/ code = 0 /\ Yield(c)
              \/ /\ code > 0 /\ (out > MaxMem \/ in > MaxMem \/ depth >= MaxDepth)
                 /\ throw("outOfBounds")
              \/ /\ code > 0 /\ out <= MaxMem /\ in <= MaxMem
                 /\ Enter(grow(grow(c, out), in), Callee(o, a, v, code, ret))

Call ==
    \E o \in CallKind :
        LET n == IF o = "DELEGATECALL" THEN 6 ELSE 7
        IN  /\ dispatch(o)
            /\ \/ throw("outOfBounds") /\ UNCHANGED accounts
               \/ /\ top.s >= n
                  /\ \E a \in Addr, v \in IF o = "DELEGATECALL" THEN {0} ELSE Word,
                        in \in MemEnd, out \in MemEnd :
                          \E ret \in {0, out} :
                              CallAccount(o, pop(top, n), a, v, in, out, ret)
            /\ UNCHANGED <<selfdestruct_list, logs, runs>>

-----------------------------------------------------------------------------
(* Processor::run. *)

DefaultResult == [er |-> "returned", ex |-> "none", by |-> "none"]

(* The host gets the callee's account and calls run, with a new transaction  *)
(* or with the one of the previous call.                                     *)
Run ==
    /\ phase \in {"idle", "done", "escaped", "escapedStd"}
    /\ runs < MaxRuns
    /\ \E r \in Requests :
          /\ accounts' = gs_get(accounts, r.callee)
          /\ ctxts' = [i \in 1 .. 1 |->
                          NewContext(r.callee, r.caller, r.call_value,
                                     accounts'[r.callee].code, "run", 0)]
    /\ selfdestruct_list' \in {{}, selfdestruct_list}
    /\ depth' = 1
    /\ result' = DefaultResult
    /\ phase' = "run"
    /\ runs' = runs + 1
    /\ UNCHANGED logs

(* The clean-up at the end of run. *)
CleanUp ==
    /\ accounts' = gs_remove(accounts, selfdestruct_list)
    /\ phase' = "done"

(* The loop ends because no context is left. *)
FinishNoContext ==
    /\ phase = "run" /\ depth = 0
    /\ CleanUp
    /\ UNCHANGED <<depth, ctxts, result, selfdestruct_list, logs, runs>>

(* The loop ends because the current context ran off the end of its code:    *)
(* stop() for that context, outside of the try block, and the contexts below *)
(* it are dropped.                                                           *)
FinishOffEnd ==
    /\ phase = "run" /\ depth > 0 /\ top.pc >= top.code
    /\ \/ /\ top.kind = "run"
          /\ result' = [er |-> "halted", ex |-> "none", by |-> "hh"]
          /\ CleanUp
       \/ /\ top.kind # "run" /\ CanPush(ctxts[depth - 1])
          /\ result' = result
          /\ CleanUp
       \/ /\ top.kind # "run" /\ ~ CanPush(ctxts[depth - 1])
          /\ phase' = "escaped"
          /\ UNCHANGED <<accounts, result>>
    /\ depth' = 0
    /\ ctxts' = NoFrames
    /\ UNCHANGED <<selfdestruct_list, logs, runs>>

(* Nothing is left to do: the host made its last call, or the process died. *)
Quiescent ==
    /\ \/ phase \in {"aborted", "crashed"}
       \/ phase \in {"done", "escaped", "escapedStd"} /\ runs = MaxRuns
    /\ UNCHANGED vars

Execute ==
    \/ Compute \/ Pop \/ Swap \/ Dup \/ Push \/ Jump \/ Jumpi \/ Jumpdest
    \/ UnknownOpcode \/ MemoryAccess \/ Calldataload \/ Sstore
    \/ BalanceOrExtcodesize \/ Extcodecopy \/ Log \/ Return \/ Stop
    \/ Selfdestruct \/ Create \/ Call

Finish == FinishNoContext \/ FinishOffEnd

Init ==
    /\ accounts \in InitAccounts
    /\ depth = 0
    /\ ctxts = NoFrames
    /\ result = DefaultResult
    /\ selfdestruct_list = {}
    /\ logs = 0
    /\ phase = "idle"
    /\ runs = 0

Next == Run \/ Execute \/ Finish \/ Quiescent

Spec == Init /\ [][Next]_vars

(* run() is a sequential loop: it takes its next step whenever it has one. *)
FairSpec == Spec /\ WF_vars(Execute \/ Finish)

-----------------------------------------------------------------------------
(* Invariants. *)

(* Context c was entered from context p. *)
EnteredFrom(c, p) ==
    /\ c.kind # "run"
    /\ c.kind \in {"CALL", "CALLCODE", "CREATE"} => c.caller = p.acc
    /\ c.kind \in {"CALLCODE", "DELEGATECALL"} => c.acc = p.acc
    /\ c.kind = "DELEGATECALL" => c.caller = p.caller /\ c.call_value = p.call_value
    /\ c.kind = "CREATE" => c.call_value = 0

(* Who calls whom.  The outermost context, and only that one, belongs to run; *)
(* a CALL runs the callee for the caller's account; CALLCODE and DELEGATECALL *)
(* run other code in the account of the context below, and DELEGATECALL hands *)
(* that context's own caller and value on, through any number of levels.      *)
CallChain ==
    /\ depth > 0 => ctxts[1].kind = "run"
    /\ \A i \in 2 .. depth : EnteredFrom(ctxts[i], ctxts[i - 1])

(* Contexts hold references to accounts (Context::acc, Context::st).  While   *)
(* the processor runs, every account some context refers to is in the map,    *)
(* however many SELFDESTRUCTs were executed below, above or in that context.  *)
LiveReferences ==
    \A i \in 1 .. depth : ctxts[i].acc \in DOMAIN accounts

(* The output region of a suspended call lies inside the parent's memory, so  *)
(* the copy of the return handler neither grows memory nor throws.            *)
ReturnRegionReserved ==
    /\ \A i \in 1 .. depth : ctxts[i].mem <= MaxMem
    /\ \A i \in 2 .. depth : ctxts[i].ret <= ctxts[i - 1].mem

(* pc_changed survives to the head of the loop in one situation only: before  *)
(* the first instruction of the outermost context, whose stack is empty.      *)
FreshOnlyAtStart ==
    \A i \in 1 .. depth :
        ctxts[i].pc_changed => depth = 1 /\ ctxts[i].pc = 0 /\ ctxts[i].s = 0

(* While the loop runs, the host's result is written exactly when the last    *)
(* context is gone: no handler reports twice, none reports early.             *)
OutcomeReported ==
    phase = "run" => (depth = 0 <=> result.by # "none")

(* No pc points past the end of its code, and a suspended context stands      *)
(* inside, on the call it has yet to be resumed from: not after immediates    *)
(* that end with the code, nor after any number of calls and answers.         *)
PcInCode ==
    \A i \in 1 .. depth :
        /\ ctxts[i].pc <= ctxts[i].code
        /\ i < depth => ctxts[i].pc < ctxts[i].code

(* Without DUP no stack is ever higher than the limit, and a suspended        *)
(* context always has room for the word its handlers push (a call popped at   *)
(* least six operands, CREATE three).                                         *)
HandlerRoom ==
    "DUP" \notin Ops =>
        /\ \A i \in 1 .. depth : ctxts[i].s <= MaxStack
        /\ \A i \in 1 .. (depth - 1) : ctxts[i].s + 3 <= MaxStack

(* Without DUP no eevm::Exception leaves Processor::run.                      *)
NoVmEscape == "DUP" \notin Ops => phase # "escaped"

-----------------------------------------------------------------------------
(* Action properties. *)

(* d is ahead of c in the same program. *)
Ahead(c, d) ==
    \/ d.pc > c.pc
    \/ d.pc = c.pc /\ c.pc_changed /\ ~ d.pc_changed

(* Without jumps an instruction enters a context above all others and moves   *)
(* none of them, or it moves the context that is current afterwards forward   *)
(* and none below it.  With PcInCode and the limit on depth this is a measure *)
(* that cannot decrease for ever: there is no gas, and still no program of    *)
(* calls that fail, answer or are answered runs in circles.                   *)
ForwardStep ==
    (phase = "run" /\ depth > 0 /\ depth' > 0 /\ Ops \cap {"JUMP", "JUMPI"} = {})
        => LET n == IF depth' > depth THEN depth' ELSE depth' - 1
           IN  /\ \A i \in 1 .. depth : i <= n => ctxts'[i].pc = ctxts[i].pc
               /\ depth' <= depth => Ahead(ctxts[depth'], ctxts'[depth'])
               /\ depth' <= depth + 1

RunsForward == [][ForwardStep]_vars

(* The instruction that runs before pc_changed is cleared runs again: it      *)
(* never changes an account or emits a log, for it finds no operands.         *)
FirstStepHarmless ==
    (depth > 0 /\ top.pc_changed /\ phase' = "run")
        => /\ accounts' = accounts
           /\ logs' = logs
           /\ depth' <= depth

FirstInstructionHarmless == [][FirstStepHarmless]_vars

(* The value a context believes to have been called with is paid exactly      *)
(* once: by CALL in the step that enters it, from the caller to the account   *)
(* the context runs in, and not again by DELEGATECALL, which hands on a value *)
(* paid earlier.  Whom CALLCODE pays is not said here.                        *)
EntryStep ==
    (phase = "run" /\ depth' > depth)
        => LET e == ctxts'[depth']
               gain(a) == accounts'[a].balance - accounts[a].balance
           IN  /\ e.kind = "CALL" =>
                     /\ gain(e.acc) = e.call_value
                     /\ e.acc = e.caller \/ gain(e.caller) = - e.call_value
               /\ e.kind = "DELEGATECALL" => accounts' = accounts

ValuePaidOnEntry == [][EntryStep]_vars

Gains(a) ==
    accounts'[a].balance > IF a \in DOMAIN accounts THEN accounts[a].balance ELSE 0

(* A transfer to an account without code is all or nothing.  Payment comes    *)
(* first in call(), and what may fail after it is not undone: the checks of   *)
(* memory and depth, and the push of the answer.  So an instruction that ends *)
(* its context has paid another account only if that one has code, if it is   *)
(* the one that CREATE made, or if it was SELFDESTRUCT, and then everything.  *)
(* (With DUP the answer may find the stack full.)                             *)
TransferStep ==
    ("DUP" \notin Ops /\ phase = "run" /\ depth' < depth)
        => \A a \in DOMAIN accounts' \ {top.acc} :
              Gains(a) =>
                 \/ accounts'[a].code > 0
                 \/ "CREATE" \in Ops /\ a = NewAddress(top.acc, accounts[top.acc].nonce)
                 \/ top.acc \in selfdestruct_list' /\ accounts'[top.acc].balance = 0

TransferIsAtomic == [][TransferStep]_vars

(* Between the start and the clean-up of a run no account disappears, and of  *)
(* the accounts that exist only the one of the current context can lose       *)
(* balance or have its storage changed.  Code changes only when init code     *)
(* returns.                                                                   *)
IsolationStep ==
    (phase = "run" /\ phase' # "done")
        => /\ DOMAIN accounts \subseteq DOMAIN accounts'
           /\ \A a \in DOMAIN accounts :
                 /\ \/ accounts'[a].balance >= accounts[a].balance
                       /\ accounts'[a].st = accounts[a].st
                    \/ depth > 0 /\ a = top.acc
                 /\ \/ accounts'[a].code = accounts[a].code
                    \/ depth > 0 /\ top.kind = "CREATE" /\ depth' < depth

Isolation == [][IsolationStep]_vars

(* Wei is not lost: the sum of all balances never decreases, except when the  *)
(* clean-up removes self-destructed accounts, and then by what they held.     *)
FundsStep ==
    \/ Supply(accounts') >= Supply(accounts)
    \/ /\ phase' = "done"
       /\ Supply(accounts) = Supply(accounts')
             + Supply([x \in DOMAIN accounts \cap selfdestruct_list |-> accounts[x]])

FundsNeverVanish == [][FundsStep]_vars

(* The sum of all balances rises in two situations only: CREATE brings its    *)
(* account into being with a balance, or the current account pays itself and  *)
(* no other balance changes.                                                  *)
MintStep ==
    Supply(accounts') > Supply(accounts)
        => \/ /\ "CREATE" \in Ops
              /\ LET x == NewAddress(top.acc, accounts[top.acc].nonce)
                 IN  x \in DOMAIN accounts' \ DOMAIN accounts /\ accounts'[x].balance > 0
           \/ \A x \in DOMAIN accounts \ {top.acc} :
                  accounts'[x].balance = accounts[x].balance

MintsOnlyByCreateOrSelfPayment == [][MintStep]_vars

(* What the stack of contexts promises, however many frames unwind at once,  *)
(* whichever handler throws while it reports, and wherever a run stops: the   *)
(* specification CallStack, with contexts as its frames.                      *)
CS == INSTANCE CallStack WITH
          frames <- ctxts, reported <- (result.by # "none"), running <- (phase = "run")

RefinesCallStack == CS!Spec

(* Liveness: every run ends, when the programs have no jumps. *)
Termination == (phase = "run") ~> (phase # "run")
=============================================================================
