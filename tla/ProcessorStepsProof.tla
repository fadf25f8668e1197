------------------------ MODULE ProcessorStepsProof --------------------------
(***************************************************************************)
(* What a single step of Processor does, for every value of the constants: *)
(* it is a step of CallStack, it leaves the accounts of others alone, the  *)
(* instruction that is executed twice does no harm, the value a context is *)
(* entered with was paid for, a transfer to an account without code is all *)
(* or nothing, and the funds of all accounts change only in the ways that  *)
(* are listed here.                                                        *)
(*                                                                         *)
(* The first follows from the classification of steps in ProcessorProof.   *)
(* The others go through the handlers that write accounts; each does so by *)
(* composing get, create, pay_to, store, set_code and remove, whose effect *)
(* on the accounts the lemmas about them state.  Only call() and create()  *)
(* push contexts onto others, so one lemma about what call() has done to   *)
(* the accounts when it does (CallEnters) carries the result about what a  *)
(* context is entered with.                                                *)
(***************************************************************************)
EXTENDS ProcessorProof

(* n has the accounts of m; all but who keep their storage and at least their *)
(* balance, and all keep their code.                                          *)
Isolates(m, n, who) ==
    /\ DOMAIN m \subseteq DOMAIN n
    /\ \A a \in DOMAIN m :
          /\ n[a].code = m[a].code
          /\ a # who => n[a].balance >= m[a].balance /\ n[a].st = m[a].st

(* insert never overwrites. *)
LEMMA InsertKeeps ==
    ASSUME NEW m, IsAccounts(m), NEW a \in Addr, NEW acc \in Account
    PROVE  \A x \in DOMAIN m : gs_insert(m, a, acc)[x] = m[x]
  BY AccountsForm DEF gs_insert

(* get keeps the accounts that exist. *)
LEMMA GetKeeps ==
    ASSUME NEW m, IsAccounts(m), NEW a \in Addr
    PROVE  \A x \in DOMAIN m : gs_get(m, a)[x] = m[x]
  <1>1. NewAccount(0) \in Account
    BY WordAssumption DEF NewAccount, Account, Nonce, Word
  <1> QED
    BY <1>1, InsertKeeps DEF gs_get, gs_create

(* create keeps the accounts that exist. *)
LEMMA CreateKeepsOthers ==
    ASSUME NEW m, IsAccounts(m), NEW a \in Addr, NEW v \in Word
    PROVE  \A x \in DOMAIN m : gs_create(m, a, v)[x] = m[x]
  <1>1. NewAccount(v) \in Account
    BY WordAssumption DEF NewAccount, Account, Nonce
  <1> QED
    BY <1>1, InsertKeeps DEF gs_create

(* The balances of accounts are numbers. *)
LEMMA BalanceIsWord ==
    ASSUME NEW m, IsAccounts(m), NEW a \in DOMAIN m
    PROVE  m[a] \in Account /\ m[a].balance \in Nat
  BY AccountsForm, WordAssumption DEF Account, Word

(* A payment that does not throw takes from the payer only. *)
LEMMA PaymentIsolates ==
    ASSUME NEW m, IsAccounts(m)
    PROVE  \A p, q \in DOMAIN m, v \in Word :
              pay_error(m, p, q, v) = "none" => Isolates(m, pay_to(m, p, q, v), p)
  <1> SUFFICES ASSUME NEW p \in DOMAIN m, NEW q \in DOMAIN m, NEW v \in Word,
                      pay_error(m, p, q, v) = "none"
               PROVE  Isolates(m, pay_to(m, p, q, v), p)
    OBVIOUS
  <1> DEFINE b == (m[q].balance + v) % WordMod
             n == pay_to(m, p, q, v)
  <1>1. m \in [DOMAIN m -> Account]
    BY AccountsForm
  <1>2. DOMAIN n = DOMAIN m
    BY DEF pay_to, set_balance
  <1>3. ~ (b < m[q].balance)
    BY DEF pay_error
  <1>4. b \in Nat /\ m[q].balance \in Nat
    BY BalanceIsWord, WordAssumption DEF Word
  <1>5. ASSUME NEW a \in DOMAIN m
        PROVE  n[a].code = m[a].code /\ n[a].st = m[a].st
    BY <1>1, <1>5 DEF pay_to, set_balance, Account
  <1>6. ASSUME NEW a \in DOMAIN m, a # p
        PROVE  n[a].balance >= m[a].balance
    <2>1. CASE a = q
      <3>1. n[a].balance = b
        BY <1>1, <1>6, <2>1 DEF pay_to, set_balance, Account
      <3> HIDE DEF n, b
      <3> QED
        BY <1>3, <1>4, <2>1, <3>1
    <2>2. CASE a # q
      <3>1. n[a] = m[a]
        BY <1>1, <1>6, <2>2 DEF pay_to, set_balance, Account
      <3> HIDE DEF n
      <3> QED
        BY <3>1, BalanceIsWord
    <2> QED
      BY <2>1, <2>2
  <1> QED
    BY <1>2, <1>5, <1>6 DEF Isolates

(* A step after a lookup that added accounts isolates as it does alone. *)
LEMMA LookupIsolates ==
    ASSUME NEW m, IsAccounts(m), NEW k, DOMAIN m \subseteq DOMAIN k,
           \A x \in DOMAIN m : k[x] = m[x],
           NEW n, NEW who, Isolates(k, n, who)
    PROVE  Isolates(m, n, who)
  BY DEF Isolates

(* Accounts that are all as before are isolated. *)
LEMMA SameIsolates ==
    ASSUME NEW m, IsAccounts(m), NEW n, DOMAIN m \subseteq DOMAIN n,
           \A x \in DOMAIN m : n[x] = m[x], NEW who
    PROVE  Isolates(m, n, who)
  BY BalanceIsWord DEF Isolates

(* SSTORE writes the storage of one account. *)
LEMMA StoreIsolates ==
    ASSUME NEW m, IsAccounts(m), NEW a \in DOMAIN m, NEW k, NEW z
    PROVE  Isolates(m, st_write(m, a, k, z), a)
  <1>1. m \in [DOMAIN m -> Account]
    BY AccountsForm
  <1>2. \A x \in DOMAIN m : x # a => st_write(m, a, k, z)[x] = m[x]
    BY <1>1 DEF st_write
  <1>3. st_write(m, a, k, z)[a].code = m[a].code
    BY <1>1 DEF st_write, Account
  <1>4. DOMAIN st_write(m, a, k, z) = DOMAIN m
    BY DEF st_write
  <1> QED
    BY <1>2, <1>3, <1>4, BalanceIsWord DEF Isolates

-----------------------------------------------------------------------------
(* The handlers that write accounts. *)

(* A handler runs only where dispatch finds an opcode. *)
LEMMA ExecuteRuns ==
    ASSUME Execute
    PROVE  Running /\ top.pc < top.code
  BY DEF Running, dispatch, Execute, Compute, Pop, Swap, Dup, Push, Jump, Jumpi, Jumpdest,
         UnknownOpcode, MemoryAccess, Calldataload, Sstore, BalanceOrExtcodesize,
         Extcodecopy, Log, Return, Stop, Selfdestruct, Create, Call

(* While a context runs, its account and the map have their types. *)
LEMMA RunningTypes ==
    ASSUME IInv, Running
    PROVE  /\ IsAccounts(accounts) /\ top.acc \in DOMAIN accounts /\ top.acc \in Addr
           /\ top.s \in Nat /\ depth \in Nat
  BY TopEvolves DEF IInv, TypeOK

(* A step in which the current context's account is the only one to lose has *)
(* the property.                                                             *)
LEMMA IsolatesSuffices ==
    ASSUME Running, Isolates(accounts, accounts', top.acc), IInv
    PROVE  IsolationStep
  <1>1. \A a \in DOMAIN accounts : accounts[a].balance \in Nat
    BY RunningTypes, BalanceIsWord
  <1> QED
    BY <1>1 DEF Isolates, IsolationStep, Running

(* A step that leaves the accounts alone has it. *)
LEMMA QuietIsolates ==
    ASSUME IInv, UNCHANGED accounts
    PROVE  IsolationStep
  <1>1. \A a \in DOMAIN accounts : accounts[a].balance \in Nat
    BY BalanceIsWord DEF IInv, TypeOK
  <1> QED
    BY <1>1 DEF IsolationStep

(* A payment after a lookup has it. *)
LEMMA PayingIsolates ==
    ASSUME IInv, Running, NEW m, IsAccounts(m), DOMAIN accounts \subseteq DOMAIN m,
           \A x \in DOMAIN accounts : m[x] = accounts[x],
           NEW q \in DOMAIN m, NEW v \in Word,
           \/ accounts' = m
           \/ pay_error(m, top.acc, q, v) = "none" /\ accounts' = pay_to(m, top.acc, q, v)
    PROVE  IsolationStep
  <1>1. IsAccounts(accounts) /\ top.acc \in DOMAIN accounts
    BY RunningTypes
  <1>2. CASE accounts' = m
    BY <1>1, <1>2, SameIsolates, IsolatesSuffices
  <1>3. CASE pay_error(m, top.acc, q, v) = "none" /\ accounts' = pay_to(m, top.acc, q, v)
    <2>1. Isolates(m, accounts', top.acc)
      BY <1>1, <1>3, PaymentIsolates
    <2>2. Isolates(accounts, accounts', top.acc)
      BY <1>1, <2>1, LookupIsolates
    <2> QED
      BY <2>2, IsolatesSuffices
  <1> QED
    BY <1>2, <1>3

(* SSTORE, BALANCE, EXTCODESIZE and EXTCODECOPY. *)
LEMMA ReadsAndStoresIsolate ==
    ASSUME IInv, Sstore \/ BalanceOrExtcodesize \/ Extcodecopy
    PROVE  IsolationStep
  <1>1. Running
    BY DispatchRuns DEF Sstore, BalanceOrExtcodesize, Extcodecopy
  <1>2. IsAccounts(accounts) /\ top.acc \in DOMAIN accounts /\ 0 \in Word
    BY <1>1, RunningTypes, WordAssumption DEF Word
  <1>3. CASE UNCHANGED accounts
    BY <1>3, QuietIsolates
  <1>4. CASE \E k \in Key, z \in BOOLEAN : accounts' = st_write(accounts, top.acc, k, z)
    BY <1>1, <1>2, <1>4, StoreIsolates, IsolatesSuffices
  <1>5. CASE \E a \in Addr : accounts' = gs_get(accounts, a)
    <2>1. PICK a \in Addr : accounts' = gs_get(accounts, a)
      BY <1>5
    <2>2. Isolates(accounts, accounts', top.acc)
      BY <1>2, <2>1, GetAccount, GetKeeps, SameIsolates
    <2> QED
      BY <1>1, <2>2, IsolatesSuffices
  <1> QED
    BY <1>3, <1>4, <1>5 DEF Sstore, BalanceOrExtcodesize, Extcodecopy

(* SELFDESTRUCT pays, and removes nothing yet. *)
LEMMA SelfdestructIsolates ==
    ASSUME IInv, Selfdestruct
    PROVE  IsolationStep
  <1>1. Running
    BY DispatchRuns DEF Selfdestruct
  <1>2. CASE UNCHANGED accounts
    BY <1>2, QuietIsolates
  <1>3. ASSUME NEW r \in Addr, SelfdestructTo(r)
        PROVE  IsolationStep
    <2> DEFINE m == gs_get(accounts, r)
               v == m[top.acc].balance
    <2>1. /\ IsAccounts(accounts) /\ IsAccounts(m) /\ DOMAIN m = DOMAIN accounts \cup {r}
          /\ \A x \in DOMAIN accounts : m[x] = accounts[x]
      BY <1>1, RunningTypes, GetAccount, GetKeeps
    <2>2. v \in Word
      BY <1>1, <2>1, RunningTypes, BalanceIsWord DEF Account
    <2>3. \/ accounts' = m
          \/ pay_error(m, top.acc, r, v) = "none" /\ accounts' = pay_to(m, top.acc, r, v)
      BY <1>3 DEF SelfdestructTo
    <2> HIDE DEF m, v
    <2> QED
      BY <1>1, <2>1, <2>2, <2>3, PayingIsolates
  <1> QED
    BY <1>2, <1>3 DEF Selfdestruct

(* CREATE creates and pays. *)
LEMMA CreateIsolates ==
    ASSUME IInv, Create
    PROVE  IsolationStep
  <1>1. Running
    BY DispatchRuns DEF Create
  <1>2. CASE UNCHANGED accounts
    BY <1>2, QuietIsolates
  <1>3. ASSUME NEW v \in Word, NEW end, NEW n, CreateAccount(v, end, n),
               accounts' # accounts
        PROVE  IsolationStep
    <2> DEFINE a == NewAddress(top.acc, accounts[top.acc].nonce)
               m == gs_create(accounts, a, v)
    <2>1. IsAccounts(accounts) /\ top.acc \in DOMAIN accounts /\ top.acc \in Addr
      BY <1>1, RunningTypes
    <2>2. a \in Addr
      BY <2>1, BalanceIsWord, AddressAssumption DEF Account
    <2>3. \/ accounts' = m
          \/ pay_error(m, top.acc, a, v) = "none" /\ accounts' = pay_to(m, top.acc, a, v)
      BY <1>3 DEF CreateAccount
    <2> HIDE DEF a
    <2>4. /\ IsAccounts(m) /\ DOMAIN m = DOMAIN accounts \cup {a}
          /\ \A x \in DOMAIN accounts : m[x] = accounts[x]
      BY <2>1, <2>2, CreateAccountType, CreateKeepsOthers
    <2> HIDE DEF m
    <2> QED
      BY <1>1, <2>3, <2>4, PayingIsolates
  <1> QED
    BY <1>2, <1>3 DEF Create

(* The calls look up and pay. *)
LEMMA CallIsolates ==
    ASSUME IInv, Call
    PROVE  IsolationStep
  <1>1. Running
    BY DispatchRuns DEF Call
  <1>2. CASE UNCHANGED accounts
    BY <1>2, QuietIsolates
  <1>3. ASSUME NEW o, NEW n, NEW a \in Addr, NEW v \in Word, NEW in, NEW out, NEW ret,
               CallAccount(o, pop(top, n), a, v, in, out, ret), accounts' # accounts
        PROVE  IsolationStep
    <2> DEFINE m == gs_get(accounts, a)
    <2>1. IsAccounts(accounts) /\ top \in Context
      BY <1>1, RunningTypes, TopEvolves
    <2>2. pop(top, n).acc = top.acc
      BY <2>1 DEF pop, Context
    <2>3. \/ accounts' = m
          \/ pay_error(m, top.acc, a, v) = "none" /\ accounts' = pay_to(m, top.acc, a, v)
      BY <1>3, <2>2 DEF CallAccount
    <2>4. /\ IsAccounts(m) /\ DOMAIN m = DOMAIN accounts \cup {a}
          /\ \A x \in DOMAIN accounts : m[x] = accounts[x]
      BY <2>1, GetAccount, GetKeeps
    <2> HIDE DEF m
    <2> QED
      BY <1>1, <2>3, <2>4, PayingIsolates
  <1>4. 0 \in Word
    BY WordAssumption DEF Word
  <1>5. PICK o \in CallKind :
          \/ UNCHANGED accounts
          \/ \E a \in Addr, v \in IF o = "DELEGATECALL" THEN {0} ELSE Word,
                in \in MemEnd, out \in MemEnd :
                  \E ret \in {0, out} :
                      CallAccount(o, pop(top, IF o = "DELEGATECALL" THEN 6 ELSE 7),
                                  a, v, in, out, ret)
    BY DEF Call
  <1> QED
    BY <1>2, <1>3, <1>4, <1>5

(* When the return handler of CREATE stores code, the context of the init     *)
(* code ends in the same step.                                                *)
LEMMA ReturnIsolates ==
    ASSUME IInv, Return
    PROVE  IsolationStep
  <1>1. Running
    BY DispatchRuns DEF Return
  <1>2. CASE UNCHANGED accounts
    BY <1>2, QuietIsolates
  <1>3. ASSUME NEW n, ReturnToCreate(n), accounts' # accounts
        PROVE  IsolationStep
    <2>1. PICK a \in DOMAIN accounts : accounts' = set_code(accounts, a, n)
      BY <1>3 DEF ReturnToCreate
    <2>2. depth' < depth /\ top.kind = "CREATE" /\ depth > 0
      <3>1. \/ Resume(depth, push(ctxts[depth - 1]))
            \/ throw("outOfBounds")
            \/ EndRun("crashed")
        BY <1>3 DEF ReturnToCreate
      <3>2. depth \in Nat /\ depth > 0 /\ top.kind = "CREATE"
        BY <1>1, <1>3, RunningTypes DEF Running, ReturnToCreate
      <3>3. depth' \in {0, depth - 1}
        BY <3>1 DEF Resume, EndRun, throw, catch, Leave
      <3> QED
        BY <3>2, <3>3
    <2>3. IsAccounts(accounts)
      BY <1>1, RunningTypes
    <2>4. /\ DOMAIN accounts' = DOMAIN accounts
          /\ \A x \in DOMAIN accounts :
                accounts'[x].st = accounts[x].st /\ accounts'[x].balance = accounts[x].balance
      BY <2>1, <2>3, AccountsForm DEF set_code, Account
    <2>5. \A x \in DOMAIN accounts : accounts[x].balance \in Nat
      BY <2>3, BalanceIsWord
    <2> QED
      BY <2>2, <2>4, <2>5 DEF IsolationStep
  <1> QED
    BY <1>2, <1>3 DEF Return, ReturnToHost, ReturnToCall

(* Every step of the processor. *)
LEMMA StepIsolates ==
    ASSUME IInv, [Next]_vars
    PROVE  IsolationStep
  <1>1. CASE UNCHANGED accounts
    BY <1>1, QuietIsolates
  <1>2. CASE Execute /\ ~ UNCHANGED accounts
    BY <1>2, ReadsAndStoresIsolate, SelfdestructIsolates, CreateIsolates, CallIsolates,
       ReturnIsolates
       DEF Execute, Compute, Pop, Swap, Dup, Push, Jump, Jumpi, Jumpdest, UnknownOpcode,
           MemoryAccess, Calldataload, Log, Stop
  <1>3. CASE Run
    BY <1>3 DEF Run, IsolationStep
  <1>4. CASE Finish /\ ~ UNCHANGED accounts
    BY <1>4 DEF Finish, FinishNoContext, FinishOffEnd, CleanUp, IsolationStep
  <1> QED
    BY <1>1, <1>2, <1>3, <1>4 DEF Next, Quiescent, vars

(* No instruction takes from an account that is not the current context's,    *)
(* writes its storage or removes it, and code changes only when init code     *)
(* returns: for all opcodes, limits and accounts.                             *)
THEOREM SpecIsolation == Spec => Isolation
  <1>1. IInv /\ [Next]_vars => [IsolationStep]_vars
    BY StepIsolates
  <1> QED
    BY <1>1, SpecIInv, PTL DEF Spec, Isolation

-----------------------------------------------------------------------------
(* The stack of contexts. *)

(* Every step is a step of CallStack, or changes none of its variables. *)
LEMMA StepRefines ==
    ASSUME IInv, [Next]_vars
    PROVE  [CS!Next]_(CS!vars)
  <1>1. CASE Next /\ ~ UNCHANGED vars
    BY <1>1, ExecuteKeeps, RunKeeps, FinishKeeps DEF Next, Quiescent, Kept
  <1>2. CASE UNCHANGED vars
    BY <1>2 DEF vars, CS!vars
  <1> QED
    BY <1>1, <1>2

(* The stack of contexts implements CallStack, whatever the programs do. *)
THEOREM SpecRefinesCallStack == Spec => RefinesCallStack
  <1>1. Init => CS!Init
    BY DEF Init, CS!Init, NoFrames, DefaultResult
  <1>2. IInv /\ [Next]_vars => [CS!Next]_(CS!vars)
    BY StepRefines
  <1> QED
    BY <1>1, <1>2, SpecIInv, PTL DEF Spec, RefinesCallStack, CS!Spec

-----------------------------------------------------------------------------
(* The first instruction. *)

(* A context that is fresh is alone and has nothing on its stack, so no       *)
(* handler that writes accounts or logs finds its operands.                   *)
LEMMA FreshIsQuiet ==
    ASSUME IInv, Execute, top.pc_changed
    PROVE  UNCHANGED <<accounts, logs>>
  <1>1. Running
    BY ExecuteRuns
  <1>2. depth \in 1 .. depth
    BY <1>1 DEF IInv, TypeOK, Running
  <1>3. top.s = 0
    BY <1>2 DEF IInv, FreshOnlyAtStart, top
  <1>4. CASE Sstore \/ BalanceOrExtcodesize \/ Extcodecopy \/ Selfdestruct
    BY <1>3, <1>4 DEF Sstore, BalanceOrExtcodesize, Extcodecopy, Selfdestruct
  <1>5. CASE Log
    BY <1>3, <1>5 DEF Log
  <1>6. CASE Return
    BY <1>3, <1>6 DEF Return
  <1>7. CASE Create
    BY <1>3, <1>7 DEF Create
  <1>8. CASE Call
    BY <1>3, <1>8 DEF Call
  <1> QED
    BY <1>4, <1>5, <1>6, <1>7, <1>8
       DEF Execute, Compute, Pop, Swap, Dup, Push, Jump, Jumpi, Jumpdest, UnknownOpcode,
           MemoryAccess, Calldataload, Stop

(* Nor does such a context enter another. *)
LEMMA FreshEntersNothing ==
    ASSUME IInv, IInv', depth > 0, top.pc_changed, [CS!Next]_(CS!vars)
    PROVE  depth' <= depth
  <1>1. phase = "run" /\ depth \in Nat /\ depth \in 1 .. depth /\ top \in Context
    BY DEF IInv, TypeOK, top
  <1>2. top.s = 0
    BY <1>1 DEF IInv, FreshOnlyAtStart, top
  <1>3. ~ CS!Enter
    <2> SUFFICES ASSUME CS!Enter PROVE FALSE
      OBVIOUS
    <2>1. ctxts'[depth].s + 3 <= 0 /\ depth' = depth + 1
      BY <1>2 DEF CS!Enter, CS!IsStack, top
    <2>2. ctxts'[depth] \in Context
      BY <1>1, <2>1 DEF IInv, TypeOK
    <2>3. ctxts'[depth].s \in Nat
      BY <2>2, SizesAssumption DEF Context
    <2> QED
      BY <2>1, <2>3
  <1>4. CASE CS!Work \/ CS!Answer \/ CS!Report \/ CS!Drop \/ CS!Close \/ CS!Begin
    BY <1>1, <1>4
       DEF CS!Work, CS!Answer, CS!Report, CS!Drop, CS!Close, CS!Begin, CS!IsStack
  <1>5. CASE UNCHANGED CS!vars
    BY <1>1, <1>5 DEF CS!vars
  <1> QED
    BY <1>3, <1>4, <1>5 DEF CS!Next

(* What the loop runs before it clears pc_changed for the first time, and     *)
(* runs again after that, changes no account, emits no log and calls no one.  *)
LEMMA FirstStep ==
    ASSUME IInv, IInv', [Next]_vars
    PROVE  FirstStepHarmless
  <1> SUFFICES ASSUME depth > 0, top.pc_changed, phase' = "run"
               PROVE  accounts' = accounts /\ logs' = logs /\ depth' <= depth
    BY DEF FirstStepHarmless
  <1>1. depth' <= depth
    BY StepRefines, FreshEntersNothing
  <1>2. phase = "run"
    BY DEF IInv, TypeOK
  <1>3. CASE Execute
    BY <1>1, <1>3, FreshIsQuiet
  <1>4. CASE Run \/ Finish
    BY <1>2, <1>4 DEF Run, Finish, FinishNoContext, FinishOffEnd, CleanUp
  <1>5. CASE Quiescent \/ UNCHANGED vars
    BY <1>1, <1>5 DEF Quiescent, vars
  <1> QED
    BY <1>3, <1>4, <1>5 DEF Next

(* The instruction that is executed twice does no harm, whatever it is. *)
THEOREM SpecFirstInstructionHarmless == Spec => FirstInstructionHarmless
  <1>1. IInv /\ IInv' /\ [Next]_vars => [FirstStepHarmless]_vars
    BY FirstStep
  <1> QED
    BY <1>1, SpecIInv, PTL DEF Spec, FirstInstructionHarmless

-----------------------------------------------------------------------------
(* What a context is entered with. *)

(* The ways an iteration can end without push_context leave no more contexts. *)
LEMMA EndsNoDeeper ==
    ASSUME depth \in Nat,
           \/ \E c : Proceed(c)
           \/ \E c : Yield(c)
           \/ \E n \in {depth, depth - 1} : \E ex : catch(n, ex)
           \/ \E n \in {depth, depth - 1} : \E c : Resume(n, c)
           \/ stop
           \/ \E r : Leave(r)
           \/ \E how : EndRun(how)
    PROVE  ~ (depth' > depth)
  <1>1. depth' \in {0, depth, depth - 1, depth - 2}
    BY DEF Proceed, Yield, throw, catch, Resume, stop, Leave, EndRun
  <1> QED
    BY <1>1

(* So does every handler but those of CREATE and of the calls. *)
LEMMA OnlyCallsEnter ==
    ASSUME depth \in Nat, Execute, ~ Create, ~ Call
    PROVE  ~ (depth' > depth)
  <1>1. CASE Compute
    BY <1>1, EndsNoDeeper DEF Compute, throw
  <1>2. CASE Pop \/ Swap \/ Dup \/ Push \/ Jumpdest
    BY <1>2, EndsNoDeeper DEF Pop, Swap, Dup, Push, Jumpdest, throw
  <1>3. CASE Jump \/ Jumpi \/ UnknownOpcode
    BY <1>3, EndsNoDeeper DEF Jump, Jumpi, jump_to, UnknownOpcode, throw
  <1>4. CASE MemoryAccess
    BY <1>4, EndsNoDeeper DEF MemoryAccess, throw
  <1>5. CASE Calldataload \/ Sstore \/ BalanceOrExtcodesize \/ Extcodecopy \/ Log
    BY <1>5, EndsNoDeeper
       DEF Calldataload, Sstore, BalanceOrExtcodesize, Extcodecopy, Log, throw
  <1>6. CASE Return
    BY <1>6, EndsNoDeeper
       DEF Return, ReturnToHost, ReturnToCall, ReturnToCreate, throw
  <1>7. CASE Stop \/ Selfdestruct
    BY <1>7, EndsNoDeeper DEF Stop, Selfdestruct, SelfdestructTo, throw
  <1> QED
    BY <1>1, <1>2, <1>3, <1>4, <1>5, <1>6, <1>7 DEF Execute

(* An account that has code was there before the lookup. *)
LEMMA CodeWasThere ==
    ASSUME NEW m, NEW a, gs_get(m, a)[a].code > 0
    PROVE  a \in DOMAIN m /\ gs_get(m, a) = m
  BY DEF gs_get, gs_create, gs_insert, NewAccount

(* What has happened when call() pushes a context: the account a that was     *)
(* called was there and got v from the current one, and the new context is    *)
(* one of the three of its switch.                                            *)
CallEntered(e) ==
    \E a \in DOMAIN accounts, v \in Word :
        /\ pay_error(accounts, top.acc, a, v) = "none"
        /\ accounts' = pay_to(accounts, top.acc, a, v)
        /\ \/ /\ e.kind = "CALL" /\ e.acc = a /\ e.caller = top.acc
              /\ e.call_value = v
           \/ /\ e.kind = "CALLCODE" /\ e.acc = top.acc /\ e.caller = top.acc
              /\ e.call_value = v
           \/ e.kind = "DELEGATECALL" /\ e.acc = top.acc /\ v = 0

(* What call() does, unless a pop throws: it takes six or seven words for the *)
(* operands of CallAccount.                                                   *)
LEMMA CallChosen ==
    ASSUME IInv, Call
    PROVE  \/ throw("outOfBounds") /\ UNCHANGED accounts
           \/ \E o \in CallKind, k \in {6, 7}, a \in Addr, v \in Word,
                 in \in MemEnd, out \in MemEnd, ret \in MemEnd :
                    /\ o = "DELEGATECALL" => v = 0
                    /\ k <= top.s
                    /\ CallAccount(o, pop(top, k), a, v, in, out, ret)
  <1> SUFFICES ASSUME ~ (throw("outOfBounds") /\ UNCHANGED accounts)
               PROVE  \E o \in CallKind, k \in {6, 7}, a \in Addr, v \in Word,
                         in \in MemEnd, out \in MemEnd, ret \in MemEnd :
                            /\ o = "DELEGATECALL" => v = 0
                            /\ k <= top.s
                            /\ CallAccount(o, pop(top, k), a, v, in, out, ret)
    OBVIOUS
  <1>1. Running
    BY DispatchRuns DEF Call
  <1>2. 0 \in Word /\ 0 \in MemEnd
    BY WordAssumption, SizesAssumption DEF Word, MemEnd
  <1>3. PICK o \in CallKind :
          LET n == IF o = "DELEGATECALL" THEN 6 ELSE 7
          IN  /\ top.s >= n
              /\ \E a \in Addr, v \in IF o = "DELEGATECALL" THEN {0} ELSE Word,
                    in \in MemEnd, out \in MemEnd :
                      \E ret \in {0, out} :
                          CallAccount(o, pop(top, n), a, v, in, out, ret)
    BY DEF Call
  <1>4. CASE o = "DELEGATECALL"
    <2>1. PICK a \in Addr, in \in MemEnd, out \in MemEnd, ret \in MemEnd :
            CallAccount(o, pop(top, 6), a, 0, in, out, ret)
      BY <1>2, <1>3, <1>4
    <2>2. 6 <= top.s
      BY <1>1, <1>3, <1>4, RunningTypes
    <2> QED
      BY <1>2, <1>4, <2>1, <2>2
  <1>5. CASE o # "DELEGATECALL"
    <2>1. PICK a \in Addr, v \in Word, in \in MemEnd, out \in MemEnd, ret \in MemEnd :
            CallAccount(o, pop(top, 7), a, v, in, out, ret)
      BY <1>2, <1>3, <1>5
    <2>2. 7 <= top.s
      BY <1>1, <1>3, <1>5, RunningTypes
    <2> QED
      BY <1>5, <2>1, <2>2
  <1> QED
    BY <1>4, <1>5

(* call() pushes at most one context, after a payment. *)
LEMMA CallEnters ==
    ASSUME IInv, Call, depth' > depth
    PROVE  depth' = depth + 1 /\ CallEntered(ctxts'[depth'])
  <1>1. Running /\ depth \in Nat /\ IsAccounts(accounts)
    BY DispatchRuns, RunningTypes DEF Call
  <1>2. ~ throw("outOfBounds")
    BY <1>1, EndsNoDeeper DEF throw
  <1>3. PICK o \in CallKind, k \in {6, 7}, a \in Addr, v \in Word,
             in \in MemEnd, out \in MemEnd, ret \in MemEnd :
          /\ o = "DELEGATECALL" => v = 0
          /\ k <= top.s
          /\ CallAccount(o, pop(top, k), a, v, in, out, ret)
    BY <1>2, CallChosen
  <1> DEFINE c == pop(top, k)
             m == gs_get(accounts, a)
             p == grow(grow(c, out), in)
             e == Callee(o, a, v, m[a].code, ret)
  <1>4. c.acc = top.acc
    BY <1>1, TopEvolves DEF pop, Context
  <1>5. \A ex : ~ throw(ex)
    BY <1>1, EndsNoDeeper DEF throw
  <1>6. ~ Yield(c)
    BY <1>1, EndsNoDeeper
  <1>7. /\ pay_error(m, top.acc, a, v) = "none"
        /\ accounts' = pay_to(m, top.acc, a, v)
        /\ m[a].code > 0
        /\ Enter(p, e)
    BY <1>3, <1>4, <1>5, <1>6 DEF CallAccount
  <1>8. a \in DOMAIN accounts /\ m = accounts
    BY <1>7, CodeWasThere
  <1>9. depth' = depth + 1 /\ ctxts'[depth'] = step(e)
    BY <1>1, <1>7 DEF Enter
  <1>10. /\ step(e).kind = e.kind /\ step(e).acc = e.acc /\ step(e).caller = e.caller
         /\ step(e).call_value = e.call_value /\ step(e).code = e.code
    <2>1. e \in Context
      <3>1. m[a].code \in Nat /\ ret \in Nat
        BY <1>1, <1>8, BalanceIsWord, SizesAssumption DEF Account, MemEnd
      <3>2. Evolves(top)
        BY <1>1, TopEvolves
      <3> HIDE DEF m
      <3> QED
        BY <1>1, <3>1, <3>2, CalleeContext
    <2> HIDE DEF e
    <2> QED
      BY <2>1, StepContext
  <1>11. /\ o = "CALL" => /\ e.kind = "CALL" /\ e.acc = a /\ e.caller = top.acc
                          /\ e.call_value = v
         /\ o = "CALLCODE" => /\ e.kind = "CALLCODE" /\ e.acc = top.acc
                              /\ e.caller = top.acc /\ e.call_value = v
         /\ o = "DELEGATECALL" => e.kind = "DELEGATECALL" /\ e.acc = top.acc
    BY DEF Callee, NewContext
  <1> HIDE DEF e, m, p, c
  <1>12. CallEntered(step(e))
    BY <1>3, <1>7, <1>8, <1>10, <1>11 DEF CallEntered, CallKind
  <1> QED
    BY <1>9, <1>12

-----------------------------------------------------------------------------
(* Values. *)

(* A step that enters a context has paid the value it was entered with. *)
LEMMA EntryPays ==
    ASSUME IInv, [Next]_vars
    PROVE  EntryStep
  <1> SUFFICES ASSUME phase = "run", depth' > depth
               PROVE  EntryStep
    BY DEF EntryStep
  <1>1. depth \in Nat
    BY DEF IInv, TypeOK
  <1>2. Create \/ Call
    <2>1. ~ (Finish \/ Run \/ Quiescent \/ UNCHANGED vars)
      BY <1>1 DEF Finish, FinishNoContext, FinishOffEnd, Run, Quiescent, vars
    <2> QED
      BY <1>1, <2>1, OnlyCallsEnter DEF Next
  <1>3. CASE Call
    <2>1. Running /\ IsAccounts(accounts) /\ top.acc \in DOMAIN accounts
      BY <1>3, DispatchRuns, RunningTypes DEF Call
    <2> DEFINE e == ctxts'[depth']
    <2>2. CallEntered(e)
      BY <1>3, CallEnters
    <2> HIDE DEF e
    <2>3. PICK a \in DOMAIN accounts, v \in Word :
            /\ pay_error(accounts, top.acc, a, v) = "none"
            /\ accounts' = pay_to(accounts, top.acc, a, v)
            /\ \/ /\ e.kind = "CALL" /\ e.acc = a /\ e.caller = top.acc
                  /\ e.call_value = v
               \/ /\ e.kind = "CALLCODE" /\ e.acc = top.acc /\ e.call_value = v
               \/ e.kind = "DELEGATECALL" /\ v = 0
      BY <2>2 DEF CallEntered
    <2>4. /\ accounts'[a].balance - accounts[a].balance = v
          /\ top.acc # a => accounts'[top.acc].balance - accounts[top.acc].balance = - v
          /\ v = 0 => accounts' = accounts
      BY <2>1, <2>3, PaymentGains
    <2> QED
      BY <2>3, <2>4 DEF EntryStep, e
  <1>4. CASE Create
    <2>1. Running
      BY <1>4, DispatchRuns DEF Create
    <2>2. \A ex : ~ throw(ex)
      BY <1>1, EndsNoDeeper DEF throw
    <2>3. \A how : ~ EndRun(how)
      BY <1>1, EndsNoDeeper
    <2>4. PICK p, a, n : Enter(p, NewContext(a, top.acc, 0, n, "CREATE", 0))
      BY <1>4, <2>2, <2>3 DEF Create, CreateAccount
    <2>5. ctxts'[depth'].kind = "CREATE"
      <3> DEFINE e == NewContext(a, top.acc, 0, n, "CREATE", 0)
      <3>1. ctxts'[depth'] = step(e)
        BY <1>1, <2>4 DEF Enter
      <3>2. step(e).kind = "CREATE"
        BY DEF step, NewContext
      <3> QED
        BY <3>1, <3>2
    <2> QED
      BY <2>5 DEF EntryStep
  <1> QED
    BY <1>2, <1>3, <1>4

(* The value a context knows is paid once: for CALL by the caller to the      *)
(* callee when it is entered, for DELEGATECALL earlier.                       *)
THEOREM SpecValuePaidOnEntry == Spec => ValuePaidOnEntry
  <1>1. IInv /\ [Next]_vars => [EntryStep]_vars
    BY EntryPays
  <1> QED
    BY <1>1, SpecIInv, PTL DEF Spec, ValuePaidOnEntry

-----------------------------------------------------------------------------
(* Transfers. *)

(* Nobody gains where all balances are as before and new ones are empty. *)
LEMMA NobodyGains ==
    ASSUME IInv,
           \A x \in DOMAIN accounts' :
              accounts'[x].balance = IF x \in DOMAIN accounts THEN accounts[x].balance ELSE 0,
           NEW a \in DOMAIN accounts'
    PROVE  ~ Gains(a)
  <1>1. a \in DOMAIN accounts => accounts[a].balance \in Nat
    BY BalanceIsWord DEF IInv, TypeOK
  <1> QED
    BY <1>1 DEF Gains

(* A lookup gives nobody anything. *)
LEMMA LookupGains ==
    ASSUME IInv, NEW q \in Addr, accounts' = gs_get(accounts, q), NEW a \in DOMAIN accounts'
    PROVE  ~ Gains(a)
  <1>1. IsAccounts(accounts)
    BY DEF IInv, TypeOK
  <1>2. /\ DOMAIN accounts' = DOMAIN accounts \cup {q}
        /\ \A x \in DOMAIN accounts : accounts'[x] = accounts[x]
    BY <1>1, GetAccount, GetKeeps
  <1>3. q \notin DOMAIN accounts => accounts'[q].balance = 0
    BY DEF gs_get, gs_create, gs_insert, NewAccount
  <1> QED
    BY <1>2, <1>3, NobodyGains

(* Of a payment after a lookup or a creation, only the payee gains. *)
LEMMA OnlyPayeeGains ==
    ASSUME IInv, Running, NEW k, IsAccounts(k), NEW q, DOMAIN k = DOMAIN accounts \cup {q},
           \A x \in DOMAIN accounts : k[x] = accounts[x], NEW v \in Word,
           \/ accounts' = k
           \/ pay_error(k, top.acc, q, v) = "none" /\ accounts' = pay_to(k, top.acc, q, v),
           NEW a \in DOMAIN accounts' \ {top.acc}, Gains(a)
    PROVE  a = q
  <1> SUFFICES ASSUME a # q
               PROVE  FALSE
    OBVIOUS
  <1>1. DOMAIN accounts' = DOMAIN k /\ accounts'[a] = k[a]
    <2>1. DOMAIN pay_to(k, top.acc, q, v) = DOMAIN k
      BY DEF pay_to, set_balance
    <2>2. a \in DOMAIN k => pay_to(k, top.acc, q, v)[a] = k[a]
      BY AccountsForm DEF pay_to, set_balance
    <2> QED
      BY <2>1, <2>2
  <1>2. a \in DOMAIN accounts /\ accounts'[a].balance = accounts[a].balance
    BY <1>1
  <1>3. accounts[a].balance \in Nat
    BY <1>2, RunningTypes, BalanceIsWord
  <1> QED
    BY <1>2, <1>3 DEF Gains

(* What SELFDESTRUCT pays is everything. *)
LEMMA SelfdestructTransfers ==
    ASSUME IInv, Selfdestruct, NEW a \in DOMAIN accounts' \ {top.acc}, Gains(a)
    PROVE  top.acc \in selfdestruct_list' /\ accounts'[top.acc].balance = 0
  <1>1. Running
    BY DispatchRuns DEF Selfdestruct
  <1>2. ~ UNCHANGED accounts
    BY NobodyGains
  <1>3. PICK r \in Addr : SelfdestructTo(r)
    BY <1>2 DEF Selfdestruct
  <1> DEFINE m == gs_get(accounts, r)
             v == m[top.acc].balance
  <1>4. /\ IsAccounts(m) /\ DOMAIN m = DOMAIN accounts \cup {r}
        /\ \A x \in DOMAIN accounts : m[x] = accounts[x]
        /\ top.acc \in DOMAIN m
    BY <1>1, RunningTypes, GetAccount, GetKeeps
  <1>5. accounts' # m
    BY LookupGains
  <1>6. /\ pay_error(m, top.acc, r, v) = "none" /\ accounts' = pay_to(m, top.acc, r, v)
        /\ top.acc \in selfdestruct_list'
    BY <1>3, <1>5 DEF SelfdestructTo
  <1> HIDE DEF m
  <1>7. v \in Word /\ v \in Nat
    BY <1>4, BalanceIsWord DEF Account
  <1>8. a = r
    BY <1>1, <1>4, <1>6, <1>7, OnlyPayeeGains
  <1>9. accounts'[top.acc].balance - v = - v /\ accounts'[top.acc].balance \in Nat
    <2>1. IsAccounts(accounts') /\ DOMAIN accounts' = DOMAIN m
      BY <1>4, <1>6, <1>7, PaymentType
    <2>2. top.acc # r /\ r \in DOMAIN m
      BY <1>4, <1>8
    <2>3. accounts'[top.acc].balance - m[top.acc].balance = - v
      <3> HIDE DEF v
      <3>1. pay_error(m, top.acc, r, v) = "none"
        BY <1>6
      <3>2. pay_to(m, top.acc, r, v)[top.acc].balance - m[top.acc].balance = - v
        BY <1>4, <1>7, <2>2, <3>1, PaymentGains
      <3> QED
        BY <1>6, <3>2
    <2> QED
      BY <1>4, <2>1, <2>3, BalanceIsWord
  <1> HIDE DEF v
  <1> QED
    BY <1>6, <1>7, <1>9

(* CREATE pays the address it generates. *)
LEMMA CreateTransfers ==
    ASSUME IInv, Create, NEW a \in DOMAIN accounts' \ {top.acc}, Gains(a)
    PROVE  "CREATE" \in Ops /\ a = NewAddress(top.acc, accounts[top.acc].nonce)
  <1>1. Running /\ "CREATE" \in Ops
    BY DispatchRuns DEF Create, dispatch
  <1>2. ~ UNCHANGED accounts
    BY NobodyGains
  <1>3. PICK v \in Word : \E end, n : CreateAccount(v, end, n)
    BY <1>2 DEF Create
  <1> DEFINE q == NewAddress(top.acc, accounts[top.acc].nonce)
             m == gs_create(accounts, q, v)
  <1>4. IsAccounts(accounts) /\ q \in Addr
    BY <1>1, RunningTypes, BalanceIsWord, AddressAssumption DEF Account
  <1>5. \/ accounts' = m
        \/ pay_error(m, top.acc, q, v) = "none" /\ accounts' = pay_to(m, top.acc, q, v)
    BY <1>2, <1>3 DEF CreateAccount
  <1> HIDE DEF q
  <1>6. /\ IsAccounts(m) /\ DOMAIN m = DOMAIN accounts \cup {q}
        /\ \A x \in DOMAIN accounts : m[x] = accounts[x]
    BY <1>4, CreateAccountType, CreateKeepsOthers
  <1> HIDE DEF m
  <1>7. a = q
    BY <1>1, <1>5, <1>6, OnlyPayeeGains
  <1> QED
    BY <1>1, <1>7 DEF q

(* Without DUP, the answer of an account without code finds room, so a call   *)
(* that fails after it paid has paid an account with code.                    *)
LEMMA CallTransfers ==
    ASSUME IInv, Call, "DUP" \notin Ops, depth' < depth,
           NEW a \in DOMAIN accounts' \ {top.acc}, Gains(a)
    PROVE  accounts'[a].code > 0
  <1>1. Running
    BY DispatchRuns DEF Call
  <1>2. /\ IsAccounts(accounts) /\ depth \in Nat /\ top \in Context
        /\ top.s \in Nat /\ top.s <= MaxStack /\ top.acc \in DOMAIN accounts
    BY <1>1, RunningTypes, TopEvolves DEF IInv, HandlerRoom, Running, top
  <1>3. ~ UNCHANGED accounts
    BY NobodyGains
  <1>4. PICK o \in CallKind, k \in {6, 7}, q \in Addr, v \in Word,
             in \in MemEnd, out \in MemEnd, ret \in MemEnd :
          k <= top.s /\ CallAccount(o, pop(top, k), q, v, in, out, ret)
    BY <1>3, CallChosen
  <1> DEFINE c == pop(top, k)
             m == gs_get(accounts, q)
  <1>5. c.acc = top.acc /\ CanPush(c)
    BY <1>2, <1>4, SizesAssumption DEF pop, CanPush, Context
  <1>6. accounts' # m
    BY LookupGains
  <1>7. /\ pay_error(m, top.acc, q, v) = "none" /\ accounts' = pay_to(m, top.acc, q, v)
        /\ m[q].code > 0 \/ Yield(c)
    <2> HIDE DEF c
    <2>1. CallAccount(o, c, q, v, in, out, ret)
      BY <1>4 DEF c
    <2> QED
      BY <1>3, <1>5, <1>6, <2>1 DEF CallAccount
  <1>8. ~ Yield(c)
    BY <1>2, <1>5 DEF Yield, Proceed
  <1>9. /\ IsAccounts(m) /\ DOMAIN m = DOMAIN accounts \cup {q}
        /\ \A x \in DOMAIN accounts : m[x] = accounts[x]
    BY <1>2, GetAccount, GetKeeps
  <1> HIDE DEF m, c
  <1>10. a = q
    BY <1>1, <1>7, <1>9, OnlyPayeeGains
  <1>11. accounts'[q].code = m[q].code
    <2>1. top.acc \in DOMAIN m /\ q \in DOMAIN m
      BY <1>2, <1>9
    <2>2. Isolates(m, accounts', top.acc)
      BY <1>4, <1>7, <1>9, <2>1, PaymentIsolates
    <2> QED
      BY <2>1, <2>2 DEF Isolates
  <1> QED
    BY <1>7, <1>8, <1>10, <1>11

(* No other instruction gives anybody anything. *)
LEMMA OthersTransferNothing ==
    ASSUME IInv, Execute, ~ Selfdestruct, ~ Create, ~ Call, NEW a \in DOMAIN accounts'
    PROVE  ~ Gains(a)
  <1>1. Running /\ IsAccounts(accounts) /\ top.acc \in DOMAIN accounts
    BY ExecuteRuns, RunningTypes
  <1>2. CASE UNCHANGED accounts
    BY <1>2, NobodyGains
  <1>3. CASE \E k, z : accounts' = st_write(accounts, top.acc, k, z)
    <2>1. /\ DOMAIN accounts' = DOMAIN accounts
          /\ \A x \in DOMAIN accounts : accounts'[x].balance = accounts[x].balance
      BY <1>1, <1>3, AccountsForm DEF st_write, Account
    <2> QED
      BY <2>1, NobodyGains
  <1>4. CASE \E x, n : accounts' = set_code(accounts, x, n)
    <2>1. /\ DOMAIN accounts' = DOMAIN accounts
          /\ \A x \in DOMAIN accounts : accounts'[x].balance = accounts[x].balance
      BY <1>1, <1>4, AccountsForm DEF set_code, Account
    <2> QED
      BY <2>1, NobodyGains
  <1>5. CASE \E q \in Addr : accounts' = gs_get(accounts, q)
    BY <1>5, LookupGains
  <1>6. CASE Sstore
    BY <1>2, <1>3, <1>6 DEF Sstore
  <1>7. CASE BalanceOrExtcodesize \/ Extcodecopy
    BY <1>2, <1>5, <1>7 DEF BalanceOrExtcodesize, Extcodecopy
  <1>8. CASE Return
    BY <1>2, <1>4, <1>8 DEF Return, ReturnToHost, ReturnToCall, ReturnToCreate
  <1> QED
    BY <1>2, <1>6, <1>7, <1>8
       DEF Execute, Compute, Pop, Swap, Dup, Push, Jump, Jumpi, Jumpdest, UnknownOpcode,
           MemoryAccess, Calldataload, Log, Stop

(* Every step of the processor. *)
LEMMA StepTransfers ==
    ASSUME IInv, [Next]_vars
    PROVE  TransferStep
  <1> SUFFICES ASSUME "DUP" \notin Ops, phase = "run", depth' < depth,
                      NEW a \in DOMAIN accounts' \ {top.acc}, Gains(a)
               PROVE  \/ accounts'[a].code > 0
                      \/ "CREATE" \in Ops /\ a = NewAddress(top.acc, accounts[top.acc].nonce)
                      \/ top.acc \in selfdestruct_list' /\ accounts'[top.acc].balance = 0
    BY DEF TransferStep
  <1>1. depth \in Nat
    BY DEF IInv, TypeOK
  <1>2. CASE Execute
    BY <1>2, SelfdestructTransfers, CreateTransfers, CallTransfers, OthersTransferNothing
  <1>3. CASE Finish
    <2>1. \A x \in DOMAIN accounts' :
             x \in DOMAIN accounts /\ accounts'[x].balance = accounts[x].balance
      BY <1>3 DEF Finish, FinishNoContext, FinishOffEnd, CleanUp, gs_remove
    <2> QED
      BY <2>1, NobodyGains
  <1>4. ~ (Run \/ Quiescent \/ UNCHANGED vars)
    BY <1>1 DEF Run, Quiescent, vars
  <1> QED
    BY <1>2, <1>3, <1>4 DEF Next

(* A transfer to an account without code is all or nothing, at every depth    *)
(* and for every limit: whatever ends a context after a payment, the payee    *)
(* has code, or is new, or inherits.                                          *)
THEOREM SpecTransferIsAtomic == Spec => TransferIsAtomic
  <1>1. IInv /\ [Next]_vars => [TransferStep]_vars
    BY StepTransfers
  <1> QED
    BY <1>1, SpecIInv, PTL DEF Spec, TransferIsAtomic

-----------------------------------------------------------------------------
(* Funds. *)

(* The supply does not fall from m to n, and rises as MintStep says: with an  *)
(* account of B that comes into being, or with nobody's balance but who's.    *)
Flows(m, n, who, B) ==
    /\ Supply(n) >= Supply(m)
    /\ Supply(n) > Supply(m)
         => \/ \E x \in B \cap (DOMAIN n \ DOMAIN m) : n[x].balance > 0
            \/ \A x \in DOMAIN m \ {who} : n[x].balance = m[x].balance

(* Writes of code and storage move no funds. *)
LEMMA SameFlows ==
    ASSUME NEW m, IsAccounts(m), NEW n, DOMAIN n = DOMAIN m,
           \A x \in DOMAIN m : n[x].balance = m[x].balance, NEW who, NEW B
    PROVE  Flows(m, n, who, B)
  BY SupplySame, AccountsFinite DEF Flows

(* Nor do lookups. *)
LEMMA GetFlows ==
    ASSUME NEW m, IsAccounts(m), NEW a \in Addr, NEW who, NEW B
    PROVE  Flows(m, gs_get(m, a), who, B)
  BY SupplyGet, AccountsFinite DEF Flows

(* Payments to oneself leave all others as they are. *)
LEMMA SelfPayment ==
    ASSUME NEW m, IsAccounts(m), NEW p \in DOMAIN m, NEW v \in Word
    PROVE  \A x \in DOMAIN m \ {p} : pay_to(m, p, p, v)[x] = m[x]
  BY AccountsForm DEF pay_to, set_balance

(* A payment after a lookup. *)
LEMMA GetPaymentFlows ==
    ASSUME NEW m, IsAccounts(m), NEW p \in DOMAIN m, NEW a \in Addr, NEW v \in Word,
           pay_error(gs_get(m, a), p, a, v) = "none", NEW B
    PROVE  Flows(m, pay_to(gs_get(m, a), p, a, v), p, B)
  <1> DEFINE k == gs_get(m, a)
             n == pay_to(k, p, a, v)
  <1>1. /\ IsAccounts(k) /\ DOMAIN k = DOMAIN m \cup {a}
        /\ \A x \in DOMAIN m : k[x] = m[x]
        /\ Supply(k) = Supply(m) /\ Supply(m) \in Nat
    BY GetAccount, GetKeeps, SupplyGet, AccountsFinite
  <1>2. pay_error(k, p, a, v) = "none"
    OBVIOUS
  <1> HIDE DEF k
  <1>3. Supply(n) = IF p = a THEN Supply(k) + v ELSE Supply(k)
    BY <1>1, <1>2, PaymentSupply
  <1>4. v \in Nat
    BY WordAssumption DEF Word
  <1>5. p = a => \A x \in DOMAIN m \ {p} : n[x] = m[x]
    BY <1>1, SelfPayment
  <1>6. Flows(m, n, p, B)
    <2> HIDE DEF n
    <2> QED
      BY <1>1, <1>3, <1>4, <1>5 DEF Flows
  <1> QED
    BY <1>6 DEF k

(* CREATE brings an account with a balance into being, and pays it again.     *)
(* When the address was taken and assertions are off, it only pays.           *)
LEMMA CreateFlows ==
    ASSUME NEW m, IsAccounts(m), NEW p \in DOMAIN m, NEW a \in Addr, NEW v \in Word,
           NEW n, NEW B, a \in B,
           \/ n = gs_create(m, a, v)
           \/ /\ pay_error(gs_create(m, a, v), p, a, v) = "none"
              /\ n = pay_to(gs_create(m, a, v), p, a, v)
    PROVE  Flows(m, n, p, B)
  <1>1. v \in Nat /\ Supply(m) \in Nat
    BY AccountsFinite, WordAssumption DEF Word
  <1>2. CASE a \in DOMAIN m
    <2>1. gs_create(m, a, v) = gs_get(m, a)
      BY <1>2 DEF gs_create, gs_insert, gs_get
    <2> QED
      BY <2>1, GetFlows, GetPaymentFlows
  <1>3. CASE a \notin DOMAIN m
    <2> DEFINE k == gs_create(m, a, v)
    <2>1. IsAccounts(k) /\ DOMAIN k = DOMAIN m \cup {a} /\ Supply(k) = Supply(m) + v
      BY <1>3, CreateAccountType, SupplyCreate
    <2>2. k[a].balance = v
      BY <1>3 DEF gs_create, gs_insert, NewAccount
    <2>3. \/ n = k
          \/ pay_error(k, p, a, v) = "none" /\ n = pay_to(k, p, a, v)
      OBVIOUS
    <2> HIDE DEF k
    <2>4. CASE n = k
      BY <1>1, <1>3, <2>1, <2>2, <2>4 DEF Flows
    <2>5. CASE pay_error(k, p, a, v) = "none" /\ n = pay_to(k, p, a, v)
      <3>1. Supply(n) = Supply(k)
        BY <1>3, <2>1, <2>5, PaymentSupply
      <3>2. n[a].balance - v = v /\ DOMAIN n = DOMAIN k /\ n[a].balance \in Nat
        <4>1. IsAccounts(n) /\ DOMAIN n = DOMAIN k
          BY <2>1, <2>5, PaymentType
        <4>2. n[a].balance - v = v
          BY <2>1, <2>2, <2>5, PaymentGains
        <4> QED
          BY <2>1, <4>1, <4>2, AccountsFinite
      <3>3. a \in DOMAIN n \ DOMAIN m
        BY <1>3, <2>1, <3>2
      <3>4. v > 0 => n[a].balance > 0
        BY <1>1, <3>2
      <3> QED
        BY <1>1, <2>1, <3>1, <3>3, <3>4 DEF Flows
    <2> QED
      BY <2>3, <2>4, <2>5
  <1> QED
    BY <1>2, <1>3

(* The clean-up takes what it removes, and adds nothing. *)
LEMMA CleanUpFunds ==
    ASSUME IInv, CleanUp
    PROVE  FundsStep /\ MintStep
  <1> DEFINE gone == [x \in DOMAIN accounts \cap selfdestruct_list |-> accounts[x]]
  <1>1. IsAccounts(accounts)
    BY DEF IInv, TypeOK
  <1>2. Supply(accounts) = Supply(accounts') + Supply(gone)
    BY <1>1, SupplyRemove DEF CleanUp
  <1>3. IsAccounts(gone)
    BY <1>1, AccountsForm DEF IsAccounts
  <1>4. IsAccounts(accounts')
    BY <1>1, RemoveAccounts DEF CleanUp
  <1>5. Supply(accounts') \in Nat /\ Supply(gone) \in Nat
    BY <1>3, <1>4, AccountsFinite
  <1>6. FundsStep
    BY <1>2 DEF FundsStep, CleanUp
  <1>7. MintStep
    <2> HIDE DEF gone
    <2>1. ~ (Supply(accounts') > Supply(accounts))
      BY <1>2, <1>5
    <2> QED
      BY <2>1 DEF MintStep
  <1> QED
    BY <1>6, <1>7

(* The address at which CREATE would make an account. *)
Created ==
    IF "CREATE" \in Ops THEN {NewAddress(top.acc, accounts[top.acc].nonce)} ELSE {}

(* The instructions that write accounts. *)
LEMMA InstructionFlows ==
    ASSUME IInv, Execute
    PROVE  Flows(accounts, accounts', top.acc, Created)
  <1>1. IsAccounts(accounts) /\ (Running => top.acc \in DOMAIN accounts)
    BY RunningTypes DEF IInv, TypeOK
  <1>2. CASE UNCHANGED accounts
    BY <1>1, <1>2, SameFlows
  <1>3. ASSUME NEW k, NEW z, Running, accounts' = st_write(accounts, top.acc, k, z)
        PROVE  Flows(accounts, accounts', top.acc, Created)
    <2>1. /\ DOMAIN accounts' = DOMAIN accounts
          /\ \A x \in DOMAIN accounts : accounts'[x].balance = accounts[x].balance
      BY <1>1, <1>3, AccountsForm DEF st_write, Account
    <2> QED
      BY <1>1, <2>1, SameFlows
  <1>4. ASSUME NEW a, NEW n, accounts' = set_code(accounts, a, n)
        PROVE  Flows(accounts, accounts', top.acc, Created)
    <2>1. /\ DOMAIN accounts' = DOMAIN accounts
          /\ \A x \in DOMAIN accounts : accounts'[x].balance = accounts[x].balance
      BY <1>1, <1>4, AccountsForm DEF set_code, Account
    <2> QED
      BY <1>1, <2>1, SameFlows
  <1>5. ASSUME NEW a \in Addr, accounts' = gs_get(accounts, a)
        PROVE  Flows(accounts, accounts', top.acc, Created)
    BY <1>1, <1>5, GetFlows
  <1>6. ASSUME NEW r \in Addr, SelfdestructTo(r), Running
        PROVE  Flows(accounts, accounts', top.acc, Created)
    <2> DEFINE m == gs_get(accounts, r)
               v == m[top.acc].balance
    <2>1. v \in Word
      <3>1. IsAccounts(m) /\ top.acc \in DOMAIN m
        BY <1>1, <1>6, GetAccount
      <3> HIDE DEF m
      <3> QED
        BY <3>1, BalanceIsWord DEF Account
    <2>2. \/ accounts' = m
          \/ pay_error(m, top.acc, r, v) = "none" /\ accounts' = pay_to(m, top.acc, r, v)
      BY <1>6 DEF SelfdestructTo
    <2> HIDE DEF v
    <2> QED
      BY <1>1, <1>5, <1>6, <2>1, <2>2, GetPaymentFlows
  <1>7. ASSUME NEW v \in Word, NEW end, NEW n, CreateAccount(v, end, n), Running,
               "CREATE" \in Ops
        PROVE  Flows(accounts, accounts', top.acc, Created)
    <2> DEFINE a == NewAddress(top.acc, accounts[top.acc].nonce)
               m == gs_create(accounts, a, v)
    <2>1. a \in Addr
      BY <1>1, <1>7, RunningTypes, BalanceIsWord, AddressAssumption DEF Account
    <2>2. \/ UNCHANGED accounts
          \/ accounts' = m
          \/ pay_error(m, top.acc, a, v) = "none" /\ accounts' = pay_to(m, top.acc, a, v)
      BY <1>7 DEF CreateAccount
    <2>3. a \in Created
      BY <1>7 DEF Created
    <2> HIDE DEF a
    <2> QED
      BY <1>1, <1>2, <1>7, <2>1, <2>2, <2>3, CreateFlows
  <1>8. ASSUME NEW o, NEW n, NEW a \in Addr, NEW v \in Word, NEW in, NEW out, NEW ret,
               CallAccount(o, pop(top, n), a, v, in, out, ret), Running
        PROVE  Flows(accounts, accounts', top.acc, Created)
    <2> DEFINE m == gs_get(accounts, a)
    <2>1. pop(top, n).acc = top.acc
      BY <1>8, TopEvolves DEF pop, Context
    <2>2. \/ UNCHANGED accounts
          \/ accounts' = m
          \/ pay_error(m, top.acc, a, v) = "none" /\ accounts' = pay_to(m, top.acc, a, v)
      BY <1>8, <2>1 DEF CallAccount
    <2> QED
      BY <1>1, <1>2, <1>5, <1>8, <2>2, GetPaymentFlows
  <1>9. CASE Sstore
    BY <1>2, <1>3, <1>9, DispatchRuns DEF Sstore
  <1>10. CASE BalanceOrExtcodesize \/ Extcodecopy
    BY <1>2, <1>5, <1>10 DEF BalanceOrExtcodesize, Extcodecopy
  <1>11. CASE Return
    BY <1>2, <1>4, <1>11 DEF Return, ReturnToHost, ReturnToCall, ReturnToCreate
  <1>12. CASE Selfdestruct
    BY <1>2, <1>6, <1>12, DispatchRuns DEF Selfdestruct
  <1>13. CASE Create
    BY <1>2, <1>7, <1>13, DispatchRuns DEF Create, dispatch
  <1>14. CASE Call
    <2>1. 0 \in Word
      BY WordAssumption DEF Word
    <2>2. Running
      BY <1>14, DispatchRuns DEF Call
    <2>3. PICK o \in CallKind :
            \/ UNCHANGED accounts
            \/ \E a \in Addr, v \in IF o = "DELEGATECALL" THEN {0} ELSE Word,
                  in \in MemEnd, out \in MemEnd :
                    \E ret \in {0, out} :
                        CallAccount(o, pop(top, IF o = "DELEGATECALL" THEN 6 ELSE 7),
                                    a, v, in, out, ret)
      BY <1>14 DEF Call
    <2> QED
      BY <1>2, <1>8, <2>1, <2>2, <2>3
  <1> QED
    BY <1>2, <1>9, <1>10, <1>11, <1>12, <1>13, <1>14
       DEF Execute, Compute, Pop, Swap, Dup, Push, Jump, Jumpi, Jumpdest, UnknownOpcode,
           MemoryAccess, Calldataload, Log, Stop

(* Every step of the processor. *)
LEMMA StepFunds ==
    ASSUME IInv, [Next]_vars
    PROVE  FundsStep /\ MintStep
  <1>1. IsAccounts(accounts)
    BY DEF IInv, TypeOK
  <1>2. ASSUME Flows(accounts, accounts', top.acc, Created)
        PROVE  FundsStep /\ MintStep
    BY <1>2 DEF Flows, FundsStep, MintStep, Created
  <1>3. CASE UNCHANGED accounts
    BY <1>1, <1>2, <1>3, SameFlows
  <1>4. CASE Execute
    BY <1>2, <1>4, InstructionFlows
  <1>5. CASE Run
    <2>1. PICK r \in Requests : accounts' = gs_get(accounts, r.callee)
      BY <1>5 DEF Run
    <2>2. r.callee \in Addr
      BY HostAssumption
    <2> QED
      BY <1>1, <1>2, <2>1, <2>2, GetFlows
  <1>6. CASE Finish
    BY <1>3, <1>6, CleanUpFunds DEF Finish, FinishNoContext, FinishOffEnd
  <1> QED
    BY <1>3, <1>4, <1>5, <1>6 DEF Next, Quiescent, vars

(* No instruction makes the sum of all balances smaller; the clean-up does,   *)
(* by exactly the balances of the accounts it removes.                        *)
THEOREM SpecFundsNeverVanish == Spec => FundsNeverVanish
  <1>1. IInv /\ [Next]_vars => [FundsStep]_vars
    BY StepFunds
  <1> QED
    BY <1>1, SpecIInv, PTL DEF Spec, FundsNeverVanish

(* CREATE with an endowment and payments of an account to itself are the only *)
(* steps that make the sum of all balances larger.                            *)
THEOREM SpecMintsOnlyByCreateOrSelfPayment == Spec => MintsOnlyByCreateOrSelfPayment
  <1>1. IInv /\ [Next]_vars => [MintStep]_vars
    BY StepFunds
  <1> QED
    BY <1>1, SpecIInv, PTL DEF Spec, MintsOnlyByCreateOrSelfPayment

-----------------------------------------------------------------------------
(* Progress. *)

NoJumps == Ops \cap {"JUMP", "JUMPI"} = {}

(* c is the current context at its place in the program still, or at one that *)
(* set_pc gave it.                                                            *)
Stayed(c) ==
    DOMAIN c = DOMAIN top /\ c.pc = top.pc /\ c.pc_changed = top.pc_changed

Moved(c) ==
    /\ DOMAIN c = DOMAIN top /\ c.pc \in Nat /\ c.pc <= top.code /\ c.pc_changed
    /\ NoJumps => c.pc > top.pc

(* Stack and memory have no say in where a context is. *)
LEMMA OperandsStay ==
    ASSUME top \in Context
    PROVE  /\ Stayed(top)
           /\ \A c : Stayed(c) => Stayed(push(c))
           /\ \A c, n : Stayed(c) => Stayed(pop(c, n))
           /\ \A c, end : Stayed(c) => Stayed(grow(c, end))
           /\ \A c : Moved(c) => Moved(push(c))
  BY DEF Stayed, Moved, push, pop, grow, Context

(* A handler that leaves as many contexts as there were has proceeded. *)
LEMMA EndsShallower ==
    ASSUME depth \in Nat \ {0},
           \/ \E n \in {depth, depth - 1} : \E ex : catch(n, ex)
           \/ \E n \in {depth, depth - 1} : \E c : Resume(n, c)
           \/ stop
           \/ \E r : Leave(r)
           \/ \E how : EndRun(how)
    PROVE  depth' # depth
  <1>1. depth' \in {0, depth - 1, depth - 2}
    BY DEF catch, Resume, stop, Leave, EndRun
  <1> QED
    BY <1>1

Proceeds == \E c : (Stayed(c) \/ Moved(c)) /\ Proceed(c)

(* So has one that yields, if the word it yields has room. *)
LEMMA YieldProceeds ==
    ASSUME depth \in Nat \ {0}, top \in Context, depth' = depth,
           NEW c, Stayed(c) \/ Moved(c), Yield(c)
    PROVE  Proceeds
  <1>1. Proceed(push(c))
    BY EndsShallower DEF Yield, throw
  <1> QED
    BY <1>1, OperandsStay DEF Proceeds

(* Every handler that neither enters a context nor ends one. *)
LEMMA WorkProceeds ==
    ASSUME IInv, Execute, depth' = depth
    PROVE  Proceeds /\ top.pc < top.code
  <1>1. Running /\ top.pc < top.code
    BY ExecuteRuns
  <1>2. /\ depth \in Nat \ {0} /\ top \in Context
        /\ top.pc \in Nat /\ top.code \in Nat /\ top.pc < top.code
    BY <1>1, TopEvolves DEF Running, IInv, TypeOK
  <1>3. \A ex : ~ throw(ex)
    BY <1>2, EndsShallower DEF throw
  <1>4. \A how : ~ EndRun(how)
    BY <1>2, EndsShallower
  <1>5. CASE Compute
    BY <1>2, <1>3, <1>5, OperandsStay, YieldProceeds DEF Compute
  <1>6. CASE Pop \/ Swap \/ Dup \/ Jumpdest
    BY <1>2, <1>3, <1>6, OperandsStay DEF Pop, Swap, Dup, Jumpdest, Proceeds
  <1>7. CASE Push
    <2>1. PICK bytes \in 1 .. 32 : /\ top.pc + bytes < top.code
                                   /\ Yield(set_pc(top, top.pc + bytes + 1))
      BY <1>3, <1>7 DEF Push
    <2>2. Moved(set_pc(top, top.pc + bytes + 1))
      BY <1>2, <2>1 DEF Moved, set_pc, Context
    <2> QED
      BY <1>2, <2>1, <2>2, YieldProceeds
  <1>8. CASE Jump \/ Jumpi
    <2>1. ~ NoJumps
      BY <1>8, DispatchRuns DEF NoJumps, Jump, Jumpi
    <2>2. \A c : Stayed(c) => \A newPc \in 0 .. (top.code - 1) : Moved(set_pc(c, newPc))
      BY <1>2, <2>1 DEF Stayed, Moved, set_pc, Context
    <2> QED
      BY <1>2, <1>3, <1>8, <2>2, OperandsStay DEF Jump, Jumpi, jump_to, Proceeds
  <1>9. CASE MemoryAccess
    <2>1. PICK o \in DOMAIN MemOperands, end \in 0 .. MaxMem :
            LET c == grow(pop(top, MemOperands[o]), end)
            IN  IF o \in {"MLOAD", "SHA3"} THEN Yield(c) ELSE Proceed(c)
      BY <1>3, <1>9 DEF MemoryAccess
    <2>2. Stayed(grow(pop(top, MemOperands[o]), end))
      BY <1>2, OperandsStay
    <2> QED
      BY <1>2, <2>1, <2>2, YieldProceeds DEF Proceeds
  <1>10. CASE Calldataload \/ BalanceOrExtcodesize
    BY <1>2, <1>3, <1>4, <1>10, OperandsStay, YieldProceeds
       DEF Calldataload, BalanceOrExtcodesize
  <1>11. CASE Sstore \/ Extcodecopy \/ Log
    BY <1>2, <1>3, <1>11, OperandsStay DEF Sstore, Extcodecopy, Log, Proceeds
  <1>12. ~ (UnknownOpcode \/ Return \/ Stop \/ Selfdestruct)
    BY <1>2, <1>3, <1>4, EndsShallower
       DEF UnknownOpcode, Return, ReturnToHost, ReturnToCall, ReturnToCreate, Stop,
           Selfdestruct, SelfdestructTo
  <1>13. \A p, e : ~ Enter(p, e)
    BY <1>2 DEF Enter
  <1>14. ~ Create
    BY <1>3, <1>4, <1>13 DEF Create, CreateAccount
  <1>15. CASE Call
    <2>1. PICK o, n, a, v, in, out, ret : CallAccount(o, pop(top, n), a, v, in, out, ret)
      BY <1>3, <1>15 DEF Call
    <2>2. Yield(pop(top, n))
      BY <1>3, <1>13, <2>1 DEF CallAccount
    <2> QED
      BY <1>2, <2>2, OperandsStay, YieldProceeds
  <1> QED
    BY <1>2, <1>5, <1>6, <1>7, <1>8, <1>9, <1>10, <1>11, <1>12, <1>14, <1>15 DEF Execute

(* Where the current context is after the step() that ends the iteration. *)
LEMMA StepMoves ==
    ASSUME IInv, Execute, depth' = depth
    PROVE  /\ ctxts'[depth].pc <= top.code
           /\ NoJumps => Ahead(top, ctxts'[depth])
  <1>1. PICK c : (Stayed(c) \/ Moved(c)) /\ Proceed(c)
    BY WorkProceeds DEF Proceeds
  <1>2. /\ depth \in 1 .. depth /\ top \in Context
        /\ top.pc \in Nat /\ top.code \in Nat /\ top.pc < top.code
    BY ExecuteRuns, TopEvolves DEF IInv, TypeOK, Running
  <1>3. ctxts'[depth] = step(c)
    BY <1>1, <1>2 DEF Proceed, Frames
  <1>4. "pc" \in DOMAIN c /\ "pc_changed" \in DOMAIN c
    BY <1>1, <1>2 DEF Stayed, Moved, Context
  <1>5. CASE Moved(c)
    <2>1. step(c).pc = c.pc
      BY <1>4, <1>5 DEF Moved, step
    <2> QED
      BY <1>3, <1>5, <2>1 DEF Moved, Ahead
  <1>6. CASE Stayed(c) /\ c.pc_changed
    <2>1. step(c).pc = top.pc /\ ~ step(c).pc_changed /\ top.pc_changed
      BY <1>4, <1>6 DEF Stayed, step
    <2> QED
      BY <1>2, <1>3, <2>1 DEF Ahead
  <1>7. CASE Stayed(c) /\ ~ c.pc_changed
    <2>1. step(c).pc = top.pc + 1
      BY <1>4, <1>7 DEF Stayed, step
    <2> QED
      BY <1>2, <1>3, <2>1 DEF Ahead
  <1> QED
    BY <1>1, <1>5, <1>6, <1>7

(* While contexts are left, the processor executes; and what it does to them  *)
(* is one of the three steps of CallStack that leave any.                     *)
LEMMA RunningExecutes ==
    ASSUME IInv, Next, phase = "run", depth > 0, depth' > 0, ~ UNCHANGED vars
    PROVE  Execute /\ (CS!Work \/ CS!Enter \/ CS!Answer)
  <1>1. Execute
    BY DEF Next, Run, Finish, FinishNoContext, FinishOffEnd, Quiescent
  <1>2. CS!Next
    BY <1>1, ExecuteKeeps DEF Kept
  <1> QED
    BY <1>1, <1>2 DEF CS!Next, CS!Begin, CS!Report, CS!Drop, CS!Close, CS!IsStack

(* Every instruction runs forward. *)
LEMMA StepForward ==
    ASSUME IInv, IInv', Next, ~ UNCHANGED vars
    PROVE  ForwardStep
  <1> SUFFICES ASSUME phase = "run", depth > 0, depth' > 0, NoJumps
               PROVE  /\ depth' <= depth + 1
                      /\ depth' > depth =>
                            \A i \in 1 .. depth : ctxts'[i].pc = ctxts[i].pc
                      /\ depth' <= depth =>
                            /\ \A i \in 1 .. (depth' - 1) : ctxts'[i].pc = ctxts[i].pc
                            /\ Ahead(ctxts[depth'], ctxts'[depth'])
    <2>1. depth \in Nat /\ depth' \in Nat
      BY DEF IInv, TypeOK
    <2>2. ASSUME NEW n \in Nat, n > 0, n <= depth, NEW i \in 1 .. depth, i <= n - 1
          PROVE  i \in 1 .. (n - 1)
      BY <2>1, <2>2
    <2>3. CASE depth' > depth
      BY <2>3 DEF ForwardStep, NoJumps
    <2>4. CASE depth' <= depth
      <3>1. ~ (depth' > depth)
        BY <2>1, <2>4
      <3> QED
        BY <2>1, <2>2, <2>4, <3>1 DEF ForwardStep, NoJumps
    <2> QED
      BY <2>1, <2>3, <2>4
  <1>1. depth \in Nat /\ ctxts \in [1 .. depth -> Context]
    BY DEF IInv, TypeOK
  <1>2. Execute /\ (CS!Work \/ CS!Enter \/ CS!Answer)
    BY RunningExecutes
  <1>3. CASE CS!Work
    <2>1. depth' = depth /\ \A i \in 1 .. (depth - 1) : ctxts'[i] = ctxts[i]
      BY <1>3 DEF CS!Work, CS!IsStack, CS!Frozen
    <2>2. Ahead(top, ctxts'[depth])
      BY <1>2, <2>1, StepMoves
    <2> QED
      BY <1>1, <2>1, <2>2 DEF top
  <1>4. CASE CS!Enter
    BY <1>1, <1>4 DEF CS!Enter, CS!IsStack, CS!Frozen
  <1>5. CASE CS!Answer
    <2>1. PICK n \in {depth - 1, depth - 2} :
            /\ n > 0 /\ depth' = n /\ \A i \in 1 .. (n - 1) : ctxts'[i] = ctxts[i]
            /\ ctxts'[n] = [ctxts[n] EXCEPT !.s = @ + 1, !.pc = @ + 1]
      BY <1>5 DEF CS!Answer, CS!IsStack, CS!Frozen
    <2>2. ctxts'[n].pc > ctxts[n].pc
      BY <1>1, <2>1 DEF Context
    <2> QED
      BY <1>1, <2>1, <2>2 DEF Ahead
  <1> QED
    BY <1>2, <1>3, <1>4, <1>5

(* Without jumps no instruction takes a program back, whatever it calls and   *)
(* however the call ends.                                                     *)
THEOREM SpecRunsForward == Spec => RunsForward
  <1>1. IInv /\ IInv' /\ [Next]_vars => [ForwardStep]_vars
    BY StepForward
  <1> QED
    BY <1>1, SpecIInv, PTL DEF Spec, RunsForward

(* Every step keeps every pc inside of its code. *)
LEMMA StepPcInCode ==
    ASSUME IInv, IInv', PcInCode, [Next]_vars
    PROVE  PcInCode'
  <1>1. /\ depth \in Nat /\ ctxts \in [1 .. depth -> Context]
        /\ depth' \in Nat /\ ctxts' \in [1 .. depth' -> Context]
    BY DEF IInv, TypeOK
  <1>2. CASE UNCHANGED vars
    BY <1>2 DEF vars, PcInCode
  <1>3. CASE depth' = 0
    BY <1>3 DEF PcInCode
  <1>4. CASE CS!Begin
    <2>1. depth' = 1 /\ ctxts'[1].pc = 0 /\ ctxts'[1].code \in Nat
      BY <1>1, <1>4 DEF CS!Begin, CS!IsStack, CS!Fresh, Context
    <2> QED
      BY <2>1 DEF PcInCode
  <1>5. CASE depth' > 0 /\ ~ UNCHANGED vars /\ ~ CS!Begin
    <2>1. Next /\ phase = "run" /\ depth > 0
      <3>1. CS!Next \/ UNCHANGED CS!vars
        BY StepRefines
      <3>2. CASE CS!Next
        BY <1>5, <3>2
           DEF CS!Next, CS!Work, CS!Enter, CS!Answer, CS!Report, CS!Drop, CS!Close,
               CS!IsStack, IInv, TypeOK
      <3>3. CASE UNCHANGED CS!vars
        BY <1>1, <1>5, <3>3 DEF CS!vars, IInv, TypeOK
      <3> QED
        BY <1>5, <3>1, <3>2, <3>3
    <2>2. Execute /\ (CS!Work \/ CS!Enter \/ CS!Answer)
      BY <1>5, <2>1, RunningExecutes
    <2>3. top.pc < top.code /\ top = ctxts[depth]
      BY <2>2, ExecuteRuns DEF top
    <2>4. CASE CS!Work
      <3>1. /\ depth' = depth /\ \A i \in 1 .. (depth - 1) : ctxts'[i] = ctxts[i]
            /\ ctxts'[depth].code = ctxts[depth].code
        BY <2>4 DEF CS!Work, CS!IsStack, CS!Frozen, CS!Identity
      <3>2. ctxts'[depth].pc <= ctxts'[depth].code
        BY <2>2, <2>3, <3>1, StepMoves
      <3> QED
        BY <1>1, <3>1, <3>2 DEF PcInCode
    <2>5. CASE CS!Enter
      <3>1. /\ depth' = depth + 1 /\ \A i \in 1 .. (depth - 1) : ctxts'[i] = ctxts[i]
            /\ ctxts'[depth].code = ctxts[depth].code
            /\ ctxts'[depth].pc = ctxts[depth].pc /\ ctxts'[depth + 1].pc = 0
        BY <2>5 DEF CS!Enter, CS!IsStack, CS!Frozen, CS!Identity, CS!Fresh
      <3>2. ctxts'[depth + 1].code \in Nat
        BY <1>1, <3>1 DEF Context
      <3>3. ASSUME NEW i \in 1 .. (depth + 1)
            PROVE  /\ ctxts'[i].pc <= ctxts'[i].code
                   /\ i < depth + 1 => ctxts'[i].pc < ctxts'[i].code
        <4>1. CASE i \in 1 .. (depth - 1)
          BY <1>1, <3>1, <4>1 DEF PcInCode
        <4>2. CASE i = depth
          BY <1>1, <2>3, <3>1, <4>2 DEF PcInCode
        <4>3. CASE i = depth + 1
          BY <1>1, <3>1, <3>2, <4>3
        <4> QED
          BY <1>1, <4>1, <4>2, <4>3
      <3> QED
        BY <3>1, <3>3 DEF PcInCode
    <2>6. CASE CS!Answer
      <3>1. PICK n \in {depth - 1, depth - 2} :
              /\ n > 0 /\ depth' = n /\ \A i \in 1 .. (n - 1) : ctxts'[i] = ctxts[i]
              /\ ctxts'[n] = [ctxts[n] EXCEPT !.s = @ + 1, !.pc = @ + 1]
        BY <2>6 DEF CS!Answer, CS!IsStack, CS!Frozen
      <3>2. ctxts'[n].pc <= ctxts'[n].code
        <4>1. n \in 1 .. depth /\ n < depth
          BY <1>1, <3>1
        <4>2. /\ ctxts'[n].pc = ctxts[n].pc + 1 /\ ctxts'[n].code = ctxts[n].code
              /\ ctxts[n].pc \in Nat /\ ctxts[n].code \in Nat
          BY <1>1, <3>1, <4>1 DEF Context
        <4> QED
          BY <4>1, <4>2 DEF PcInCode
      <3>3. \A i \in 1 .. (n - 1) : i \in 1 .. depth /\ i < depth
        BY <1>1, <3>1
      <3>4. \A i \in 1 .. (n - 1) : ctxts'[i].pc < ctxts'[i].code
        BY <1>1, <3>1, <3>3 DEF PcInCode
      <3>5. \A i \in 1 .. n : i = n \/ i \in 1 .. (n - 1)
        BY <1>1, <3>1
      <3>6. \A x, y \in Nat : x < y => x <= y
        OBVIOUS
      <3>7. \A i \in 1 .. n : ctxts'[i].pc \in Nat /\ ctxts'[i].code \in Nat
        BY <1>1, <3>1 DEF Context
      <3>8. ASSUME NEW i \in 1 .. n
            PROVE  /\ ctxts'[i].pc <= ctxts'[i].code
                   /\ i < n => ctxts'[i].pc < ctxts'[i].code
        <4>1. CASE i = n
          <5>1. ~ (i < n)
            BY <1>1, <4>1
          <5> QED
            BY <3>2, <4>1, <5>1
        <4>2. CASE i \in 1 .. (n - 1)
          BY <3>4, <3>6, <3>7, <4>2
        <4> QED
          BY <3>5, <4>1, <4>2
      <3> QED
        BY <3>1, <3>8 DEF PcInCode
    <2> QED
      BY <2>2, <2>4, <2>5, <2>6
  <1> QED
    BY <1>1, <1>2, <1>3, <1>4, <1>5

(* Every pc stays inside of its code, and a suspended one before its end. *)
THEOREM SpecPcInCode == Spec => []PcInCode
  <1>1. Init => PcInCode
    BY DEF Init, PcInCode
  <1>2. IInv /\ IInv' /\ PcInCode /\ [Next]_vars => PcInCode'
    BY StepPcInCode
  <1> QED
    BY <1>1, <1>2, SpecIInv, PTL DEF Spec

=============================================================================
