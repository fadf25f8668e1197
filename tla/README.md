# A TLA+ model of eEVM

eEVM (`src/src`, `src/include/eEVM`) is an embeddable Ethereum virtual machine:
a library that executes the bytecode of one account, with everything it calls,
against a world state the host provides.  It is sequential.  What makes it hard
is control flow: handlers stored in contexts and invoked by other contexts,
exceptions thrown by handlers inside handlers, payments made before checks,
references held across calls, a pc whose increment depends on a flag; and
numbers that wrap: offsets into memory, signs of 256-bit words, lengths in RLP.

| modules | what they are |
|---|---|
| `GlobalState`, `Processor`, `Program`, `Disassembler`, `Memory`, `Words`, `RlpHeader`, `Rlp` | models of the code |
| `Powers` | powers of numbers, for `Words` and `RlpHeader` |
| `CallStack`, `ByteArray` | abstract specifications that `Processor` and `Memory` implement |
| `MCProcessor`, `MCProgram`, `MCMemory`, `MCRlp` | instances for TLC, with the `.cfg` files |
| `GlobalStateProof`, `ProcessorProof`, `ProcessorStepsProof`, `DisassemblerProof`, `MemoryProof`, `WordsProof`, `RlpProof` | theorems, checked by TLAPS |
| `PowersProof` | lemmas about powers, division and induction over numbers that two of them use |

## 1. Inventory

| component | state | operations | hard behaviour | module |
|---|---|---|---|---|
| `_Processor` (`processor.cpp`) | `ctxts`, `ctxt`, the local `result` | `run`, `push_context`, `pop_context`, `dispatch` and some 70 handlers | nesting, exceptions of handlers, partial effects, early end of the loop | `Processor` |
| `Context` | `pc`, `pc_changed`, memory, stack, references `acc`, `st`, handlers `rh`, `hh`, `eh` | `step`, `set_pc` | references that outlive what they refer to | `Processor` |
| `Program` | `code`, `jump_dests` | `compute_jump_dests` | immediates that look like opcodes | `Program` |
| `Stack` | a deque of words | `push`, `pop`, `pop64`, `swap`, `dup` | the limit | `Processor` (heights) |
| `SimpleGlobalState`, `SimpleAccount`, `Account` | the map `accounts`; balance, nonce, code | `get`, `create`, `insert`, `remove`, `pay_to`, `set_code` | `get` creates, `insert` asserts, self-payment, wrap-around | `GlobalState` |
| `SimpleStorage` | a map of words | `store`, `load`, `remove` | storing 0 removes | `Memory`, `GlobalState` (keys) |
| `Transaction`, `LogHandler` | `selfdestruct_list`, the log | `push_back`, `handle` | effects that survive an exception | `Processor` |
| memory of a context | a byte vector | `prepare_mem_access`, `copy_mem_raw`, the handlers that use them | 64-bit offsets, padding, the limit | `Memory`, `Processor` (sizes) |
| arithmetic opcodes | none | some 25 functions on 256-bit words | signs, overflow, operands left behind | `Words` |
| disassembler | a map of instructions | `dis` | its own table and walk, guesses about jumps | `Disassembler` |
| RLP (`rlp.h`) | none | `encode`, `decode` | lengths that do not fit, unsigned subtraction | `RlpHeader`, `Rlp` |
| trace, hex and hash helpers, JSON, samples, tests, vendored code | | | not part of the machine | none |

How they interact.  The host gets the callee's `AccountState` from the
`GlobalState` and calls `Processor::run` with a `Transaction`.  `run` makes the
outermost `Context`, whose handlers write `ExecResult`, and loops: `dispatch`
one opcode, on an `Exception` call the current context's `eh` and pop it, then
`step()` whichever context is current.  `create` and `call` push a context
whose handlers push a word on the parent's `Stack`, copy memory, or set code.
`return_` calls `rh` before it pops; `stop` pops before it calls `hh`.  After
the loop, `run` halts a context that is left over and removes the accounts of
`selfdestruct_list`.  `create` derives an address with `generate_address`, which
hashes an RLP encoding.  The disassembler reads the same bytes on its own.

What makes each correct: the processor resumes a caller exactly once, changed by
one word and one instruction; every run reports one outcome; contexts refer to
existing accounts and to the right caller, and the value they know was paid;
nothing but the current account loses balance; balances add up; stacks and
memory keep to their limits; only instructions are executed, and the listing
shows them; memory and storage are an array and a map; signed opcodes compute
what integers do; what was encoded comes back.

## 2. The modules and the code

### GlobalState

Operators from an accounts map to an accounts map, so that a handler composes
them in the order of its calls.  An account is its balance, the length of its
code, its nonce and the set of its storage keys.  `gs_get` creates what it does
not find, as `SimpleGlobalState::get` does; `gs_insert` leaves an existing
account alone, as `std::map::insert` does (whether the assertion fires is up to
`NDEBUG` in `Processor`).  `pay_error` and `pay_to` are `Account::pay_to`: what
it throws, and what it writes, with words modulo `WordMod` and in the order of
the code, so that paying oneself doubles the amount.  `Supply` is the sum of all
balances of a map, and no part of the code.

### Processor

| variable | in the code |
|---|---|
| `accounts` | `SimpleGlobalState::accounts` |
| `depth`, `ctxts` | `_Processor::ctxts`; `ctxt` is the last |
| `result` | `ExecResult`; the field `by` records which handler wrote it |
| `selfdestruct_list`, `logs` | `Transaction::selfdestruct_list` (as a set), entries given to the log handler |
| `phase` | where `Processor::run` is, or how it ended: `done`; `escaped` by an `eevm::Exception`, `escapedStd` by a `std::exception`; `aborted` by the assertion, `crashed` by undefined behaviour |
| `runs` | calls of `Processor::run` so far |

One step is one iteration of the loop: handler, catch clause, `pop_context`,
`step()`.  The operators `Proceed`, `Yield`, `throw`/`catch`, `stop`, `Enter`,
`Resume`, `Leave` and `EndRun` are the ways an iteration ends; each action is a
handler in those terms.  The actions have the handlers' names; opcodes that
differ only in the word they compute share one (`Compute`, `MemoryAccess`,
`BalanceOrExtcodesize`), and `Call` is the one handler of three opcodes.
`Run` is the host's call, `FinishNoContext` and `FinishOffEnd` the two ends of
the loop with the clean-up.

Abstractions, all of them wider than the code, so that an invariant carries over:

* The opcode at `pc` is chosen from `Ops` at every visit.  Every program over
  `Ops` is covered; so are walks no single program has.
* Stacks are heights.  Operands are chosen with `\E` from small sets; where
  `pop64` may reject a word, `outOfBounds` is a possible outcome.
* A memory region is its end, with `MaxMem + 1` for all that must throw.
* A jump may land on any position (`Program` says on which it does).
* `generate_address` is the constant operator `NewAddress` of sender and nonce.
* `create()` captures a local variable by reference in its return handler.
  Reading it when `create()` has returned is undefined; the model lets some
  account get the code, or the process crash.

### CallStack

What a host, and a program that calls others, may rely on of the stack of
contexts, without any opcode: frames that begin fresh and keep their identity;
frames below the current one that are frozen; an answer that is one word and one
instruction; one report, by the outermost frame only; and the two other ways a
run ends.  `Processor` refines it with `ctxts` as `frames`, "some handler has
written the result" as `reported` and `phase = "run"` as `running`.  It is the
place where cases with several handlers are settled: a halt handler that throws
ends two frames in one iteration (`Answer` with `depth - 2`), and a nested
context that runs off its end drops all frames without a report (`Drop`).

### Program and Disassembler

`Program` has the bytes of one program, the scan of `compute_jump_dests` one
iteration at a time, then the walk of the pc with the real bytes: `push` skips
immediates, `jump_to` takes scanned destinations, everything else goes on by one
(or stays, the first time).  `Starts` says independently of these loops where
instructions begin: the least set with 0 and, with a position, the one after its
instruction.

`Disassembler` adds the listing: `dis` is one iteration of the first loop of
`Disassembler::dis` (with the `out_of_range` it throws), over a table of its own,
`ops`; `Commented` and `comment` are the loop over jumps at its end.  The run
gets the one thing a comment is about, `operand`: the word that the PUSH just
executed left on the stack.

### Memory and ByteArray

`Memory` has bytes and widths: a vector `mem` of `msize` bytes, offsets modulo
`OffMod` (2^64), words as functions from byte positions, storage as a map.
`Fetch` is the program, which chooses an opcode with operands of any value;
`Execute` is its handler with the sums, comparisons, resizes and copies of the
code.  `ByteArray` states the same accesses on an array of `Limit` bytes with
offsets that are numbers, sources that go on with zeros, and a storage that has
a word for every key.  The refinement maps bytes beyond `msize` and keys that
are not held to zeros.

Opcodes that read memory alike (SHA3, LOG, RETURN, CREATE, the input of calls)
are `READ`; those that copy into it alike (CODECOPY, EXTCODECOPY, CALLDATACOPY,
the output of calls) are `COPY`.  `pop64` has accepted the operands; `Processor`
has the other case.

### Words

The opcodes that this repository implements itself on words that have no sign:
SDIV, SMOD, SLT, SGT, SIGNEXTEND and BYTE, as operators in the steps of the code
(`get_sign`, negation modulo 2^n, shifts and masks) on a stack, against
definitions over the integers.  Width of a byte, bytes of a word and width of a
limb are parameters; `to_word(-1)` is the conversion of the int in `y == -1`.
Powers of two are `Pow(2, n)` of module `Powers`, a recursive function: unlike
`2^n`, one can prove its equations.

### RlpHeader and Rlp

`RlpHeader` has the headers of items: `prefix`, which writes one, and
`decode_length`, which reads one.  The layout of the first byte is a parameter,
so that both kinds of headers, and lengths that do not fit, occur with inputs of
a few bytes.  The decoder is modelled by what it does to its two references, the
pointer (`data`) and the remaining size (`size`, modulo `SizeMod`): which bytes it
consumes, what it subtracts, what it throws.  As no subtraction is checked, a
read may leave the input: it gives up to `MaxTail` arbitrary bytes, and then the
outcome is "crashed".

`Rlp` has `encode` and `decode` for byte strings, unsigned integers, `uint256_t`,
fixed and general arrays, vectors and tuples, nested in any way.  Its state
machine is the caller: `Encode` then `Decode`, possibly with `Damage` in between,
or `Receive` of other bytes.

The templates call each other for the types that a type is made of, and the
compiler makes an instance of each for every type that occurs.  The model does
the same: `encoder` and `decoder` are tables with an instance for every type,
defined by recursion on the type, and the operator that stands for a template
gets the instances for the components as an argument.  They are functions and
not recursive operators, because TLAPS can prove the equations of those; for the
same reason a function of memory, pointer and size takes a triple (`Place`).

## 3. Properties

One type invariant in each state machine that has theorems (`TypeOK`,
`DisTypeOK` with `Program`'s, `MemTypeOK`), and

* `CallChain` - who calls whom: `caller`, `acc`, `call_value` of each context
  against the one below, through any mix of calls and CREATE.
* `ValuePaidOnEntry` - the value that a context entered by CALL believes to have
  been called with was paid to its account; one entered by DELEGATECALL, which
  inherits a value, pays nothing.  Of CALLCODE it says nothing: the code and its
  documentation disagree there (`ClaimCallcode`).
* `TransferIsAtomic` - an instruction that ends its context, with or without an
  exception, has paid an account without code only with the address of a CREATE
  or with everything (SELFDESTRUCT), if there is no DUP.  A CALL to an account
  without code is a mere transfer: it pays and goes on, or it throws and has not
  paid.  Calls of accounts with code are left out because they do pay and then
  throw, when the depth limit or the caller's memory does not allow the new
  context.
* `LiveReferences` - every account a context refers to is in the map, whatever
  self-destructs.
* `ReturnRegionReserved` - the output region of a suspended call is within the
  caller's memory, so the return handler's copy cannot throw.
* `HandlerRoom`, `NoVmEscape` - without DUP, a suspended context has room for
  the word of its handlers, and no `eevm::Exception` leaves `run`.
* `FreshOnlyAtStart`, `FirstInstructionHarmless` - the instruction that is
  executed twice is the first of the outermost context, its stack is empty, and
  it neither changes an account nor logs nor enters a context.
* `OutcomeReported` - the host's result is written exactly when the last context
  goes.
* `RefinesCallStack` - the refinement above.
* `Isolation` - during a run no account disappears and only the current account
  loses balance or has storage changed; code changes only when init code
  returns.
* `FundsNeverVanish`, `MintsOnlyByCreateOrSelfPayment` - where the sum of all
  balances can fall (the clean-up) and rise (a CREATE that brings its account
  into being with a balance, a payment to oneself).
* `PcInCode` - no pc points past the end of its code, and a suspended context
  stands before the end, on its call.
* `RunsForward` - without jumps an instruction moves the context that is current
  after it forward and none below it, or enters a context and moves none.
* `Termination` - every run ends when there are no jumps.
* `PcAtInstruction`, `JumpDestsExact` - immediates are never executed, and the
  scan finds the JUMPDEST instructions, no fewer and no more.
* `ListingExact`, `CommentsTrue` - the listing has exactly the instructions, and
  a comment on a jump is what the jump does.
* `RefinesByteArray`, `NoZeroStored` - memory and storage as an array and a map;
  storage is in normal form, so that equal contents are equal maps.
* `WordOpsExact` - the signed opcodes and BYTE, for all words (SDIV but for one
  pair of operands, see below).
* `RoundTrip`, `NeverMistaken` - decoding what was encoded gives it back; where
  decode cannot (a tuple beside other arguments), it throws and never gives
  another value.
* `OuterLengthExact` - what decode accepts is exactly as long as its first
  header announces, although no step compares the two: an input that is too
  short is noticed because the size wraps.

## 4. The runs

| run | instance | distinct states |
|---|---|---|
| `Calls` | two contracts of 3 and 2 bytes and an account that does not exist yet, calls of all kinds and a jump, depth 3, stack limit 7 (a call's operands) | 140 067 |
| `Instructions` | 28 opcodes, four addresses, words modulo 4, depth 1 so that calls fail after they paid, two runs | 35 283 |
| `Lifecycle` | a contract of 8 bytes, one generated address, depth 3, stack limit 2 with heights up to 6, two runs, `NDEBUG`, no jumps, fairness | 88 588 |
| `Program` | all programs of up to 5 bytes over JUMPDEST, JUMP, JUMPI, PUSH1, PUSH2 and one without mnemonic | 152 230 |
| `Memory` | memory of 4 bytes, words of 2, offsets of 3 bits, four sources; words of 3 bytes of 2 bits | 285 413 |
| `Rlp` | 10 byte values, payloads of more than 1 byte need a separate length, 359 lists of arguments, inputs of up to 3 bytes with every byte | 71 252 |

Bounds.  `StackCap` (heights), `MaxLogs` and `MaxRuns` cut behaviours off in
guards; `StoredWords`, `MaxInput` and `MaxTail` bound what is chosen; everything
else is a parameter of the program made small.  Depth 3 has a context with one
below and one above it; the limits of stack and depth are small enough to be
met.  Balances modulo 2 to 4 reach wrap-around, emptiness and doubling.  A stack
limit of 7 lets a call pop its operands from a full stack, which is the case
`HandlerRoom` is about.  Two runs are enough for what a run leaves behind:
accounts and the transaction's list.  `Program` with 5 bytes has a two-byte
immediate that contains a JUMPDEST or a PUSH, truncated immediates, jumps back
and forth, and immediates of more than 64 bits (`Mod64` is 6).  In `Memory`
every sum of two offsets occurs, those that wrap included.  Words of 6 bits in
three bytes have an index beyond the word for BYTE and SIGNEXTEND and a limb
narrower than the word, which is what SDIV's comparison needs.  In `Rlp` all
header kinds occur, nested in each other, with sizes modulo 100.

Fairness.  `FairSpec` assumes weak fairness of the processor's own step
(`Execute \/ Finish`): `run` is a loop of one thread that takes its next step
whenever there is one.  Nothing is assumed of the host (`Run`).  `Quiescent`
makes the end of the host's work a stutter, so deadlock is checked in all runs
of `Processor`.  A program may be over in `Program`, an opcode of `Words` and a
call of `decode` end a behaviour, so deadlock is no error there.

### Where comments and code disagree

Six runs are expected to end in a violation.

* `ClaimOffEnd`: a nested context that runs off the end of its code ends the
  whole run; no handler of the outermost context is called and the result keeps
  its initial value `returned`.
* `ClaimEndowment`: CREATE credits its value twice.
* `ClaimEscape`: with DUP a parent's stack can be full, and then an exception of
  the child makes `run` itself throw.
* `ClaimCreateReturn`: init code that returns reaches a dangling reference.
* `ClaimCallcode`: CALLCODE pays the account whose code it borrows, not this
  account.
* `ClaimSdiv`: the overflow case of SDIV is tested with a word of 64 ones, so
  the least word divided by that one is wrong.

Read in the code while modelling, and without a run of their own:

* The answer of CODESIZE is the size of the current account's code, although
  `opcode.h:55` says "Get size of code running in current environment."; in
  borrowed code and in init code the two differ, and CODECOPY copies the code that
  runs.  The answer is a value on a stack, of which `Processor` keeps the height.
* `create()` does not increment the nonce (`processor.cpp:1237`), so the second
  CREATE of one account arrives at the address of the first: it meets
  `assert(ib.second)` (phase `aborted`), or runs its init code in that account
  when assertions are off, which is what `Lifecycle` goes on with.
* `decode` tests the size that is left and not the pointer, although `rlp.h:631`
  says that it "ensures entire input has been consumed": an input is accepted in
  which a list is longer than the items that are read of it.  `OuterLengthExact`
  is the part of that claim which holds.

The model also shows: the first instruction of a run is
executed twice (`pc_changed` begins as true; `FreshOnlyAtStart` and
`FirstInstructionHarmless` say why this does no harm); DUP exceeds `MAX_SIZE`
(`Stack::dup` has no check); CALLDATALOAD near 2^64 lets `std::overflow_error`
escape; BYTE with a large index leaves its second operand on the stack; decoding
a tuple beside other arguments misses the tuple's header.

## 5. What is proved

All proofs are for any values of the constants that satisfy the named assumptions
of the modules:

* `WordAssumption`, `SizesAssumption`, `AddressAssumption`, `HostAssumption`:
  sizes are numbers, addresses are addresses, the host starts from a well-formed
  map.  `AddrAssumption`: there are finitely many addresses.
* `ByteAssumption`, `TableAssumption`: JUMP and JUMPDEST have no immediates, the
  disassembler's table has the immediates that the processor skips.
* `MemoryAssumption`: memory is smaller than the range of offsets, and no source
  is so long that its length and the limit of memory exceed that range.
* `WidthAssumption`: a byte has bits, a word has bytes, and a limb is narrower
  than a word.
* `LayoutAssumption`: the kinds of headers are not empty.
* `TypesAssumption`, `ValuesAssumption`, `ArgsAssumption`: component types are
  types and nested less than what they are part of, values belong to their types
  (a number to its width, an array to its length), and arguments to theirs.
* `SizeAssumption`: inputs and encodings have a length that is a `size_t`, with a
  byte to spare for the one that `Damage` may append.

**Processor, invariants.**  `SpecTypeOK`, `SpecCallChain`, `SpecLiveReferences`,
`SpecReturnRegionReserved`, `SpecFreshOnlyAtStart`, `SpecOutcomeReported`,
`SpecHandlerRoom` and `SpecNoVmEscape` say that these invariants hold of `Spec`.
None is inductive alone.  A handler reaches its parent through
`ctxts[depth - 1]`, which exists because only the outermost context is of kind
"run" (`CallChain`); a payment needs the account of the current context
(`LiveReferences`); the return handler's copy needs its region
(`ReturnRegionReserved`); a handler's push succeeds because of `HandlerRoom`,
which in turn holds because a call popped at least three words from a stack
within its limit; and that no context is entered before the first instruction is
over needs `FreshOnlyAtStart`.  So the induction is on their conjunction `IInv`.
The proof has two layers: one lemma for each way an iteration ends
(`ProceedKeeps`, `LeaveKeeps`, `ResumeKeeps`, `CatchKeeps`, `StopKeeps`,
`EnterKeeps`, ...), then one for each handler, which only classifies it.

**Processor, steps.**  `SpecRefinesCallStack` uses that classification: each way
an iteration ends is one action of `CallStack`; that a suspended context changes
only when it becomes current, and then by one word and one instruction, is part
of it.  `SpecFirstInstructionHarmless` is about the same steps.  `SpecIsolation`
goes through the handlers that write accounts; each composes lookups, creations,
payments and stores, and the lemmas about these (`GetKeeps`, `PaymentIsolates`,
`LookupIsolates`, `StoreIsolates`) say what they do to an account that is not
the payer's.

`SpecValuePaidOnEntry` and `SpecTransferIsAtomic` both rest on what `call()` has
done to the accounts on each way out of it (`CallEnters`, `CallTransfers`).  No
account gains by a lookup, a creation without a balance or a store
(`LookupGains`), and by a payment none but the payee (`OnlyPayeeGains`).  A call
of an account without code that has paid can then fail only at the push of its
answer, for which there is room because it popped its operands (`HandlerRoom`).

`SpecPcInCode` and `SpecRunsForward` are the safety part of `Termination`.  Where
contexts become current again or are entered, `CallStack` already says what
becomes of every pc, so the refinement leaves one case: a handler that goes on
with its own context.  `WorkProceeds` says where each of them leaves it, at its
place or at one `set_pc` gave it, and `StepMoves` what `step()` makes of that.
Depth is limited and every pc is bounded by its code, and without jumps the
positions of the contexts, outermost first, only go up in lexicographic order,
"no context" coming before any position and a cleared `pc_changed` after a set
one.  What is missing for `Termination`
is that such a sequence ends and that the loop takes its next step.  A stuttering
step satisfies any action property; that no handler repeats for ever without
changing anything is in the lemma (`StepMoves`) and in `Termination`.

`SpecFundsNeverVanish` and `SpecMintsOnlyByCreateOrSelfPayment` are about
`Supply`.  A handler changes the accounts in a sequence of lookups, creations,
payments, stores and removals; what each of these does to the sum is a lemma of
`GlobalStateProof`, and `Flows` names what a sequence of them can do, with the
accounts that CREATE may bring into being (`Created`).

**GlobalState.**  `PaymentConserves`: a payment between two different accounts
moves the amount exactly and touches no third account, for words of any width.
Its argument is that the overflow test rejects exactly the sums that wrap.
`PaymentSupply` says the same of the sum of all balances.  A sum over a set is
defined by a fold, which is one of the functions that take away an element at a
time; that there is such a function and that any two agree (`SumExists`,
`SumsAgree`) is shown by induction over subsets.  The library's induction rules
take a predicate as a parameter; here the set of those for which the statement
holds stands in its place (`SubsetInduction`, `NatSetInduction`), and the rules
follow from the minimal elements of a well-founded order (`WFMin`).

**Program and Disassembler.**  `SpecPcAtInstruction` and `SpecJumpDestsExact`, for
programs of any size.  The scan is exact because it never steps over an
instruction: if none before `k` reaches beyond `k`, the starts outside the
instruction at `k` are a closed set and hence all starts (`NoneBetween`).
`SpecListingExact` holds for the same reason.  `SpecCommentsTrue` adds that
instructions do not overlap (`StartsSpaced`): a jump can be reached from the
instruction before it and from nowhere else, so the operand it finds is that
PUSH's.  `DisImplementsProgram` says that the runs `Disassembler` compares with
the listing are runs of `Program`.

**Memory.**  `SpecRefinesByteArray`, with `SpecMemTypeOK` and `SpecNoZeroStored`.
Each handler has a lemma that it does what the operation of `ByteArray` does.
Two facts carry them: an access passes the two checks exactly if its end is
within the limit as a number (`AccessIs`), and growing the vector shows no other
bytes than zeros (`ViewGrow`).  The sum in `copy_mem_raw` that nothing checks
(`offSrc + size`) may wrap; then it is below the size, hence below `offSrc`, and
the copy is all padding, as it should be, provided that no source comes within
`MaxMem` of 2^64 bytes (`CopiedIsPatch`).

**Words.**  `SpecWordOpsExact`.  `Half`, the weight of the sign bit, is half of
`Mod`, and this is all that signed comparison and division need (`SignIs`,
`SdivExact`, `SmodExact`, `SltExact`).  SIGNEXTEND and BYTE take a word apart at
a byte, so they need that a power of a sum is a product (`PowAdd`) and what
quotient and remainder by a power are (`NextBit`, `Digit`).  The pair of operands
for which SDIV is wrong is excluded by `WordOpsExact` itself, as in the run.

**RLP, the outermost item.**  `SpecOuterLengthExact`: what `decode` accepts is one
item and nothing else, whatever its contents are and wherever they leave the
pointer.  An announced length is a `size_t`, because at most `LenLen` bytes stand
for a number below `SizeMod` (`NumberBelow`, `LengthIsSize`), the header lies
inside of the input (`HeaderExact`), and a difference of two numbers below
`SizeMod` that is 0 modulo `SizeMod` is 0 (`DecodeExact`): this is why a
subtraction that nobody checks does no harm here.  `HeaderRoundTrip`: for payloads
of every length, `decode_length` reads what `prefix` wrote, wherever that stands.
It needs that a number is what its significant bytes stand for
(`NumberOfBigEndian`).

**RLP, the round trip.**  `SpecRoundTrip`, for every set of types, nested to any
depth.  A type is `Exact` when its instance of `decoder`, put at the payload of a
value, returns the value, ends behind the payload and leaves nothing of the
length.  Scalars are (`ScalarExact`), and a list is when the types of its
components are (`ListExact`): the rounds of `after_items` go from one component to
the next (`ListAt`), those of a vector end exactly when the contained length is
used up (`VectorItems`), and the second header of arrays and vectors is read like
the first.  The induction is over how deep a type is nested (`AllExact`); it also
shows that the tables themselves exist, as TLAPS knows nothing of a recursive
function that is not shown to have a solution (`TableExists`).  `decode` then adds
the outermost header (`DecodeOfEncode`).  `EncodingInjective` is a consequence:
arguments of the same types have the same encoding only if they are the same,
which is what `generate_address` relies on.

`SpecNeverMistaken` is about the tuples that `decode_item` enters without reading
their header.  From there on the decoder stands before a list header that it
should have passed.  `Lags` says that between where it stands and where it should
stand there are only list headers, and how many.  A scalar, array or vector read
there throws, because the header announces a list (`LaggedItem`).  A component
that is a tuple consumes the header in front of the decoder, and the header the
encoder wrote for it is left instead.  So a tuple that is entered at its own
header or before it ends at least one header behind (`Lagged`, `TupleLagged`,
again by induction on nesting), and when `decode` returns an answer, every scalar
in it was read where it stands (`MultipleCarried`).

The invariant `RInv` of the state machine joins the three properties with what
the caller keeps: the data is in memory, and it is the encoding of the arguments
when `Encode` made it.

**Only model-checked.**  `Termination`, because liveness under fairness is out of
the prover's reach (its measure is proved, see `SpecRunsForward`).  Every other
property of the passing runs is stated by a theorem.

## 6. Not modelled

* The opcodes of arithmetic that are one call of an intx operator; the
  processor's model has what they pop and throw.
* What `keccak_256` and `generate_address` compute; hexadecimal conversion; JSON
  of accounts, storage and logs; equality of accounts.  They are conversions
  without state, used by hosts and tests.
* The trace, which is appended to and printed and never read by the processor.
* The text of exceptions, comments and logs; the gas column of the
  disassembler's table.  Nothing counts gas.
* `Block` and the fields of `Transaction` that handlers only push.
* Samples, tests and vendored libraries.  What the samples ask of
  `Processor::run` is in `Requests`.

Concurrency, persistence and messages do not occur in this code: a processor runs
in its caller's thread, against a map in memory.
