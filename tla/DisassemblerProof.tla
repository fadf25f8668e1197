-------------------------- MODULE DisassemblerProof --------------------------
(***************************************************************************)
(* The scan of Program, and the listing of Disassembler::dis with its      *)
(* comments, for every program of any size over any bytes, with any table  *)
(* that agrees with the processor.                                         *)
(*                                                                         *)
(* What makes the scan exact is that it never steps over an instruction:   *)
(* no instruction begins strictly between i and the index after the        *)
(* instruction at i.  That follows from Starts being the least set of its  *)
(* kind (LeastStarts), applied to the starts outside of that gap           *)
(* (NoneBetween).                                                          *)
(*                                                                         *)
(* The walk of dis is exact for the same reason.  A comment is right       *)
(* because instructions do not overlap (StartsSpaced): a jump that is not  *)
(* itself a JUMPDEST can be reached from the instruction listed before it  *)
(* and from nowhere else, so the operand it finds is that instruction's.   *)
(***************************************************************************)
EXTENDS Disassembler, TLAPS

(* Between two iterations of the scan, i is at an instruction, everything    *)
(* before it is known, and no instruction before it reaches beyond it.  The   *)
(* pc always is at an instruction.  "At an instruction" includes the end.     *)
At(j) == j \in Starts \/ j >= size

IInv ==
    /\ TypeOK
    /\ At(i) /\ At(pc)
    /\ \A j \in Starts : j < i => After(j) <= i
    /\ jump_dests = {j \in Starts : j < i /\ code[j] = JUMPDEST}
    /\ phase # "scan" => i >= size

-----------------------------------------------------------------------------
(* Starts are positions of the program, and the index after one is beyond it. *)
LEMMA StartsInProgram ==
    ASSUME TypeOK, NEW j \in Starts
    PROVE  /\ j \in 0 .. (size - 1) /\ j \in Nat /\ j < size
           /\ code[j] \in Byte /\ Immediate[code[j]] \in Nat
           /\ After(j) \in Nat /\ After(j) > j
  <1>1. j \in 0 .. (size - 1) /\ size \in Nat
    BY DEF Starts, TypeOK
  <1>2. code[j] \in Byte
    BY <1>1 DEF TypeOK
  <1>3. Immediate[code[j]] \in Nat
    BY <1>2, ByteAssumption
  <1> QED
    BY <1>1, <1>2, <1>3 DEF After

(* Starts is closed: 0 begins an instruction, and so does what follows one. *)
LEMMA StartsClosed ==
    ASSUME TypeOK
    PROVE  At(0) /\ \A j \in Starts : At(After(j))
  <1>1. size \in Nat
    BY DEF TypeOK
  <1>2. At(0)
    BY <1>1 DEF At, Starts, Closed
  <1>3. ASSUME NEW j \in Starts, After(j) < size PROVE After(j) \in Starts
    <2>1. After(j) \in 0 .. (size - 1)
      BY <1>1, <1>3, StartsInProgram
    <2>2. ASSUME NEW S \in SUBSET (0 .. (size - 1)), Closed(S) PROVE After(j) \in S
      BY <1>3, <2>2 DEF Starts, Closed
    <2> QED
      BY <2>1, <2>2 DEF Starts
  <1>4. ASSUME NEW j \in Starts PROVE At(After(j))
    BY <1>1, <1>3, <1>4, StartsInProgram DEF At
  <1> QED
    BY <1>2, <1>4

(* Starts is the least closed set. *)
LEMMA LeastStarts ==
    ASSUME NEW S \in SUBSET (0 .. (size - 1)), Closed(S)
    PROVE  Starts \subseteq S
  BY DEF Starts

(* No instruction begins inside the one that begins at k, provided that none  *)
(* before k reaches beyond k.                                                 *)
LEMMA NoneBetween ==
    ASSUME TypeOK, NEW k \in Starts, \A j \in Starts : j < k => After(j) <= k
    PROVE  \A j \in Starts : j <= k \/ j >= After(k)
  <1> DEFINE S == {j \in Starts : j <= k \/ j >= After(k)}
  <1>1. size \in Nat /\ k \in 0 .. (size - 1)
    BY StartsInProgram DEF TypeOK
  <1>2. S \in SUBSET (0 .. (size - 1))
    BY DEF Starts
  <1>3. 0 \in S
    BY <1>1, StartsClosed DEF At
  <1>4. ASSUME NEW j \in S, After(j) < size PROVE After(j) \in S
    <2>1. j \in Starts /\ After(j) \in Starts
      BY <1>1, <1>4, StartsClosed, StartsInProgram DEF At
    <2>2. After(j) <= k \/ After(j) >= After(k)
      <3>1. CASE j < k
        BY <2>1, <3>1
      <3>2. CASE j = k
        BY <2>1, <3>2, StartsInProgram
      <3>3. CASE j > k
        BY <1>4, <2>1, <3>3, StartsInProgram, <1>1
      <3> QED
        BY <1>1, <2>1, <3>1, <3>2, <3>3, StartsInProgram
    <2> QED
      BY <2>1, <2>2
  <1>5. Closed(S)
    BY <1>3, <1>4 DEF Closed
  <1>6. Starts \subseteq S
    BY <1>2, <1>5, LeastStarts
  <1> QED
    BY <1>6

(* What depends on the bytes alone stays as it is when they do. *)
LEMMA SameStarts ==
    ASSUME UNCHANGED <<size, code>>
    PROVE  /\ Starts' = Starts
           /\ \A j : After(j)' = After(j)
           /\ \A j : At(j)' = At(j)
  BY DEF Starts, Closed, After, At

-----------------------------------------------------------------------------
(* An iteration of the scan preserves the invariant. *)
LEMMA ScanKeeps ==
    ASSUME IInv, compute_jump_dests
    PROVE  IInv'
  <1>1. UNCHANGED <<size, code, pc, pc_changed, phase>> /\ phase = "scan"
    BY DEF compute_jump_dests
  <1>2. i \in Starts /\ size \in Nat /\ i \in Nat /\ i < size
    BY DEF IInv, At, compute_jump_dests, TypeOK
  <1>3. i' = After(i) /\ i' \in Nat /\ i < i'
    BY <1>2, StartsInProgram DEF compute_jump_dests, After, IInv
  <1>4. \A j \in Starts : j <= i \/ j >= i'
    BY <1>2, <1>3, NoneBetween DEF IInv
  <1>5. TypeOK'
    BY <1>1, <1>2, <1>3 DEF TypeOK, IInv, compute_jump_dests
  <1>6. At(i)' /\ At(pc)'
    BY <1>1, <1>2, <1>3, StartsClosed, SameStarts DEF IInv, At
  <1>7. \A j \in Starts : j < i' => After(j) <= i'
    <2> SUFFICES ASSUME NEW j \in Starts, j < i' PROVE After(j) <= i'
      OBVIOUS
    <2>1. j \in Nat /\ After(j) \in Nat
      BY StartsInProgram DEF IInv
    <2>2. CASE j < i
      BY <1>2, <1>3, <2>1, <2>2 DEF IInv
    <2>3. CASE j = i
      BY <1>3, <2>3
    <2> QED
      BY <1>2, <1>3, <1>4, <2>1, <2>2, <2>3
  <1>8. jump_dests' = {j \in Starts : j < i' /\ code[j] = JUMPDEST}
    <2>1. jump_dests = {j \in Starts : j < i /\ code[j] = JUMPDEST}
      BY DEF IInv
    <2>2. \A j \in Starts : j < i' <=> j < i \/ j = i
      BY <1>2, <1>3, <1>4, StartsInProgram DEF IInv
    <2>3. CASE code[i] = JUMPDEST
      BY <1>2, <2>1, <2>2, <2>3 DEF compute_jump_dests
    <2>4. CASE code[i] # JUMPDEST
      BY <1>2, <2>1, <2>2, <2>4 DEF compute_jump_dests
    <2> QED
      BY <2>3, <2>4
  <1> QED
    BY <1>1, <1>5, <1>6, <1>7, <1>8, SameStarts DEF IInv

(* A step of the walk that leaves the pc at an instruction preserves it. *)
LEMMA StepKeeps ==
    ASSUME IInv, NEW p \in Nat, NEW changed \in BOOLEAN, step(p, changed),
           At(IF changed THEN p ELSE p + 1)
    PROVE  IInv'
  <1>1. UNCHANGED <<size, code, i, jump_dests, phase>>
    BY DEF step
  <1>2. pc' \in Nat /\ pc_changed' \in BOOLEAN /\ At(pc')
    <2>1. pc' = IF changed THEN p ELSE p + 1
      BY DEF step
    <2>2. At(pc')
      BY <2>1
    <2>3. pc' \in Nat
      BY <2>1
    <2>4. pc_changed' \in BOOLEAN
      BY DEF step
    <2> QED
      BY <2>2, <2>3, <2>4
  <1>3. TypeOK'
    BY <1>1, <1>2 DEF TypeOK, IInv
  <1> QED
    BY <1>1, <1>2, <1>3, SameStarts DEF IInv, At

(* The handlers preserve it: PUSH and the others go to the next instruction   *)
(* or stay, jumps go to a scanned destination.                                *)
LEMMA WalkKeeps ==
    ASSUME IInv, push \/ jump_to \/ Other
    PROVE  IInv'
  <1>1. pc \in Starts /\ pc \in Nat /\ size \in Nat /\ pc_changed \in BOOLEAN
    <2>1. pc \in Nat /\ size \in Nat
      BY DEF IInv, TypeOK
    <2>2. pc_changed \in BOOLEAN /\ At(pc)
      BY DEF IInv, TypeOK
    <2>3. dispatch
      BY DEF push, jump_to, Other
    <2> QED
      BY <2>1, <2>2, <2>3 DEF At, dispatch
  <1>2. At(After(pc)) /\ After(pc) \in Nat
    BY <1>1, StartsClosed, StartsInProgram DEF IInv
  <1>3. CASE push
    BY <1>1, <1>2, <1>3, StepKeeps DEF push, After
  <1>4. CASE jump_to
    <2>1. PICK p \in jump_dests : step(p, TRUE)
      BY <1>4 DEF jump_to
    <2>2. p \in Starts /\ p \in Nat
      BY <2>1, StartsInProgram DEF IInv
    <2> QED
      BY <2>1, <2>2, StepKeeps DEF At
  <1>5. CASE Other
    <2>1. After(pc) = pc + 1
      BY <1>1, <1>5 DEF Other, After
    <2>2. At(IF pc_changed THEN pc ELSE pc + 1)
      BY <1>1, <1>2, <2>1 DEF At
    <2> QED
      BY <1>1, <1>5, <2>2, StepKeeps DEF Other
  <1> QED
    BY <1>3, <1>4, <1>5

(* Every step preserves the invariant. *)
LEMMA NextKeeps ==
    ASSUME IInv, [Next]_vars
    PROVE  IInv'
  <1>1. CASE compute_jump_dests
    BY <1>1, ScanKeeps
  <1>2. CASE ScanDone \/ End \/ UNCHANGED vars
    <2>1. UNCHANGED <<size, code, i, jump_dests, pc, pc_changed>>
      BY <1>2 DEF ScanDone, End, vars
    <2>2. phase' \in {"scan", "run", "ended"} /\ (phase' # "scan" => i >= size)
      BY <1>2 DEF ScanDone, End, vars, IInv, TypeOK
    <2> QED
      BY <2>1, <2>2, SameStarts DEF IInv, TypeOK, At
  <1>3. CASE push \/ jump_to \/ Other
    BY <1>3, WalkKeeps
  <1> QED
    BY <1>1, <1>2, <1>3 DEF Next

(* The invariant holds in every reachable state. *)
LEMMA SpecIInv == Spec => []IInv
  <1>1. ASSUME Init PROVE IInv
    <2>1. TypeOK
      BY <1>1 DEF Init, TypeOK
    <2>2. \A j \in Starts : ~ (j < 0)
      BY <2>1, StartsInProgram
    <2> QED
      BY <1>1, <2>1, <2>2, StartsClosed DEF Init, IInv
  <1>2. IInv /\ [Next]_vars => IInv'
    BY NextKeeps
  <1> QED
    BY <1>1, <1>2, PTL DEF Spec

(* Types. *)
THEOREM ProgramTypeOK == Spec => []TypeOK
  <1>1. IInv => TypeOK
    BY DEF IInv
  <1> QED
    BY <1>1, SpecIInv, PTL

(* No byte of an immediate is ever executed as an opcode. *)
THEOREM SpecPcAtInstruction == Spec => []PcAtInstruction
  <1>1. IInv => PcAtInstruction
    BY DEF IInv, At, PcAtInstruction, TypeOK
  <1> QED
    BY <1>1, SpecIInv, PTL

(* compute_jump_dests returns the JUMPDEST instructions, no fewer, no more. *)
THEOREM SpecJumpDestsExact == Spec => []JumpDestsExact
  <1>1. ASSUME IInv PROVE JumpDestsExact
    <2>1. ASSUME i >= size PROVE \A j \in Starts : j < i
      BY <1>1, <2>1, StartsInProgram DEF IInv, TypeOK
    <2> QED
      BY <1>1, <2>1 DEF IInv, JumpDestsExact
  <1> QED
    BY <1>1, SpecIInv, PTL

-----------------------------------------------------------------------------
(* The disassembly. *)

(* The operand of a jump is the immediate of the PUSH that ends where the    *)
(* jump begins, if there is one.                                             *)
OperandOfPush ==
    \A q \in Starts :
        (/\ phase # "ended" /\ pc \in Starts /\ IsJump(pc)
         /\ After(q) = pc /\ Immediate[code[q]] > 0)
            => operand = get_immediate(q)

DInv ==
    /\ IInv
    /\ DisTypeOK
    /\ At(it) /\ it <= size
    /\ instrs = {j \in Starts : j < it}
    /\ \A j \in Starts : j < it => After(j) <= it
    /\ listing = "done" => it = size
    /\ listing = "thrown" => \E j \in Starts : After(j) > size
    /\ pc_changed => pc = 0
    /\ phase = "scan" => pc = 0
    /\ OperandOfPush

-----------------------------------------------------------------------------
(* Instructions do not overlap. *)
LEMMA StartsSpaced ==
    ASSUME TypeOK
    PROVE  \A j \in Starts : \A k \in Starts : k < j => After(k) <= j
  <1> DEFINE S == {j \in Starts : \A k \in Starts : k < j => After(k) <= j}
  <1>1. size \in Nat
    BY DEF TypeOK
  <1>2. S \in SUBSET (0 .. (size - 1))
    BY DEF Starts
  <1>3. CASE size = 0
    BY <1>3, StartsInProgram DEF Starts
  <1>4. ASSUME size > 0 PROVE 0 \in S
    BY <1>1, <1>4, StartsClosed, StartsInProgram DEF At
  <1>5. ASSUME NEW j \in S, After(j) < size PROVE After(j) \in S
    <2>1. j \in Starts /\ After(j) \in Starts /\ j \in Nat /\ After(j) \in Nat /\ j < After(j)
      BY <1>1, <1>5, StartsClosed, StartsInProgram DEF At
    <2>2. \A k \in Starts : k <= j \/ k >= After(j)
      BY <2>1, NoneBetween
    <2>3. ASSUME NEW k \in Starts, k < After(j) PROVE After(k) <= After(j)
      <3>1. k \in Nat /\ After(k) \in Nat
        BY StartsInProgram
      <3>2. k <= j
        BY <2>1, <2>2, <2>3, <3>1
      <3>3. CASE k < j
        BY <2>1, <3>1, <3>3
      <3>4. CASE k = j
        BY <2>1, <3>4
      <3> QED
        BY <2>1, <3>1, <3>2, <3>3, <3>4
    <2> QED
      BY <2>1, <2>3
  <1>6. CASE size > 0
    <2>1. Closed(S)
      BY <1>4, <1>5, <1>6 DEF Closed
    <2>2. Starts \subseteq S
      BY <1>2, <2>1, LeastStarts
    <2> QED
      BY <2>2
  <1> QED
    BY <1>1, <1>3, <1>6

(* No two instructions are followed by the same one. *)
LEMMA OnePredecessor ==
    ASSUME TypeOK, NEW j \in Starts, NEW k \in Starts, After(j) = After(k)
    PROVE  j = k
  <1>1. /\ j \in Nat /\ k \in Nat /\ After(j) \in Nat /\ After(k) \in Nat
        /\ After(j) > j /\ After(k) > k
    BY StartsInProgram
  <1>2. ~ (j < k)
    <2>1. j < k => After(j) <= k
      BY StartsSpaced
    <2> QED
      BY <1>1, <2>1
  <1>3. ~ (k < j)
    <2>1. k < j => After(k) <= j
      BY StartsSpaced
    <2> QED
      BY <1>1, <2>1
  <1> QED
    BY <1>1, <1>2, <1>3

(* The disassembler skips what the processor skips. *)
LEMMA TablesAgree ==
    ASSUME TypeOK, NEW j \in Starts
    PROVE  immediate_bytes(code[j]) = Immediate[code[j]]
  BY StartsInProgram, TableAssumption DEF immediate_bytes

(* What follows an opcode of the program is a number. *)
LEMMA ImmediateIsNat ==
    ASSUME TypeOK, NEW j \in Starts, After(j) <= size
    PROVE  get_immediate(j) \in Nat
  <1>1. /\ size \in Nat /\ j \in Nat
        /\ code[j] \in Byte /\ Immediate[code[j]] \in Nat
        /\ code \in [0 .. (size - 1) -> Byte]
        /\ j + Immediate[code[j]] + 1 <= size
    BY StartsInProgram DEF TypeOK, After
  <1> DEFINE m == Immediate[code[j]]
  <1>2. \A n \in 1 .. m : code[j + n] \in Byte
    BY <1>1
  <1>3. raw_imm(j) \in [1 .. Immediate[code[j]] -> Byte]
    BY <1>2 DEF raw_imm
  <1> QED
    BY <1>1, <1>3, TableAssumption DEF get_immediate

(* What depends on the bytes alone. *)
LEMMA SameBytes ==
    ASSUME UNCHANGED <<size, code>>
    PROVE  /\ \A j : get_immediate(j)' = get_immediate(j)
           /\ \A j : IsJump(j)' = IsJump(j)
  BY DEF get_immediate, raw_imm, IsJump

-----------------------------------------------------------------------------
(* An iteration of the walk of dis preserves the invariant. *)
LEMMA DisKeeps ==
    ASSUME DInv, dis
    PROVE  DInv'
  <1>1. /\ UNCHANGED <<size, code, i, jump_dests, pc, pc_changed, phase>>
        /\ UNCHANGED operand
    BY DEF dis, vars
  <1>2. IInv' /\ TypeOK'
    BY <1>1, SameStarts DEF DInv, IInv, TypeOK, At
  <1>3. OperandOfPush'
    BY <1>1, SameStarts, SameBytes DEF DInv, OperandOfPush
  <1>4. it \in Starts /\ it \in Nat /\ size \in Nat /\ it < size /\ TypeOK
    BY DEF dis, DInv, DisTypeOK, At, TypeOK
  <1>5. /\ immediate_bytes(code[it]) = Immediate[code[it]]
        /\ Immediate[code[it]] \in Nat /\ After(it) \in Nat /\ it < After(it)
    BY <1>4, TablesAgree, StartsInProgram
  <1>6. CASE bytes_left < immediate_bytes(code[it])
    <2>1. listing' = "thrown" /\ UNCHANGED <<it, instrs>>
      BY <1>6 DEF dis
    <2>2. After(it) > size
      BY <1>4, <1>5, <1>6 DEF bytes_left, After
    <2> QED
      BY <1>1, <1>2, <1>3, <1>4, <2>1, <2>2, SameStarts DEF DInv, DisTypeOK, At
  <1>7. CASE ~ (bytes_left < immediate_bytes(code[it]))
    <2>1. /\ instrs' = instrs \cup {it} /\ UNCHANGED listing
          /\ it' = it + 1 + immediate_bytes(code[it])
      BY <1>7 DEF dis
    <2>2. it' = After(it) /\ it' \in Nat /\ it' <= size /\ it < it'
      BY <1>4, <1>5, <1>7, <2>1 DEF After, bytes_left
    <2>3. \A j \in Starts : j < it' <=> j < it \/ j = it
      <3>1. ASSUME NEW j \in Starts, j < it', ~ (j < it) PROVE j = it
        <4>1. j \in Nat
          BY <1>4, StartsInProgram
        <4>2. ~ (it < j)
          BY <1>4, <2>2, <3>1, <4>1, StartsSpaced
        <4> QED
          BY <1>4, <3>1, <4>1, <4>2
      <3>2. \A j \in Starts : j < it => j < it'
        BY <1>4, <2>2, StartsInProgram
      <3> QED
        BY <2>2, <3>1, <3>2
    <2>4. instrs' = {j \in Starts : j < it'}
      BY <1>4, <2>1, <2>3 DEF DInv
    <2>5. At(it)'
      BY <1>1, <1>4, <2>2, StartsClosed, SameStarts DEF At
    <2>6. instrs' \subseteq 0 .. (size - 1)
      BY <1>4, <2>4, StartsInProgram DEF Starts
    <2>7. listing' = "walking"
      BY <2>1 DEF dis
    <2>8. DisTypeOK'
      BY <1>1, <1>2, <2>1, <2>2, <2>6, <2>7 DEF DInv, DisTypeOK
    <2>9. \A j \in Starts : j < it' => After(j) <= it'
      <3>1. ASSUME NEW j \in Starts, j < it PROVE After(j) <= it'
        <4>1. After(j) \in Nat /\ After(j) <= it
          BY <1>4, <3>1, StartsInProgram DEF DInv
        <4> QED
          BY <1>4, <2>2, <4>1
      <3> QED
        BY <2>2, <2>3, <3>1
    <2> QED
      BY <1>1, <1>2, <1>3, <2>2, <2>4, <2>5, <2>7, <2>8, <2>9, SameStarts DEF DInv
  <1> QED
    BY <1>6, <1>7

(* The end of the listing preserves it. *)
LEMMA DisDoneKeeps ==
    ASSUME DInv, DisDone
    PROVE  DInv'
  <1>1. /\ UNCHANGED <<size, code, i, jump_dests, pc, pc_changed, phase>>
        /\ UNCHANGED <<it, instrs, operand>> /\ listing' = "done"
    BY DEF DisDone, vars
  <1>2. IInv' /\ TypeOK'
    BY <1>1, SameStarts DEF DInv, IInv, TypeOK, At
  <1>3. OperandOfPush'
    BY <1>1, SameStarts, SameBytes DEF DInv, OperandOfPush
  <1>4. it = size
    BY DEF DisDone, DInv, DisTypeOK, TypeOK
  <1> QED
    BY <1>1, <1>2, <1>3, <1>4, SameStarts DEF DInv, DisTypeOK, At

(* A step of the program leaves the listing alone.  When it also leaves the  *)
(* operand right, it preserves the invariant.                                *)
LEMMA RunKeeps ==
    ASSUME DInv, IInv', UNCHANGED <<size, code, it, instrs, listing>>,
           operand' \in Nat \cup {NoWord}, OperandOfPush',
           pc_changed' => pc' = 0, phase' = "scan" => pc' = 0
    PROVE  DInv'
  <1>1. DisTypeOK'
    BY DEF DInv, DisTypeOK, IInv
  <1> QED
    BY <1>1, SameStarts DEF DInv, At

(* PUSH leaves its immediate for the instruction after it. *)
LEMMA PushKeeps ==
    ASSUME DInv, IInv', Push, UNCHANGED <<it, instrs, listing>>
    PROVE  DInv'
  <1>1. /\ UNCHANGED <<size, code, i, jump_dests, phase>> /\ ~ pc_changed'
        /\ pc' = After(pc) /\ operand' = get_immediate(pc)
        /\ phase = "run" /\ pc < size /\ pc + Immediate[code[pc]] < size
    BY DEF Push, push, step, dispatch, After
  <1>2. TypeOK /\ pc \in Starts
    BY <1>1 DEF DInv, DisTypeOK, IInv, At, TypeOK
  <1>3. After(pc) <= size
    BY <1>1, <1>2, StartsInProgram DEF After, TypeOK
  <1>4. operand' \in Nat
    BY <1>1, <1>2, <1>3, ImmediateIsNat
  <1>5. OperandOfPush'
    BY <1>1, <1>2, OnePredecessor, SameStarts, SameBytes DEF OperandOfPush
  <1> QED
    BY <1>1, <1>4, <1>5, RunKeeps

(* A jump goes to a JUMPDEST, which is no jump. *)
LEMMA JumpKeeps ==
    ASSUME DInv, IInv', Jump, UNCHANGED <<it, instrs, listing>>
    PROVE  DInv'
  <1>1. PICK p \in jump_dests : step(p, TRUE)
    BY DEF Jump, jump_to
  <1>2. /\ UNCHANGED <<size, code, i, jump_dests, phase>> /\ ~ pc_changed'
        /\ pc' = p /\ operand' = NoWord /\ phase = "run"
    BY <1>1 DEF Jump, jump_to, step, dispatch
  <1>3. code[p] = JUMPDEST
    BY DEF DInv, IInv
  <1>4. OperandOfPush'
    BY <1>2, <1>3, SameStarts, SameBytes, TableAssumption DEF OperandOfPush, IsJump
  <1> QED
    BY <1>2, <1>4, RunKeeps

(* Another opcode is no PUSH, or stays at 0, where no instruction ends. *)
LEMMA OtherKeeps ==
    ASSUME DInv, IInv', Other, operand' = NoWord, UNCHANGED <<it, instrs, listing>>
    PROVE  DInv'
  <1>1. /\ UNCHANGED <<size, code, i, jump_dests, phase>> /\ pc_changed' = FALSE
        /\ pc' = IF pc_changed THEN pc ELSE pc + 1
        /\ phase = "run" /\ pc < size /\ Immediate[code[pc]] = 0
    BY DEF Other, step, dispatch
  <1>2. TypeOK /\ pc \in Starts
    BY <1>1 DEF DInv, DisTypeOK, IInv, At, TypeOK
  <1>3. CASE pc_changed
    <2>1. pc' = 0
      BY <1>1, <1>3 DEF DInv
    <2>2. \A q \in Starts : After(q) # 0
      BY <1>2, StartsInProgram
    <2>3. OperandOfPush'
      BY <1>1, <2>1, <2>2, SameStarts, SameBytes DEF OperandOfPush
    <2> QED
      BY <1>1, <2>1, <2>3, RunKeeps
  <1>4. CASE ~ pc_changed
    <2>1. pc' = After(pc)
      BY <1>1, <1>2, <1>4, StartsInProgram DEF After
    <2>2. OperandOfPush'
      BY <1>1, <1>2, <2>1, OnePredecessor, SameStarts, SameBytes, StartsInProgram
         DEF OperandOfPush
    <2> QED
      BY <1>1, <2>2, RunKeeps
  <1> QED
    BY <1>3, <1>4

(* The invariant holds in every reachable state. *)
LEMMA SpecDInv == DisSpec => []DInv
  <1>1. ASSUME DisInit PROVE DInv
    <2>1. IInv /\ TypeOK
      <3>1. TypeOK
        BY <1>1 DEF DisInit, Init, TypeOK
      <3>2. \A j \in Starts : ~ (j < 0)
        BY <3>1, StartsInProgram
      <3> QED
        BY <1>1, <3>1, <3>2, StartsClosed DEF DisInit, Init, IInv
    <2>2. \A q \in Starts : After(q) # 0 /\ ~ (q < 0)
      BY <2>1, StartsInProgram
    <2>3. OperandOfPush
      BY <1>1, <2>2 DEF OperandOfPush, DisInit, Init
    <2>4. /\ instrs = {j \in Starts : j < it} /\ At(it) /\ it <= size
          /\ \A j \in Starts : j < it => After(j) <= it
      BY <1>1, <2>1, <2>2, StartsClosed DEF DisInit, TypeOK
    <2> QED
      BY <1>1, <2>1, <2>3, <2>4 DEF DInv, DisInit, Init, DisTypeOK
  <1>2. ASSUME DInv, [DisNext]_dvars PROVE DInv'
    <2>1. CASE dis
      BY <1>2, <2>1, DisKeeps
    <2>2. CASE DisDone
      BY <1>2, <2>2, DisDoneKeeps
    <2>3. CASE UNCHANGED dvars
      <3>1. UNCHANGED <<size, code, i, jump_dests, pc, pc_changed, phase, it, instrs,
                        listing, operand>>
        BY <2>3 DEF dvars, vars
      <3>2. IInv' /\ TypeOK'
        BY <1>2, <3>1, SameStarts DEF DInv, IInv, TypeOK, At
      <3>3. OperandOfPush'
        BY <1>2, <3>1, SameStarts, SameBytes DEF DInv, OperandOfPush
      <3> QED
        BY <1>2, <3>1, <3>2, <3>3, RunKeeps DEF DInv, DisTypeOK
    <2>4. CASE /\ Scan \/ Push \/ Jump \/ OtherOrEnd
               /\ UNCHANGED <<it, instrs, listing>>
      <3>1. Next
        BY <2>4 DEF Next, Scan, Push, Jump, OtherOrEnd
      <3>2. IInv'
        BY <1>2, <3>1, NextKeeps DEF DInv
      <3>3. CASE Scan
        <4>1. UNCHANGED <<size, code, pc, pc_changed, operand>> /\ pc = 0 /\ phase = "scan"
          BY <1>2, <3>3 DEF Scan, compute_jump_dests, ScanDone, DInv
        <4>2. OperandOfPush'
          BY <1>2, <4>1, SameStarts, SameBytes DEF DInv, OperandOfPush
        <4> QED
          BY <1>2, <2>4, <3>2, <4>1, <4>2, RunKeeps DEF DInv, DisTypeOK
      <3>4. CASE Push
        BY <1>2, <2>4, <3>2, <3>4, PushKeeps
      <3>5. CASE Jump
        BY <1>2, <2>4, <3>2, <3>5, JumpKeeps
      <3>6. CASE Other /\ operand' = NoWord
        BY <1>2, <2>4, <3>2, <3>6, OtherKeeps
      <3>7. CASE End /\ operand' = NoWord
        <4>1. UNCHANGED <<size, code, i, jump_dests, pc, pc_changed>> /\ phase' = "ended"
          BY <3>7 DEF End
        <4>2. OperandOfPush'
          BY <4>1 DEF OperandOfPush
        <4> QED
          BY <1>2, <2>4, <3>2, <3>7, <4>1, <4>2, RunKeeps DEF DInv
      <3> QED
        BY <2>4, <3>3, <3>4, <3>5, <3>6, <3>7 DEF OtherOrEnd
    <2> QED
      BY <1>2, <2>1, <2>2, <2>3, <2>4 DEF DisNext
  <1> QED
    BY <1>1, <1>2, PTL DEF DisSpec

(* Types, of the program and of its listing. *)
THEOREM SpecDisTypeOK == DisSpec => []DisTypeOK
  <1>1. DInv => DisTypeOK
    BY DEF DInv
  <1> QED
    BY <1>1, SpecDInv, PTL

(* A program that is listed and then run on the operands of its PUSHes runs   *)
(* as a program does: what is proved of Spec is true of it.                   *)
THEOREM DisImplementsProgram == DisSpec => Spec
  <1>1. DisInit => Init
    BY DEF DisInit
  <1>2. [DisNext]_dvars => [Next]_vars
    BY DEF DisNext, dvars, dis, DisDone, Scan, Push, Jump, OtherOrEnd, Next, vars
  <1> QED
    BY <1>1, <1>2, PTL DEF DisSpec, Spec

(* The listing has every instruction and nothing else, and only a program     *)
(* whose last immediate is cut off cannot be listed.                          *)
THEOREM SpecListingExact == DisSpec => []ListingExact
  <1>1. ASSUME DInv PROVE ListingExact
    <2>1. TypeOK /\ size \in Nat /\ it \in Nat
      BY <1>1 DEF DInv, DisTypeOK, TypeOK
    <2>2. CASE listing = "done"
      <3>1. it = size
        BY <1>1, <2>2 DEF DInv
      <3>2. instrs = Starts
        BY <1>1, <2>1, <3>1, StartsInProgram DEF DInv
      <3>3. \A j \in Starts : ~ (After(j) > size)
        BY <1>1, <2>1, <3>1, StartsInProgram DEF DInv
      <3> QED
        BY <2>2, <3>2, <3>3 DEF ListingExact
    <2>3. CASE listing = "thrown"
      BY <1>1, <2>3 DEF DInv, ListingExact
    <2>4. CASE listing = "walking"
      BY <2>4 DEF ListingExact
    <2> QED
      BY <1>1, <2>2, <2>3, <2>4 DEF DInv, DisTypeOK
  <1> QED
    BY <1>1, SpecDInv, PTL

(* What the listing says of a jump is where the jump goes. *)
THEOREM SpecCommentsTrue == DisSpec => []CommentsTrue
  <1>1. ASSUME DInv PROVE CommentsTrue
    <2> SUFFICES ASSUME listing = "done", phase = "run", pc \in Commented
                 PROVE  /\ operand # NoWord
                        /\ operand < Mod64 =>
                               comment(pc) = IF operand \in jump_dests THEN operand
                                             ELSE IllegalTarget
      BY DEF CommentsTrue
    <2>1. TypeOK /\ size \in Nat /\ it = size
      BY <1>1 DEF DInv, DisTypeOK, TypeOK
    <2>2. instrs = Starts
      BY <1>1, <2>1, StartsInProgram DEF DInv
    <2>3. PICK q \in Before(pc) : immediate_bytes(code[q]) > 0
      BY DEF Commented
    <2>4. /\ pc \in Starts /\ IsJump(pc)
          /\ q \in Starts /\ q < pc /\ \A r \in Starts : r < pc => r <= q
      BY <2>2, <2>3 DEF Before, Commented
    <2>5. After(q) = pc
      <3>1. /\ After(q) \in Nat /\ q \in Nat /\ pc \in Nat /\ pc < size
            /\ q < After(q) /\ After(q) <= pc
        BY <2>1, <2>4, StartsInProgram, StartsSpaced
      <3>2. ~ (After(q) < pc)
        BY <2>1, <2>4, <3>1, StartsClosed DEF At
      <3> QED
        BY <3>1, <3>2
    <2>6. Immediate[code[q]] > 0
      BY <2>1, <2>3, <2>4, TablesAgree
    <2>7. operand = get_immediate(q)
      BY <1>1, <2>4, <2>5, <2>6 DEF DInv, OperandOfPush
    <2>8. After(q) <= size
      BY <2>1, <2>4, <2>5, StartsInProgram
    <2>9. operand \in Nat
      BY <2>1, <2>4, <2>7, <2>8, ImmediateIsNat
    <2>10. (CHOOSE r \in Before(pc) : TRUE) = q
      <3>1. \A r \in Before(pc) : r = q
        BY <2>1, <2>2, <2>3, <2>4, StartsInProgram DEF Before
      <3> QED
        BY <2>3, <3>1
    <2>11. jump_dests = {j \in Starts : code[j] = JUMPDEST}
      <3>1. i \in Nat /\ i >= size /\ jump_dests = {j \in Starts : j < i /\ code[j] = JUMPDEST}
        BY <1>1 DEF DInv, IInv, TypeOK
      <3>2. \A j \in Starts : j < i
        BY <2>1, <3>1, StartsInProgram
      <3> QED
        BY <3>1, <3>2
    <2>12. ASSUME operand < Mod64
           PROVE  comment(pc) = IF operand \in jump_dests THEN operand ELSE IllegalTarget
      <3>1. operand % Mod64 = operand
        BY <2>9, <2>12, TableAssumption
      <3> QED
        BY <2>2, <2>7, <2>10, <2>11, <3>1 DEF comment
    <2> QED
      BY <2>9, <2>12, TableAssumption
  <1> QED
    BY <1>1, SpecDInv, PTL
=============================================================================
