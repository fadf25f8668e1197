------------------------------- MODULE Program -------------------------------
(***************************************************************************)
(* The bytes of one program: the scan for jump destinations that the       *)
(* constructor of Program makes, and the walk of the program counter of    *)
(* the context that runs it.                                               *)
(*                                                                         *)
(* The bytes of a PUSH's immediate are data, and any of them may have the  *)
(* value of an opcode.  The scan skips them, the handler of PUSH skips     *)
(* them, and jumps go to scanned destinations only: three pieces of code   *)
(* that must agree on where instructions begin.  Processor keeps no bytes  *)
(* and lets a jump land anywhere; this module says where it can.           *)
(*                                                                         *)
(* A step of the scan is one iteration of its loop.  A step of the walk is *)
(* one iteration of the loop of _Processor::run with the same context      *)
(* current before and after.                                               *)
(***************************************************************************)
EXTENDS Integers

CONSTANTS
    Byte,        \* the values a byte of a program takes
    Immediate,   \* number of immediate bytes of each, 0 when it is no PUSH
    JUMPDEST, JUMP, JUMPI,   \* the bytes of these names
    MaxSize      \* bound: programs have at most so many bytes

ASSUME ByteAssumption ==
    /\ Immediate \in [Byte -> Nat]
    /\ \A b \in {JUMPDEST, JUMP, JUMPI} : b \in Byte /\ Immediate[b] = 0
    /\ MaxSize \in Nat

VARIABLES
    size,         \* code.size()
    code,         \* the bytes, numbered from 0
    i,            \* the index of the scan
    jump_dests,   \* what the scan has found
    pc, pc_changed,
    phase

vars == <<size, code, i, jump_dests, pc, pc_changed, phase>>

TypeOK ==
    /\ size \in 0 .. MaxSize
    /\ code \in [0 .. (size - 1) -> Byte]
    /\ i \in Nat /\ pc \in Nat
    /\ jump_dests \subseteq 0 .. (size - 1)
    /\ pc_changed \in BOOLEAN
    /\ phase \in {"scan", "run", "ended"}

-----------------------------------------------------------------------------
(* The scan. *)

compute_jump_dests_flat ==               \* variant: immediates are scanned too
    /\ phase = "scan" /\ i < size
    /\ i' = i + 1
    /\ jump_dests' = IF code[i] = JUMPDEST THEN jump_dests \cup {i} ELSE jump_dests
    /\ UNCHANGED <<size, code, pc, pc_changed, phase>>

compute_jump_dests_late ==               \* variant: i is advanced first
    /\ phase = "scan" /\ i < size
    /\ i' = i + Immediate[code[i]] + 1
    /\ jump_dests' = IF code[i] = JUMPDEST THEN jump_dests \cup {i'} ELSE jump_dests
    /\ UNCHANGED <<size, code, pc, pc_changed, phase>>

compute_jump_dests ==
    /\ phase = "scan" /\ i < size
    /\ i' = i + Immediate[code[i]] + 1
    /\ jump_dests' = IF code[i] = JUMPDEST THEN jump_dests \cup {i} ELSE jump_dests
    /\ UNCHANGED <<size, code, pc, pc_changed, phase>>

ScanDone ==
    /\ phase = "scan" /\ i >= size
    /\ phase' = "run"
    /\ UNCHANGED <<size, code, i, jump_dests, pc, pc_changed>>

-----------------------------------------------------------------------------
(* The walk. *)

(* The handler leaves the pc and its flag as newPc and changed; then step(). *)
step(newPc, changed) ==
    /\ pc' = IF changed THEN newPc ELSE newPc + 1
    /\ pc_changed' = FALSE
    /\ UNCHANGED <<size, code, i, jump_dests, phase>>

(* The loop's condition holds, and the byte at pc is taken as an opcode. *)
dispatch == phase = "run" /\ pc < size

push ==
    /\ dispatch /\ Immediate[code[pc]] > 0
    /\ pc + Immediate[code[pc]] < size
    /\ step(pc + Immediate[code[pc]] + 1, TRUE)

jump_to_unchecked ==                     \* variant: any JUMPDEST byte will do
    /\ dispatch /\ code[pc] \in {JUMP, JUMPI}
    /\ \E newPc \in 0 .. (size - 1) :
          code[newPc] = JUMPDEST /\ step(newPc, TRUE)

jump_to ==
    /\ dispatch /\ code[pc] \in {JUMP, JUMPI}
    /\ \E newPc \in jump_dests : step(newPc, TRUE)

(* Every other opcode, and a JUMPI that does not jump, leave the pc alone. *)
Other ==
    /\ dispatch /\ Immediate[code[pc]] = 0 /\ code[pc] # JUMP
    /\ step(pc, pc_changed)

(* The context is popped: its code is at an end, its handler threw, or it    *)
(* returned or stopped.                                                      *)
End ==
    /\ phase = "run"
    /\ phase' = "ended"
    /\ UNCHANGED <<size, code, i, jump_dests, pc, pc_changed>>

Init ==
    /\ size \in 0 .. MaxSize
    /\ code \in [0 .. (size - 1) -> Byte]
    /\ i = 0 /\ jump_dests = {}
    /\ pc = 0 /\ pc_changed = TRUE
    /\ phase = "scan"

Next == compute_jump_dests \/ ScanDone \/ push \/ jump_to \/ Other \/ End

Spec == Init /\ [][Next]_vars

-----------------------------------------------------------------------------
(* Where instructions begin, stated without any of the loops above: the least *)
(* set of positions that has 0 and, with an instruction, the one after it.    *)

After(j) == j + Immediate[code[j]] + 1

Closed(S) == 0 \in S /\ \A j \in S : After(j) < size => After(j) \in S

Starts ==
    {j \in 0 .. (size - 1) : \A S \in SUBSET (0 .. (size - 1)) : Closed(S) => j \in S}

(* No immediate is ever executed: whatever the jumps, the pc is at the begin  *)
(* of an instruction, or the program is over.                                 *)
PcAtInstruction == (phase = "run" /\ pc < size) => pc \in Starts

(* The scan finds exactly the JUMPDEST bytes that are instructions: none that *)
(* is data, and all that are not.                                             *)
JumpDestsExact ==
    phase # "scan" => jump_dests = {j \in Starts : code[j] = JUMPDEST}
=============================================================================
