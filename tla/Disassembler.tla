----------------------------- MODULE Disassembler ----------------------------
(***************************************************************************)
(* The disassembly of a program (Disassembler::dis) and the program that   *)
(* runs, side by side.                                                     *)
(*                                                                         *)
(* The disassembler has its own table of opcodes, walks the bytes on its   *)
(* own, and guesses where a jump goes from the immediate of the            *)
(* instruction before it.  The processor knows none of this: it takes what *)
(* is on the stack.  This module lets the program of module Program run on *)
(* the operands that its PUSHes leave, so that what the disassembly says   *)
(* of a jump can be compared with what the jump does.                      *)
(*                                                                         *)
(* A step of the walk is one iteration of the first loop of dis.  It comes *)
(* before the run here; the two share no state.                            *)
(***************************************************************************)
EXTENDS Program

CONSTANTS
    ops,        \* the table: bytes that have a mnemonic, with their immediate_bytes
    Mod64,      \* 2^64
    from_big_endian(_),   \* the number that a sequence of bytes stands for
    NoWord      \* the word on top of the stack is not the last PUSH's

ASSUME TableAssumption ==
    /\ DOMAIN ops \subseteq Byte
    /\ \A b \in Byte : Immediate[b] = IF b \in DOMAIN ops THEN ops[b] ELSE 0
    /\ JUMPDEST \notin {JUMP, JUMPI}
    /\ Mod64 \in Nat \ {0}
    /\ \A b \in Byte : \A raw \in [1 .. Immediate[b] -> Byte] : from_big_endian(raw) \in Nat
    /\ NoWord \notin Nat

VARIABLES
    it,         \* the index of the walk
    instrs,     \* Disassembly::instrs: where an instruction was found
    listing,    \* "walking", "done", or "thrown" (out_of_range)
    operand     \* what the PUSH just executed left on the stack, or NoWord

dvars == <<vars, it, instrs, listing, operand>>

DisTypeOK ==
    /\ TypeOK
    /\ it \in Nat
    /\ instrs \subseteq 0 .. (size - 1)
    /\ listing \in {"walking", "done", "thrown"}
    /\ operand \in Nat \cup {NoWord}

-----------------------------------------------------------------------------
(* The listing. *)

(* An opcode that is not in the table is INVALID and has no immediate. *)
immediate_bytes(b) == IF b \in DOMAIN ops THEN ops[b] ELSE 0

bytes_left == size - (it + 1)

dis_lenient ==                           \* variant: the opcode is counted as left
    /\ listing = "walking" /\ it < size
    /\ IF bytes_left + 1 < immediate_bytes(code[it])
       THEN listing' = "thrown" /\ UNCHANGED <<it, instrs>>
       ELSE /\ instrs' = instrs \cup {it}
            /\ it' = it + 1 + immediate_bytes(code[it])
            /\ UNCHANGED listing
    /\ UNCHANGED <<vars, operand>>

dis ==
    /\ listing = "walking" /\ it < size
    /\ IF bytes_left < immediate_bytes(code[it])
       THEN listing' = "thrown" /\ UNCHANGED <<it, instrs>>
       ELSE /\ instrs' = instrs \cup {it}
            /\ it' = it + 1 + immediate_bytes(code[it])
            /\ UNCHANGED listing
    /\ UNCHANGED <<vars, operand>>

DisDone ==
    /\ listing = "walking" /\ it >= size
    /\ listing' = "done"
    /\ UNCHANGED <<vars, it, instrs, operand>>

(* The bytes of the instruction at j after its opcode. *)
raw_imm(j) == [n \in 1 .. Immediate[code[j]] |-> code[j + n]]

get_immediate(j) == from_big_endian(raw_imm(j))

(* The instruction listed before the one at j. *)
Before(j) == {q \in instrs : q < j /\ \A r \in instrs : r < j => r <= q}

IsJump(j) == code[j] \in {JUMP, JUMPI}

(* The jumps that get a comment follow a PUSH. *)
Commented == {j \in instrs : IsJump(j) /\ \E q \in Before(j) : immediate_bytes(code[q]) > 0}

(* "branches to loc_t" is t; "illegal target" is no position of the program. *)
IllegalTarget == size

comment_unchecked(j) ==                  \* variant: any instruction is a target
    LET t == get_immediate(CHOOSE q \in Before(j) : TRUE) % Mod64
    IN  IF t \in instrs THEN t ELSE IllegalTarget

comment(j) ==
    LET t == get_immediate(CHOOSE q \in Before(j) : TRUE) % Mod64
    IN  IF t \in instrs /\ code[t] = JUMPDEST THEN t ELSE IllegalTarget

-----------------------------------------------------------------------------
(* The run, with the operand of a jump that follows a PUSH. *)

Push ==
    /\ push
    /\ operand' = get_immediate(pc)

(* pop64 rejects a word of more than 64 bits, and nothing else is known to   *)
(* jump_to of an operand that was not pushed just before.                    *)
Jump ==
    /\ jump_to
    /\ operand # NoWord => operand < Mod64 /\ pc' = operand
    /\ operand' = NoWord

OtherOrEnd == (Other \/ End) /\ operand' = NoWord

Scan == (compute_jump_dests \/ ScanDone) /\ UNCHANGED operand

DisInit ==
    /\ Init
    /\ it = 0 /\ instrs = {} /\ listing = "walking"
    /\ operand = NoWord

DisNext ==
    \/ dis \/ DisDone
    \/ /\ listing # "walking"
       /\ Scan \/ Push \/ Jump \/ OtherOrEnd
       /\ UNCHANGED <<it, instrs, listing>>

DisSpec == DisInit /\ [][DisNext]_dvars

-----------------------------------------------------------------------------
(* What the listing says of the run. *)

(* The listing has the instructions of the program and nothing else, and dis *)
(* throws exactly for a program whose last immediate is cut off.             *)
ListingExact ==
    /\ listing = "done" => instrs = Starts
    /\ listing # "walking" =>
           (listing = "thrown" <=> \E j \in Starts : After(j) > size)

(* A jump with a comment never takes its destination from anywhere but the   *)
(* PUSH before it, and the comment is right: the location is where the jump  *)
(* goes, and a jump to an illegal target is never taken.  (The comment of an *)
(* immediate of more than 64 bits is that of its low bits.)                  *)
CommentsTrue ==
    (listing = "done" /\ phase = "run" /\ pc \in Commented) =>
        /\ operand # NoWord
        /\ operand < Mod64 =>
               comment(pc) = IF operand \in jump_dests THEN operand ELSE IllegalTarget
=============================================================================
