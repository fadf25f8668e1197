------------------------------ MODULE MCProgram ------------------------------
(* An instance of Program and its disassembly for TLC: every program over six *)
(* bytes, whose values are positions of a program too.                        *)
EXTENDS Disassembler, Sequences

(* 0 PUSH1, 1 JUMPDEST, 2 JUMP, 3 JUMPI, 4 PUSH2, 5 an opcode of no mnemonic. *)
Bytes == 0 .. 5

ImmediateBytes == [b \in Bytes |-> CASE b = 0 -> 1 [] b = 4 -> 2 [] OTHER -> 0]

BigEndian(raw) ==
    LET v[n \in 0 .. Len(raw)] == IF n = 0 THEN 0 ELSE 6 * v[n - 1] + raw[n]
    IN  v[Len(raw)]

Table == [b \in 0 .. 4 |-> ImmediateBytes[b]]
=============================================================================
