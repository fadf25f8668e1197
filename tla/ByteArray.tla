------------------------------ MODULE ByteArray -------------------------------
(***************************************************************************)
(* What a program may rely on of the memory of its context and of its      *)
(* storage: an array of bytes that are 0 until they are written, of which  *)
(* the first Limit can be used, and a map of words that are 0 until they   *)
(* are written.                                                            *)
(*                                                                         *)
(* Offsets are numbers here, without a width: an access is done or refused *)
(* as a whole, and positions of the array or of a source never wrap.  The  *)
(* array has a high-water mark, the end of the highest access so far.      *)
(* Memory implements this specification.                                   *)
(***************************************************************************)
EXTENDS Integers, Sequences

CONSTANTS
    Byte, Key,
    WordBytes,   \* bytes of a word
    OffMod,      \* offsets are below this
    Limit,       \* size of the array
    Fetched      \* the instructions, with their operands

VARIABLES
    bytes, high, store,
    instr,       \* the instruction to be executed, or Idle
    out,         \* the bytes that the last one read
    ex           \* what it threw

avars == <<bytes, high, store, instr, out, ex>>

Word == [0 .. (WordBytes - 1) -> Byte]

Zero == [k \in 0 .. (WordBytes - 1) |-> 0]

Nothing == [k \in {} |-> 0]

Idle == [op |-> "idle"]

Higher(a, b) == IF a >= b THEN a ELSE b

-----------------------------------------------------------------------------
Fetch ==
    /\ instr = Idle
    /\ instr' \in Fetched
    /\ out' = Nothing /\ ex' = "none"
    /\ UNCHANGED <<bytes, high, store>>

Throw(e) ==
    /\ ex' = e /\ out' = Nothing
    /\ UNCHANGED <<bytes, high, store>>

(* Some bytes from a position on. *)
Slice(from, n) == [k \in 0 .. (n - 1) |-> bytes[from + k]]

Read(from, n) ==
    IF from + n > Limit THEN Throw("outOfBounds")
    ELSE /\ out' = Slice(from, n) /\ ex' = "none"
         /\ high' = Higher(high, from + n)
         /\ UNCHANGED <<bytes, store>>

(* n bytes from position "to" on get the values that val gives them. *)
Write(to, n, val(_)) ==
    IF to + n > Limit THEN Throw("outOfBounds")
    ELSE /\ bytes' = [k \in 0 .. (Limit - 1) |->
                         IF to <= k /\ k < to + n THEN val(k - to) ELSE bytes[k]]
         /\ out' = Nothing /\ ex' = "none"
         /\ high' = Higher(high, to + n)
         /\ UNCHANGED store

(* A source goes on with zeros after its end, however far. *)
At(source, k) == IF k < Len(source) THEN source[k + 1] ELSE 0

Copy ==
    IF instr.size = 0
    THEN ex' = "none" /\ out' = Nothing /\ UNCHANGED <<bytes, high, store>>
    ELSE LET val(k) == At(instr.source, instr.from + k)
         IN  Write(instr.off, instr.size, val)

StoreWord ==
    LET val(k) == instr.word[k]
    IN  Write(instr.off, WordBytes, val)

StoreByte ==
    LET val(k) == instr.word[WordBytes - 1]
    IN  Write(instr.off, 1, val)

LoadInput ==
    IF instr.off + WordBytes >= OffMod THEN Throw("overflow_error")
    ELSE /\ out' = [k \in 0 .. (WordBytes - 1) |-> At(instr.source, instr.off + k)]
         /\ ex' = "none"
         /\ UNCHANGED <<bytes, high, store>>

Load ==
    /\ out' = store[instr.key] /\ ex' = "none"
    /\ UNCHANGED <<bytes, high, store>>

Store ==
    /\ store' = [store EXCEPT ![instr.key] = instr.word]
    /\ out' = Nothing /\ ex' = "none"
    /\ UNCHANGED <<bytes, high>>

Execute ==
    /\ instr # Idle /\ instr' = Idle
    /\ \/ instr.op = "MLOAD" /\ Read(instr.off, WordBytes)
       \/ instr.op = "READ" /\ Read(instr.off, instr.size)
       \/ instr.op = "MSTORE" /\ StoreWord
       \/ instr.op = "MSTORE8" /\ StoreByte
       \/ instr.op = "COPY" /\ Copy
       \/ instr.op = "CALLDATALOAD" /\ LoadInput
       \/ instr.op = "SLOAD" /\ Load
       \/ instr.op = "SSTORE" /\ Store

Init ==
    /\ bytes = [k \in 0 .. (Limit - 1) |-> 0]
    /\ high = 0
    /\ store = [k \in Key |-> Zero]
    /\ instr = Idle /\ out = Nothing /\ ex = "none"

Next == Fetch \/ Execute

Spec == Init /\ [][Next]_avars
=============================================================================
