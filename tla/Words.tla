-------------------------------- MODULE Words ---------------------------------
(***************************************************************************)
(* What the opcodes of signed arithmetic, comparison and bytes compute: a  *)
(* word has no sign, so the handlers split off signs, negate modulo        *)
(* 2^WordBits, shift and mask.  Here that is written down step by step, as *)
(* operators from the stack that a handler finds to the one it leaves, and *)
(* compared with what integers do.                                         *)
(*                                                                         *)
(* The widths are parameters: 8, 32 and 64 in the code.  A behaviour is    *)
(* one opcode on one stack: nothing is kept from one to the next but the   *)
(* stack, and every stack is an initial state.                             *)
(***************************************************************************)
EXTENDS Integers, Sequences, Powers

CONSTANTS
    ByteBits,    \* bits of a byte
    Bytes,       \* bytes of a word
    LimbBits     \* bits of the integers a word converts from and to (uint64_t)

ASSUME WidthAssumption ==
    /\ ByteBits \in Nat \ {0} /\ Bytes \in Nat \ {0}
    /\ LimbBits \in 1 .. (ByteBits * Bytes - 1)

VARIABLES
    s,           \* the stack, top first
    op           \* the opcode that was executed, "none" before

wvars == <<s, op>>

WordBits == ByteBits * Bytes

Mod == Pow(2, WordBits)

Value == 0 .. (Mod - 1)

MinSigned == (Mod - 1) \div 2 + 1

get_sign(v) == IF v \div Pow(2, WordBits - 1) # 0 THEN -1 ELSE 1

negate(v) == (0 - v) % Mod

magnitude(v) == IF get_sign(v) = -1 THEN negate(v) ELSE v

(* An int that is compared with a word is converted to a limb first. *)
to_word(n) == n % Pow(2, LimbBits)

-----------------------------------------------------------------------------
(* The handlers, on operands.  x is the one on top of the stack. *)

sdiv(x, y) ==
    IF y = 0 THEN 0
    ELSE IF x = MinSigned /\ y = to_word(-1) THEN x
    ELSE LET z == magnitude(x) \div magnitude(y)
         IN  IF get_sign(x) # get_sign(y) THEN negate(z) ELSE z

smod_divisor(x, m) ==                    \* variant: the divisor's sign counts too
    IF m = 0 THEN 0
    ELSE LET z == magnitude(x) % magnitude(m)
         IN  IF get_sign(x) # get_sign(m) THEN negate(z) ELSE z

smod(x, m) ==
    IF m = 0 THEN 0
    ELSE LET z == magnitude(x) % magnitude(m)
         IN  IF get_sign(x) = -1 THEN negate(z) ELSE z

slt(x, y) ==
    IF x = y THEN 0
    ELSE IF get_sign(x) # get_sign(y) THEN IF get_sign(x) = -1 THEN 1 ELSE 0
    ELSE IF x < y THEN 1 ELSE 0

(* The bits below idx, and copies of the bit at idx from there on. *)
signextend(x, y) ==
    IF x >= Bytes THEN y
    ELSE LET idx  == ByteBits * x + (ByteBits - 1)
             sign == (y \div Pow(2, idx)) % 2
         IN  (IF sign = 1 THEN Mod - Pow(2, idx) ELSE 0) + (y % Pow(2, idx))

(* shift is that of the byte's lowest bit. *)
byte_value(idx, val) ==
    LET shift == WordBits - ByteBits - ByteBits * idx
    IN  (val \div Pow(2, shift)) % Pow(2, ByteBits)

-----------------------------------------------------------------------------
(* The handlers, on the stack. *)

Below(n) == SubSeq(s, n + 1, Len(s))

Binary(o, f(_, _)) ==
    /\ op = "none" /\ op' = o
    /\ Len(s) >= 2
    /\ s' = <<f(s[1], s[2])>> \o Below(2)

Sdiv == Binary("SDIV", sdiv)

Smod == Binary("SMOD", smod)

Slt == Binary("SLT", slt)

Signextend == Binary("SIGNEXTEND", signextend)

(* sgt() swaps and calls slt(). *)
Sgt ==
    LET swapped(x, y) == slt(y, x)
    IN  Binary("SGT", swapped)

(* byte() pops its second operand only when it needs it. *)
ByteOp ==
    \/ s[1] < Bytes /\ Binary("BYTE", byte_value)
    \/ /\ s[1] >= Bytes
       /\ op = "none" /\ op' = "BYTE"
       /\ s' = <<0>> \o Below(1)

Init ==
    /\ \E x \in Value, y \in Value : s \in {<<x, y>>, <<x, y, 1>>}
    /\ op = "none"

Next == Sdiv \/ Smod \/ Slt \/ Sgt \/ Signextend \/ ByteOp

Spec == Init /\ [][Next]_wvars

-----------------------------------------------------------------------------
(* The same on integers. *)

Signed(v) == IF v >= Pow(2, WordBits - 1) THEN v - Mod ELSE v

Unsigned(z) == z % Mod

Abs(z) == IF z < 0 THEN - z ELSE z

SignOf(z) == IF z < 0 THEN -1 ELSE 1

(* Division that truncates towards 0, and the remainder of it. *)
Quotient(a, b) == SignOf(a) * SignOf(b) * (Abs(a) \div Abs(b))

Remainder(a, b) == a - b * Quotient(a, b)

TruncatedQuotient(x, y) ==
    IF y = 0 THEN 0 ELSE Unsigned(Quotient(Signed(x), Signed(y)))

TruncatedRemainder(x, y) ==
    IF y = 0 THEN 0 ELSE Unsigned(Remainder(Signed(x), Signed(y)))

Less(x, y) == IF Signed(x) < Signed(y) THEN 1 ELSE 0

Greater(x, y) == Less(y, x)

(* The number that the lowest x + 1 bytes of y stand for in two's complement. *)
Extended(x, y) ==
    LET n   == ByteBits * (IF x < Bytes THEN x + 1 ELSE Bytes)
        low == y % Pow(2, n)
    IN  Unsigned(IF low >= Pow(2, n - 1) THEN low - Pow(2, n) ELSE low)

(* The byte of y with x bytes before it. *)
ByteAt(x, y) ==
    IF x < Bytes THEN (y % Pow(2, WordBits - ByteBits * x)) \div Pow(2, WordBits - ByteBits * (x + 1))
    ELSE 0

(* SMOD, SLT, SGT and SIGNEXTEND take two words, leave the one that integers  *)
(* give, and touch nothing below; so does SDIV but for one pair of words.     *)
(* BYTE leaves the right byte on top.                                         *)
WordStep ==
    LET result(f(_, _)) == s' = <<f(s[1], s[2])>> \o Below(2)
    IN  /\ op' = "SMOD" => result(TruncatedRemainder)
        /\ op' = "SLT" => result(Less)
        /\ op' = "SGT" => result(Greater)
        /\ op' = "SIGNEXTEND" => result(Extended)
        /\ op' = "SDIV" /\ <<s[1], s[2]>> # <<MinSigned, to_word(-1)>>
               => result(TruncatedQuotient)
        /\ op' = "BYTE" => s'[1] = ByteAt(s[1], s[2])

WordOpsExact == [][WordStep]_wvars

(* "Signed integer division operation (truncated)", with "special 'overflow   *)
(* case' from the yellow paper", for all words.                               *)
SdivStep == op' = "SDIV" => s' = <<TruncatedQuotient(s[1], s[2])>> \o Below(2)

SdivTruncates == [][SdivStep]_wvars
=============================================================================
