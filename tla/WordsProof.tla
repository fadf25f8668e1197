------------------------------ MODULE WordsProof ------------------------------
(***************************************************************************)
(* The opcodes of Words leave what integers give, for words of any width.  *)
(*                                                                         *)
(* Half is the weight of the sign bit.  Below it a word is the number it   *)
(* stands for, from it on that number is the word less Mod, and Mod is     *)
(* twice Half: signed comparison and division need to know no more.  The   *)
(* opcodes that take words apart at a byte need that a power of a sum is a *)
(* product.                                                                *)
(***************************************************************************)
EXTENDS Words, PowersProof

Half == Pow(2, WordBits - 1)

(* The width of a word, and its half. *)
LEMMA Widths ==
    /\ WordBits \in Nat /\ WordBits - 1 \in Nat
    /\ Half \in Nat \ {0} /\ Mod = 2 * Half
  <1> DEFINE B == ByteBits
             N == Bytes
  <1>1. B \in Nat \ {0} /\ N \in Nat \ {0} /\ WordBits = B * N
    BY WidthAssumption DEF WordBits
  <1> HIDE DEF B, N
  <1>2. B * N \in Nat \ {0}
    BY <1>1
  <1>3. WordBits \in Nat /\ WordBits - 1 \in Nat /\ (WordBits - 1) + 1 = WordBits
    BY <1>1, <1>2
  <1>4. Pow(2, (WordBits - 1) + 1) = 2 * Pow(2, WordBits - 1)
    BY <1>3, PowIs
  <1> QED
    BY <1>3, <1>4, PowPositive DEF Half, Mod

(* A word is a number below Mod. *)
LEMMA ValueIs ==
    ASSUME NEW v
    PROVE  v \in Value <=> v \in Nat /\ v < Mod
  BY Widths DEF Value

(* Reduction of what lies within one word of the range. *)
LEMMA ModMod ==
    ASSUME NEW z \in Int
    PROVE  /\ z >= 0 /\ z < Mod => z % Mod = z
           /\ z < 0 /\ z >= - Mod => z % Mod = z + Mod
  <1> DEFINE M == Mod
  <1>1. M \in Nat \ {0}
    BY Widths
  <1> HIDE DEF M
  <1>2. \A k \in Int, r \in 0 .. (M - 1) : z = k * M + r => z % M = r
    BY <1>1
  <1>3. z >= 0 /\ z < M => z % M = z
    BY <1>1
  <1>4. z < 0 /\ z >= - M => z % M = z + M
    BY <1>1, <1>2
  <1> QED
    BY <1>3, <1>4 DEF M

(* The sign and the magnitude that the handlers split a word into are those  *)
(* of the number it stands for.                                              *)
LEMMA SignIs ==
    ASSUME NEW v \in Value
    PROVE  /\ Signed(v) \in Int
           /\ v < Half  => Signed(v) = v /\ get_sign(v) = 1
           /\ v >= Half => Signed(v) = v - Mod /\ get_sign(v) = -1
           /\ get_sign(v) = SignOf(Signed(v))
           /\ magnitude(v) = Abs(Signed(v))
           /\ magnitude(v) \in 0 .. Half
  <1> DEFINE H == Half
             M == Mod
  <1>1. H \in Nat \ {0} /\ M = 2 * H /\ v \in Nat /\ v < M
    BY Widths, ValueIs
  <1>2. get_sign(v) = (IF v \div H # 0 THEN -1 ELSE 1)
    BY DEF get_sign, Half
  <1>3. Signed(v) = (IF v >= H THEN v - M ELSE v)
    BY DEF Signed, Half
  <1>4. v > 0 => negate(v) = M - v
    <2>1. 0 - v \in Int
      BY <1>1
    <2> QED
      BY <1>1, <2>1, ModMod DEF negate
  <1> HIDE DEF H, M
  <1>5. v \div H # 0 <=> v >= H
    <2>1. v < H => v \div H = 0
      BY <1>1
    <2>2. v >= H => v \div H = 1
      <3>1. v >= H => v = 1 * H + (v - H) /\ v - H \in 0 .. (H - 1)
        BY <1>1
      <3> QED
        BY <1>1, <3>1
    <2> QED
      BY <1>1, <2>1, <2>2
  <1>6. CASE v < H
    <2>1. Signed(v) = v /\ get_sign(v) = 1
      BY <1>1, <1>2, <1>3, <1>5, <1>6
    <2>2. magnitude(v) = v
      BY <2>1 DEF magnitude
    <2> QED
      BY <1>1, <1>6, <2>1, <2>2 DEF SignOf, Abs, H, M
  <1>7. CASE v >= H
    <2>1. Signed(v) = v - M /\ get_sign(v) = -1
      BY <1>1, <1>2, <1>3, <1>5, <1>7
    <2>2. magnitude(v) = M - v
      BY <1>1, <1>4, <1>7, <2>1 DEF magnitude
    <2>3. v - M < 0 /\ v - M \in Int /\ M - v = - (v - M) /\ M - v \in 0 .. H
      BY <1>1, <1>7
    <2> QED
      BY <1>1, <1>7, <2>1, <2>2, <2>3 DEF SignOf, Abs, H, M
  <1> QED
    BY <1>1, <1>6, <1>7

(* What is computed from the two magnitudes, negated when the numbers'       *)
(* product is.                                                               *)
LEMMA NegateIs ==
    ASSUME NEW z \in 0 .. Half
    PROVE  Unsigned(z) = z /\ Unsigned(- z) = negate(z) /\ Unsigned(-1 * z) = negate(z)
  <1>1. z \in Int /\ z >= 0 /\ z < Mod
    BY Widths
  <1>2. z % Mod = z
    BY <1>1, ModMod
  <1>3. 0 - z = - z /\ -1 * z = - z
    BY <1>1
  <1> QED
    BY <1>2, <1>3 DEF Unsigned, negate

(* The magnitude of a divisor is not 0. *)
LEMMA Divisor ==
    ASSUME NEW y \in Value, y # 0
    PROVE  magnitude(y) \in Nat \ {0}
  <1>1. y \in Nat /\ y < Mod /\ Half \in Nat \ {0} /\ Mod = 2 * Half
    BY Widths, ValueIs
  <1>2. magnitude(y) = (IF Signed(y) < 0 THEN - Signed(y) ELSE Signed(y))
    BY SignIs DEF Abs
  <1>3. Signed(y) = y \/ Signed(y) = y - Mod
    BY DEF Signed
  <1> QED
    BY <1>1, <1>2, <1>3

(* SDIV, but for the pair of words its overflow case is tested against. *)
LEMMA SdivExact ==
    ASSUME NEW x \in Value, NEW y \in Value, ~ (x = MinSigned /\ y = to_word(-1))
    PROVE  sdiv(x, y) = TruncatedQuotient(x, y)
  <1>1. CASE y = 0
    BY <1>1 DEF sdiv, TruncatedQuotient
  <1>2. CASE y # 0
    <2> DEFINE z == magnitude(x) \div magnitude(y)
    <2>1. z \in 0 .. Half
      <3>1. magnitude(x) \in Nat /\ magnitude(x) <= Half /\ Half \in Nat
        BY SignIs, Widths
      <3>2. magnitude(x) \div magnitude(y) \in Nat
            /\ magnitude(x) \div magnitude(y) <= magnitude(x)
        BY <1>2, <3>1, Divisor, DivMod
      <3> QED
        BY <3>1, <3>2
    <2>2. sdiv(x, y) = (IF get_sign(x) # get_sign(y) THEN negate(z) ELSE z)
      BY <1>2 DEF sdiv
    <2>3. TruncatedQuotient(x, y) = Unsigned(get_sign(x) * get_sign(y) * z)
      BY <1>2, SignIs DEF TruncatedQuotient, Quotient
    <2>4. get_sign(x) \in {1, -1} /\ get_sign(y) \in {1, -1}
      BY DEF get_sign
    <2> HIDE DEF z
    <2>5. CASE get_sign(x) # get_sign(y)
      <3>1. get_sign(x) * get_sign(y) * z = -1 * z
        BY <2>1, <2>4, <2>5
      <3> QED
        BY <2>1, <2>2, <2>3, <2>5, <3>1, NegateIs
    <2>6. CASE get_sign(x) = get_sign(y)
      <3>1. get_sign(x) * get_sign(y) * z = z
        BY <2>1, <2>4, <2>6
      <3> QED
        BY <2>1, <2>2, <2>3, <2>6, <3>1, NegateIs
    <2> QED
      BY <2>5, <2>6
  <1> QED
    BY <1>1, <1>2

(* SMOD: the remainder has the sign of the dividend. *)
LEMMA SmodExact ==
    ASSUME NEW x \in Value, NEW y \in Value
    PROVE  smod(x, y) = TruncatedRemainder(x, y)
  <1>1. CASE y = 0
    BY <1>1 DEF smod, TruncatedRemainder
  <1>2. CASE y # 0
    <2> DEFINE a == Signed(x)
               b == Signed(y)
               q == magnitude(x) \div magnitude(y)
               r == magnitude(x) % magnitude(y)
    <2>1. /\ magnitude(x) \in Nat /\ magnitude(x) <= Half /\ Half \in Nat
          /\ magnitude(y) \in Nat \ {0}
      BY <1>2, SignIs, Divisor, Widths
    <2>2. /\ q \in Nat /\ r \in Nat /\ r <= magnitude(x)
          /\ magnitude(x) = magnitude(y) * q + r
      BY <2>1, DivMod
    <2>3. r \in 0 .. Half
      <3> HIDE DEF r
      <3> QED
        BY <2>1, <2>2
    <2>4. smod(x, y) = (IF get_sign(x) = -1 THEN negate(r) ELSE r)
      BY <1>2 DEF smod
    <2>5. TruncatedRemainder(x, y) = Unsigned(a - b * (get_sign(x) * get_sign(y) * q))
      BY <1>2, SignIs DEF TruncatedRemainder, Remainder, Quotient
    <2>6. /\ a \in Int /\ b \in Int
          /\ a < 0 => get_sign(x) = -1 /\ magnitude(x) = - a
          /\ ~ (a < 0) => get_sign(x) = 1 /\ magnitude(x) = a
          /\ b < 0 => get_sign(y) = -1 /\ magnitude(y) = - b
          /\ ~ (b < 0) => get_sign(y) = 1 /\ magnitude(y) = b
      BY SignIs DEF SignOf, Abs
    <2> HIDE DEF a, b, q, r
    <2>7. CASE a < 0 /\ b < 0
      <3>1. get_sign(x) * get_sign(y) * q = q /\ b * q + magnitude(y) * q = 0
        BY <2>2, <2>6, <2>7
      <3>2. a - b * q = -1 * r
        BY <2>1, <2>2, <2>6, <2>7, <3>1
      <3> QED
        BY <2>3, <2>4, <2>5, <2>6, <2>7, <3>1, <3>2, NegateIs
    <2>8. CASE a < 0 /\ ~ (b < 0)
      <3>1. get_sign(x) * get_sign(y) * q = - q
        BY <2>2, <2>6, <2>8
      <3>2. a - b * (- q) = -1 * r
        BY <2>1, <2>2, <2>6, <2>8
      <3> QED
        BY <2>3, <2>4, <2>5, <2>6, <2>8, <3>1, <3>2, NegateIs
    <2>9. CASE ~ (a < 0) /\ b < 0
      <3>1. get_sign(x) * get_sign(y) * q = - q
        BY <2>2, <2>6, <2>9
      <3>2. a - b * (- q) = r
        BY <2>1, <2>2, <2>6, <2>9
      <3> QED
        BY <2>3, <2>4, <2>5, <2>6, <2>9, <3>1, <3>2, NegateIs
    <2>10. CASE ~ (a < 0) /\ ~ (b < 0)
      <3>1. get_sign(x) * get_sign(y) * q = q
        BY <2>2, <2>6, <2>10
      <3>2. a - b * q = r
        BY <2>1, <2>2, <2>6, <2>10
      <3> QED
        BY <2>3, <2>4, <2>5, <2>6, <2>10, <3>1, <3>2, NegateIs
    <2> QED
      BY <2>7, <2>8, <2>9, <2>10
  <1> QED
    BY <1>1, <1>2

(* SLT, and SGT with its operands swapped. *)
LEMMA SltExact ==
    ASSUME NEW x \in Value, NEW y \in Value
    PROVE  slt(x, y) = Less(x, y)
  <1>1. /\ x \in Nat /\ x < Mod /\ y \in Nat /\ y < Mod
        /\ Half \in Nat \ {0} /\ Mod = 2 * Half
    BY Widths, ValueIs
  <1>2. /\ x < Half  => Signed(x) = x /\ get_sign(x) = 1
        /\ x >= Half => Signed(x) = x - Mod /\ get_sign(x) = -1
        /\ y < Half  => Signed(y) = y /\ get_sign(y) = 1
        /\ y >= Half => Signed(y) = y - Mod /\ get_sign(y) = -1
    BY SignIs
  <1> QED
    BY <1>1, <1>2 DEF slt, Less

(* The low part of a number, one bit longer: the bit in front of it says     *)
(* whether p is added.                                                       *)
LEMMA NextBit ==
    ASSUME NEW y \in Nat, NEW p \in Nat \ {0}
    PROVE  /\ (y \div p) % 2 \in {0, 1}
           /\ y % (2 * p) = ((y \div p) % 2) * p + (y % p)
  <1> DEFINE q == y \div p
             r == y % p
             h == q \div 2
             b == q % 2
  <1>1. q \in Nat /\ r \in Nat /\ r < p /\ y = p * q + r
    BY DivMod
  <1>2. h \in Nat /\ b \in Nat /\ b < 2 /\ q = 2 * h + b
    <2> HIDE DEF q
    <2> QED
      BY <1>1, DivMod
  <1> HIDE DEF q, r, h, b
  <1>3. b \in {0, 1}
    BY <1>2
  <1>4. b * p \in Nat /\ b * p <= p
    BY <1>3
  <1>5. y = (2 * p) * h + (b * p + r)
    <2>1. p * (2 * h + b) = (2 * p) * h + b * p
      BY <1>2, <1>3
    <2> QED
      BY <1>1, <1>2, <1>4, <2>1
  <1>6. b * p + r < 2 * p /\ b * p + r \in Nat /\ 2 * p \in Nat \ {0}
    BY <1>1, <1>4
  <1>7. y % (2 * p) = b * p + r
    BY <1>2, <1>5, <1>6, DivModIs
  <1> QED
    BY <1>3, <1>7 DEF q, r, b

(* The digit of a number behind p and in front of what p * b cuts off. *)
LEMMA Digit ==
    ASSUME NEW y \in Nat, NEW p \in Nat \ {0}, NEW b \in Nat \ {0}
    PROVE  (y % (p * b)) \div p = (y \div p) % b
  <1> DEFINE q == y \div p
             r == y % p
             h == q \div b
             d == q % b
  <1>1. q \in Nat /\ r \in Nat /\ r < p /\ y = p * q + r
    BY DivMod
  <1>2. h \in Nat /\ d \in Nat /\ d < b /\ q = b * h + d
    <2> HIDE DEF q
    <2> QED
      BY <1>1, DivMod
  <1> HIDE DEF q, r, h, d
  <1>3. p * d \in Nat /\ p * b \in Nat \ {0}
    BY <1>2
  <1>4. y = (p * b) * h + (p * d + r)
    <2>1. p * (b * h + d) = (p * b) * h + p * d
      BY <1>2
    <2> QED
      BY <1>1, <1>2, <1>3, <2>1
  <1>5. p * d + r < p * b
    <2>1. p * (b - 1 - d) \in Nat /\ p * (b - 1 - d) = p * b - p - p * d
      BY <1>2
    <2> QED
      BY <1>1, <1>3, <2>1
  <1>6. p * d + r \in Nat
    BY <1>1, <1>3
  <1>7. y % (p * b) = p * d + r
    BY <1>2, <1>3, <1>4, <1>5, <1>6, DivModIs
  <1>8. (p * d + r) \div p = d
    BY <1>1, <1>2, <1>6, DivModIs
  <1> QED
    BY <1>7, <1>8 DEF q, d

(* Where the bytes of a word lie. *)
LEMMA ByteBounds ==
    ASSUME NEW x \in Nat, x < Bytes
    PROVE  /\ ByteBits \in Nat \ {0} /\ Bytes \in Nat
           /\ ByteBits * x \in Nat
           /\ ByteBits * (x + 1) = ByteBits * x + ByteBits
           /\ ByteBits * x + ByteBits <= WordBits
  <1> DEFINE B == ByteBits
             N == Bytes
  <1>1. B \in Nat \ {0} /\ N \in Nat \ {0} /\ WordBits = B * N
    BY WidthAssumption DEF WordBits
  <1> HIDE DEF B, N
  <1>2. ASSUME x < N
        PROVE  /\ B * x \in Nat /\ B * (x + 1) = B * x + B
               /\ B * x + B <= B * N
    <2>1. B * (N - x - 1) \in Nat
      BY <1>1, <1>2
    <2>2. B * (N - x - 1) = B * N - B * x - B
      BY <1>1
    <2>3. B * x \in Nat /\ B * N \in Nat /\ B * (x + 1) = B * x + B
      BY <1>1
    <2> QED
      BY <1>1, <2>1, <2>2, <2>3
  <1>3. N \in Nat /\ WordBits = B * N
    BY <1>1
  <1> QED
    BY <1>1, <1>2, <1>3 DEF B, N

(* SIGNEXTEND. *)
LEMMA SignextendExact ==
    ASSUME NEW x \in Value, NEW y \in Value
    PROVE  signextend(x, y) = Extended(x, y)
  <1>1. x \in Nat /\ y \in Nat /\ y < Mod /\ Half \in Nat \ {0} /\ Mod = 2 * Half
    BY Widths, ValueIs
  <1>2. CASE x >= Bytes
    <2>1. signextend(x, y) = y
      BY <1>2 DEF signextend
    <2>2. ~ (x < Bytes)
      BY <1>1, <1>2, WidthAssumption
    <2>3. y % Mod = y
      BY <1>1, ModMod
    <2>4. Extended(x, y) = Unsigned(IF y >= Half THEN y - Mod ELSE y)
      BY <2>2, <2>3 DEF Extended, Half, Mod, WordBits
    <2>5. CASE y >= Half
      <3>1. (y - Mod) % Mod = (y - Mod) + Mod
        BY <1>1, ModMod
      <3> QED
        BY <1>1, <2>1, <2>4, <2>5, <3>1 DEF Unsigned
    <2>6. CASE y < Half
      BY <1>1, <2>1, <2>3, <2>4, <2>6 DEF Unsigned
    <2> QED
      BY <1>1, <2>5, <2>6
  <1>3. CASE x < Bytes
    <2> DEFINE idx == ByteBits * x + (ByteBits - 1)
               p == Pow(2, idx)
               sign == (y \div p) % 2
               low == y % (2 * p)
    <2>1. /\ ~ (x >= Bytes) /\ idx \in Nat /\ idx + 1 = ByteBits * (x + 1)
          /\ idx <= WordBits - 1
      BY <1>1, <1>3, ByteBounds, Widths, WidthAssumption
    <2>2. signextend(x, y) = (IF sign = 1 THEN Mod - p ELSE 0) + (y % p)
      BY <2>1 DEF signextend
    <2> HIDE DEF idx
    <2>3. p \in Nat \ {0} /\ p <= Half /\ Pow(2, idx + 1) = 2 * p
      <3>1. p \in Nat \ {0} /\ Pow(2, idx + 1) = 2 * p
        BY <2>1, PowPositive, PowIs
      <3>2. p <= Pow(2, WordBits - 1)
        BY <2>1, PowMonotone, Widths
      <3> QED
        BY <3>1, <3>2 DEF Half
    <2>4. Extended(x, y) = Unsigned(IF low >= p THEN low - 2 * p ELSE low)
      <3>1. (idx + 1) - 1 = idx
        BY <2>1
      <3> QED
        BY <1>3, <2>1, <2>3, <3>1 DEF Extended
    <2>5. /\ sign \in {0, 1} /\ low = sign * p + (y % p)
          /\ y % p \in Nat /\ y % p < p
      BY <1>1, <2>3, NextBit, DivMod
    <2> DEFINE r == y % p
    <2> HIDE DEF p, sign, low, r
    <2>6. CASE sign = 1
      <3>1. low = p + r /\ low >= p /\ low - 2 * p = r - p /\ r - p < 0 /\ r - p >= - Mod
            /\ r - p \in Int
        BY <1>1, <2>3, <2>5, <2>6 DEF r
      <3>2. (r - p) % Mod = (r - p) + Mod
        BY <3>1, ModMod
      <3> QED
        BY <1>1, <2>2, <2>3, <2>4, <2>5, <2>6, <3>1, <3>2 DEF Unsigned, r
    <2>7. CASE sign = 0
      <3>1. low = r /\ ~ (low >= p) /\ r \in Int /\ r >= 0 /\ r < Mod
        BY <1>1, <2>3, <2>5, <2>7 DEF r
      <3>2. r % Mod = r
        BY <3>1, ModMod
      <3> QED
        BY <2>2, <2>4, <2>5, <2>7, <3>1, <3>2 DEF Unsigned, r
    <2> QED
      BY <2>5, <2>6, <2>7
  <1> QED
    BY <1>1, <1>2, <1>3, WidthAssumption

(* BYTE. *)
LEMMA ByteExact ==
    ASSUME NEW x \in Value, NEW y \in Value, x < Bytes
    PROVE  byte_value(x, y) = ByteAt(x, y)
  <1>1. x \in Nat /\ y \in Nat
    BY ValueIs
  <1> DEFINE m == WordBits - ByteBits - ByteBits * x
  <1>2. /\ m \in Nat /\ ByteBits \in Nat
        /\ WordBits - ByteBits * (x + 1) = m
        /\ WordBits - ByteBits * x = m + ByteBits
    BY <1>1, ByteBounds, Widths
  <1>3. byte_value(x, y) = (y \div Pow(2, m)) % Pow(2, ByteBits)
    BY DEF byte_value
  <1>4. ByteAt(x, y) = (y % Pow(2, m + ByteBits)) \div Pow(2, m)
    BY <1>2 DEF ByteAt
  <1> HIDE DEF m
  <1>5. Pow(2, m + ByteBits) = Pow(2, m) * Pow(2, ByteBits)
    BY <1>2, PowAdd
  <1>6. Pow(2, m) \in Nat \ {0} /\ Pow(2, ByteBits) \in Nat \ {0}
    BY <1>2, PowPositive
  <1> QED
    BY <1>1, <1>3, <1>4, <1>5, <1>6, Digit

-----------------------------------------------------------------------------
(* Before an opcode is executed its operands are words. *)
Operands ==
    op = "none" => s \in Seq(Int) /\ Len(s) >= 2 /\ s[1] \in Value /\ s[2] \in Value

(* What a handler that takes two operands leaves. *)
LEMMA TopOf ==
    ASSUME NEW z, s \in Seq(Int), Len(s) >= 2, NEW n \in 0 .. 2
    PROVE  (<<z>> \o Below(n))[1] = z
  <1>1. Below(n) \in Seq(Int)
    BY DEF Below
  <1> QED
    BY <1>1

(* Each opcode leaves what integers give. *)
LEMMA StepExact ==
    ASSUME Operands, [Next]_wvars, op' # op
    PROVE  WordStep
  <1>1. op = "none" /\ s \in Seq(Int) /\ Len(s) >= 2 /\ s[1] \in Value /\ s[2] \in Value
    BY DEF Operands, Next, Sdiv, Smod, Slt, Sgt, Signextend, ByteOp, Binary, wvars
  <1>2. CASE Sdiv
    <2>1. op' = "SDIV" /\ s' = <<sdiv(s[1], s[2])>> \o Below(2)
      BY <1>2 DEF Sdiv, Binary
    <2> QED
      BY <1>1, <2>1, SdivExact DEF WordStep
  <1>3. CASE Smod
    <2>1. op' = "SMOD" /\ s' = <<smod(s[1], s[2])>> \o Below(2)
      BY <1>3 DEF Smod, Binary
    <2> QED
      BY <1>1, <2>1, SmodExact DEF WordStep
  <1>4. CASE Slt
    <2>1. op' = "SLT" /\ s' = <<slt(s[1], s[2])>> \o Below(2)
      BY <1>4 DEF Slt, Binary
    <2> QED
      BY <1>1, <2>1, SltExact DEF WordStep
  <1>5. CASE Sgt
    <2>1. op' = "SGT" /\ s' = <<slt(s[2], s[1])>> \o Below(2)
      BY <1>5 DEF Sgt, Binary
    <2> QED
      BY <1>1, <2>1, SltExact DEF WordStep, Greater
  <1>6. CASE Signextend
    <2>1. op' = "SIGNEXTEND" /\ s' = <<signextend(s[1], s[2])>> \o Below(2)
      BY <1>6 DEF Signextend, Binary
    <2> QED
      BY <1>1, <2>1, SignextendExact DEF WordStep
  <1>7. CASE ByteOp
    <2>1. op' = "BYTE" /\ s'[1] = ByteAt(s[1], s[2])
      <3>1. CASE s[1] < Bytes
        <4>1. op' = "BYTE" /\ s' = <<byte_value(s[1], s[2])>> \o Below(2)
          BY <1>7, <3>1, WidthAssumption, ValueIs, <1>1 DEF ByteOp, Binary
        <4> QED
          BY <1>1, <3>1, <4>1, ByteExact, TopOf
      <3>2. CASE ~ (s[1] < Bytes)
        <4>1. op' = "BYTE" /\ s' = <<0>> \o Below(1)
          BY <1>7, <3>2 DEF ByteOp
        <4>2. ByteAt(s[1], s[2]) = 0
          BY <3>2 DEF ByteAt
        <4> QED
          BY <1>1, <4>1, <4>2, TopOf
      <3> QED
        BY <3>1, <3>2
    <2> QED
      BY <2>1 DEF WordStep
  <1> QED
    BY <1>2, <1>3, <1>4, <1>5, <1>6, <1>7 DEF Next, wvars

(* SMOD, SLT, SGT, SIGNEXTEND and BYTE compute what they are said to, and so  *)
(* does SDIV but for one pair of words, for bytes and words of any width.     *)
THEOREM SpecWordOpsExact == Spec => WordOpsExact
  <1>1. Init => Operands
    <2> SUFFICES ASSUME Init
                 PROVE  Operands
      OBVIOUS
    <2>1. PICK x \in Value, y \in Value : s \in {<<x, y>>, <<x, y, 1>>}
      BY DEF Init
    <2>2. x \in Int /\ y \in Int
      BY ValueIs
    <2>3. CASE s = <<x, y>>
      BY <2>2, <2>3 DEF Operands
    <2>4. CASE s = <<x, y, 1>>
      BY <2>2, <2>4 DEF Operands
    <2> QED
      BY <2>1, <2>3, <2>4
  <1>2. Operands /\ [Next]_wvars => Operands'
    BY DEF Operands, Next, Sdiv, Smod, Slt, Sgt, Signextend, ByteOp, Binary, wvars
  <1>3. Operands /\ [Next]_wvars => [WordStep]_wvars
    <2>1. ASSUME [Next]_wvars, op' = op
          PROVE  UNCHANGED wvars
      BY <2>1 DEF Next, Sdiv, Smod, Slt, Sgt, Signextend, ByteOp, Binary, wvars
    <2> QED
      BY <2>1, StepExact
  <1> QED
    BY <1>1, <1>2, <1>3, PTL DEF Spec, WordOpsExact
=============================================================================
