------------------------------- MODULE RlpProof -------------------------------
(***************************************************************************)
(* What encode and decode of rlp.h do, for every layout of the first byte, *)
(* every width of size_t, all types and values and all inputs.             *)
(*                                                                         *)
(* Recursive functions come first: the tables of instances, the rounds of  *)
(* after_items, the concatenation of components and the number that bytes  *)
(* stand for are shown to exist.  Then the headers: the bytes of a length  *)
(* stand for that length, so that decode_length reads what prefix wrote,   *)
(* and what decode accepts is one item, although size may wrap.            *)
(*                                                                         *)
(* A type is Exact when decoding a payload of it, wherever that stands,    *)
(* ends at the end of the payload with the value and nothing left.  All    *)
(* types are, by induction on how deep they are nested: hence the round    *)
(* trip.  A tuple among other arguments is Lagged: its header is not read, *)
(* so the decoder falls behind, and from then on it stands at the header   *)
(* of a list, as many headers behind as it has left out.  What it reads    *)
(* there as anything but a tuple throws, so when it returns it has read    *)
(* the right values.                                                       *)
(***************************************************************************)
EXTENDS Rlp, PowersProof

(* The first bytes of the kinds of items are in order, and a length that fits *)
(* into one of them is a size_t.                                              *)
LEMMA Layout ==
    /\ StringHead \in Nat \ {0} /\ Short \in Nat \ {0} /\ LenLen \in Nat \ {0}
    /\ LongString = StringHead + Short /\ ListHead = LongString + LenLen + 1
    /\ LongList = ListHead + Short /\ Base = LongList + LenLen + 1
    /\ SizeMod \in Nat /\ Base <= SizeMod
  <1>1. /\ StringHead \in Nat \ {0} /\ Short \in Nat \ {0} /\ LenLen \in Nat \ {0}
        /\ LongString = StringHead + Short /\ ListHead = LongString + LenLen + 1
        /\ LongList = ListHead + Short /\ Base = LongList + LenLen + 1
    BY LayoutAssumption DEF StringHead, LongString, ListHead, LongList, Base
  <1>2. Base \in Nat \ {0}
    BY <1>1
  <1>3. Pow(Base, 0 + 1) = Base * Pow(Base, 0) /\ Pow(Base, 0) = 1
    BY <1>2, PowIs
  <1>4. Pow(Base, 1) = Base
    BY <1>2, <1>3
  <1>5. Pow(Base, 1) <= Pow(Base, LenLen)
    BY <1>1, <1>2, PowMonotone
  <1>6. Pow(Base, LenLen) \in Nat
    BY <1>1, <1>2, PowIs
  <1> QED
    BY <1>1, <1>4, <1>5, <1>6 DEF SizeMod

(* A position of bs and the number that its bytes up to there stand for.      *)
IsNumber(f, bs, n) ==
    /\ f \in [0 .. n -> Nat]
    /\ f[0] = 0
    /\ \A k \in 0 .. (n - 1) : f[k + 1] = f[k] * Base + bs[k + 1]

(* The recursive function of Number exists: the provers take nothing from a   *)
(* recursive definition that is not shown to have a solution.                 *)
LEMMA NumbersExist ==
    ASSUME NEW bs \in Seq(Byte)
    PROVE  \A n \in Nat : n <= Len(bs) => \E f : IsNumber(f, bs, n)
  <1> DEFINE T == {n \in Nat : n <= Len(bs) => \E f : IsNumber(f, bs, n)}
  <1>1. 0 \in T
    <2>1. IsNumber([k \in 0 .. 0 |-> 0], bs, 0)
      BY DEF IsNumber
    <2> QED
      BY <2>1
  <1>2. ASSUME NEW n \in T
        PROVE  n + 1 \in T
    <2> SUFFICES ASSUME n + 1 <= Len(bs)
                 PROVE  \E f : IsNumber(f, bs, n + 1)
      OBVIOUS
    <2>0. bs[n + 1] \in Nat
      <3>1. n + 1 \in 1 .. Len(bs)
        OBVIOUS
      <3>2. bs[n + 1] \in Byte
        BY <3>1
      <3> QED
        BY <3>2, Layout DEF Byte
    <2>1. PICK f : IsNumber(f, bs, n)
      OBVIOUS
    <2> DEFINE g == [k \in 0 .. (n + 1) |->
                        IF k = n + 1 THEN f[n] * Base + bs[n + 1] ELSE f[k]]
    <2>2. \A k \in 0 .. n : f[k] \in Nat /\ k \in 0 .. (n + 1) /\ g[k] = f[k]
      BY <2>1 DEF IsNumber
    <2>3. f[n] * Base + bs[n + 1] \in Nat
      <3>1. f[n] \in Nat /\ Base \in Nat
        BY <2>1, Layout DEF IsNumber
      <3>2. f[n] * Base \in Nat
        BY <3>1
      <3> QED
        BY <2>0, <3>2
    <2>4. g \in [0 .. (n + 1) -> Nat]
      <3>1. \A k \in 0 .. (n + 1) : k = n + 1 \/ k \in 0 .. n
        OBVIOUS
      <3> QED
        BY <2>2, <2>3, <3>1
    <2>5. g[0] = 0
      BY <2>1, <2>2 DEF IsNumber
    <2>6. ASSUME NEW k \in 0 .. n
          PROVE  g[k + 1] = g[k] * Base + bs[k + 1]
      <3>1. CASE k = n
        BY <2>2, <3>1
      <3>2. CASE k < n
        <4>1. k \in 0 .. (n - 1) /\ k + 1 \in 0 .. n
          BY <3>2
        <4>2. f[k + 1] = f[k] * Base + bs[k + 1]
          BY <2>1, <4>1 DEF IsNumber
        <4> HIDE DEF g
        <4> QED
          BY <2>2, <4>1, <4>2
      <3> QED
        BY <3>1, <3>2
    <2> HIDE DEF g
    <2>7. IsNumber(g, bs, n + 1)
      BY <2>4, <2>5, <2>6 DEF IsNumber
    <2> QED
      BY <2>7
  <1> HIDE DEF T
  <1>3. T = Nat
    <2>1. T \in SUBSET Nat
      BY DEF T
    <2> QED
      BY <1>1, <1>2, <2>1, NatSetInduction
  <1> QED
    BY <1>3 DEF T

(* So the recursive function in the definition of Number is one of them.      *)
LEMMA NumberIs ==
    ASSUME NEW bs \in Seq(Byte)
    PROVE  \E f : IsNumber(f, bs, Len(bs)) /\ Number(bs) = f[Len(bs)]
  <1> DEFINE body(f) == [k \in 0 .. Len(bs) |->
                            IF k = 0 THEN 0 ELSE f[k - 1] * Base + bs[k]]
             number == CHOOSE f : f = body(f)
  <1>1. PICK f : IsNumber(f, bs, Len(bs))
    BY NumbersExist
  <1>2. f = body(f)
    <2>1. ASSUME NEW k \in 0 .. Len(bs)
          PROVE  f[k] = IF k = 0 THEN 0 ELSE f[k - 1] * Base + bs[k]
      <3>1. CASE k = 0
        BY <1>1, <3>1 DEF IsNumber
      <3>2. CASE k # 0
        <4>1. k - 1 \in 0 .. (Len(bs) - 1) /\ (k - 1) + 1 = k
          BY <3>2
        <4>2. f[(k - 1) + 1] = f[k - 1] * Base + bs[(k - 1) + 1]
          BY <1>1, <4>1 DEF IsNumber
        <4> QED
          BY <3>2, <4>1, <4>2
      <3> QED
        BY <3>1, <3>2
    <2>2. f = [k \in 0 .. Len(bs) |-> f[k]]
      BY <1>1 DEF IsNumber
    <2> QED
      BY <2>1, <2>2
  <1>3. number = body(number)
    BY <1>2
  <1>4. Number(bs) = number[Len(bs)]
    BY DEF Number
  <1> HIDE DEF number
  <1>5. number[0] = 0
    BY <1>3
  <1>6. ASSUME NEW k \in 0 .. (Len(bs) - 1)
        PROVE  number[k + 1] = number[k] * Base + bs[k + 1]
    <2>1. k + 1 \in 0 .. Len(bs) /\ k + 1 # 0 /\ (k + 1) - 1 = k
      OBVIOUS
    <2> QED
      BY <1>3, <2>1
  <1>7. DOMAIN number = 0 .. Len(bs) /\ number = [k \in 0 .. Len(bs) |-> number[k]]
    BY <1>3
  <1> DEFINE T == {k \in Nat : k <= Len(bs) => number[k] = f[k]}
  <1>8. 0 \in T
    BY <1>1, <1>5 DEF IsNumber
  <1>9. ASSUME NEW k \in T
        PROVE  k + 1 \in T
    <2> SUFFICES ASSUME k + 1 <= Len(bs)
                 PROVE  number[k + 1] = f[k + 1]
      OBVIOUS
    <2>1. k \in 0 .. (Len(bs) - 1) /\ number[k] = f[k]
      OBVIOUS
    <2>2. f[k + 1] = f[k] * Base + bs[k + 1]
      BY <1>1, <2>1 DEF IsNumber
    <2> QED
      BY <1>6, <2>1, <2>2
  <1> HIDE DEF T
  <1>10. T = Nat
    <2>1. T \in SUBSET Nat
      BY DEF T
    <2> QED
      BY <1>8, <1>9, <2>1, NatSetInduction
  <1>11. number[Len(bs)] = f[Len(bs)]
    BY <1>10 DEF T
  <1> QED
    BY <1>1, <1>4, <1>11
(* k bytes stand for a number below the k-th power.                           *)
LEMMA NumberBelow ==
    ASSUME NEW bs \in Seq(Byte)
    PROVE  Number(bs) \in Nat /\ Number(bs) < Pow(Base, Len(bs))
  <1>1. PICK f : IsNumber(f, bs, Len(bs)) /\ Number(bs) = f[Len(bs)]
    BY NumberIs
  <1> DEFINE T == {k \in Nat : k <= Len(bs) => f[k] < Pow(Base, k)}
  <1>2. Base \in Nat
    BY Layout
  <1>3. 0 \in T
    BY <1>1, <1>2, PowIs DEF IsNumber
  <1>4. ASSUME NEW k \in T
        PROVE  k + 1 \in T
    <2> SUFFICES ASSUME k + 1 <= Len(bs)
                 PROVE  f[k + 1] < Pow(Base, k + 1)
      OBVIOUS
    <2> DEFINE p == Pow(Base, k)
               x == f[k]
               b == bs[k + 1]
    <2>1. k \in 0 .. (Len(bs) - 1) /\ k \in 0 .. Len(bs) /\ k + 1 \in 1 .. Len(bs)
      OBVIOUS
    <2>2. x \in Nat /\ x < p /\ f[k + 1] = x * Base + b
      BY <1>1, <2>1 DEF IsNumber
    <2>3. p \in Nat /\ Pow(Base, k + 1) = Base * p
      BY <1>2, PowIs
    <2>4. b \in Nat /\ b < Base
      <3>1. b \in Byte
        BY <2>1
      <3> QED
        BY <1>2, <3>1 DEF Byte
    <2> HIDE DEF p, x, b
    <2>5. Base * (p - x - 1) \in Nat
      BY <1>2, <2>2, <2>3
    <2>6. Base * (p - x - 1) = Base * p - x * Base - Base
      BY <1>2, <2>2, <2>3
    <2>7. x * Base \in Nat /\ Base * p \in Nat
      BY <1>2, <2>2, <2>3
    <2>8. x * Base + b < Base * p
      BY <1>2, <2>4, <2>5, <2>6, <2>7
    <2> QED
      BY <2>2, <2>3, <2>8
  <1> HIDE DEF T
  <1>5. T = Nat
    <2>1. T \in SUBSET Nat
      BY DEF T
    <2> QED
      BY <1>3, <1>4, <2>1, NatSetInduction
  <1>6. Len(bs) \in Nat /\ f[Len(bs)] \in Nat
    BY <1>1 DEF IsNumber
  <1> QED
    BY <1>1, <1>5, <1>6 DEF T

(* An announced length of at most LenLen bytes is a size_t.                   *)
LEMMA LengthIsSize ==
    ASSUME NEW bs \in Seq(Byte), Len(bs) <= LenLen
    PROVE  Number(bs) \in Nat /\ Number(bs) < SizeMod
  <1>1. Number(bs) \in Nat /\ Number(bs) < Pow(Base, Len(bs))
    BY NumberBelow
  <1>2. Base \in Nat \ {0} /\ Len(bs) \in Nat /\ LenLen \in Nat
    BY Layout
  <1>3. Pow(Base, Len(bs)) <= Pow(Base, LenLen)
    BY <1>2, PowMonotone
  <1>4. Pow(Base, Len(bs)) \in Nat /\ Pow(Base, LenLen) \in Nat
    BY <1>2, PowIs
  <1> QED
    BY <1>1, <1>3, <1>4 DEF SizeMod

(* What lies behind an input is not read by what stays inside of it.          *)
LEMMA Inside ==
    ASSUME NEW input \in Seq(Byte), NEW tail \in Seq(Byte)
    PROVE  /\ input \o tail \in Seq(Byte)
           /\ Len(input \o tail) = Len(input) + Len(tail)
           /\ \A i \in 1 .. Len(input) : (input \o tail)[i] = input[i]
           /\ \A i, j \in 1 .. Len(input) :
                 SubSeq(input \o tail, i, j) = SubSeq(input, i, j)
  <1>1. /\ input \o tail \in Seq(Byte)
        /\ Len(input \o tail) = Len(input) + Len(tail)
        /\ \A i \in 1 .. Len(input) : (input \o tail)[i] = input[i]
    OBVIOUS
  <1>2. ASSUME NEW i \in 1 .. Len(input), NEW j \in 1 .. Len(input)
        PROVE  SubSeq(input \o tail, i, j) = SubSeq(input, i, j)
    BY <1>1
  <1> QED
    BY <1>1, <1>2

(* Every number has a number of significant bytes: n itself is enough of      *)
(* them, and the first that is enough is one more than one that is not.       *)
LEMMA SignificantBytes ==
    ASSUME NEW n \in Nat
    PROVE  /\ significant_bytes(n) \in 0 .. n
           /\ n < Pow(Base, significant_bytes(n))
           /\ significant_bytes(n) > 0 => Pow(Base, significant_bytes(n) - 1) <= n
  <1> DEFINE Enough(k) == n < Pow(Base, k) /\ (k > 0 => Pow(Base, k - 1) <= n)
  <1>1. Base \in Nat /\ Base >= 2
    BY Layout
  <1>2. n < Pow(Base, n)
    <2> DEFINE U == {k \in Nat : k < Pow(Base, k)}
    <2>1. 0 \in U
      BY <1>1, PowIs
    <2>2. ASSUME NEW k \in U
          PROVE  k + 1 \in U
      <3> DEFINE p == Pow(Base, k)
      <3>1. p \in Nat /\ k \in Nat /\ k < p /\ Pow(Base, k + 1) = Base * p
        BY <1>1, PowIs
      <3> HIDE DEF p
      <3>2. (Base - 2) * p \in Nat /\ (Base - 2) * p = Base * p - 2 * p
        BY <1>1, <3>1
      <3>3. Base * p \in Nat /\ Base * p >= 2 * p
        BY <1>1, <3>1, <3>2
      <3>4. k + 1 < Base * p
        BY <3>1, <3>3
      <3> QED
        BY <3>1, <3>4
    <2> HIDE DEF U
    <2>3. U = Nat
      <3>1. U \in SUBSET Nat
        BY DEF U
      <3> QED
        BY <2>1, <2>2, <3>1, NatSetInduction
    <2> QED
      BY <2>3 DEF U
  <1>3. \E k \in 0 .. n : Enough(k)
    <2> SUFFICES ASSUME \A k \in 0 .. n : ~ Enough(k)
                 PROVE  FALSE
      OBVIOUS
    <2> DEFINE T == {k \in Nat : k <= n => Pow(Base, k) <= n}
    <2>1. 0 \in T
      <3>1. ~ Enough(0) /\ Pow(Base, 0) = 1
        BY <1>1, PowIs
      <3> QED
        BY <3>1
    <2>2. ASSUME NEW k \in T
          PROVE  k + 1 \in T
      <3> SUFFICES ASSUME k + 1 <= n
                   PROVE  Pow(Base, k + 1) <= n
        OBVIOUS
      <3>1. Pow(Base, k) <= n /\ k + 1 \in 0 .. n /\ (k + 1) - 1 = k
        OBVIOUS
      <3>2. Pow(Base, k + 1) \in Nat
        BY <1>1, PowIs
      <3>3. ~ Enough(k + 1)
        BY <3>1
      <3> QED
        BY <3>1, <3>2, <3>3
    <2> HIDE DEF T
    <2>3. T = Nat
      <3>1. T \in SUBSET Nat
        BY DEF T
      <3> QED
        BY <2>1, <2>2, <3>1, NatSetInduction
    <2>4. Pow(Base, n) <= n /\ Pow(Base, n) \in Nat
      BY <1>1, <2>3, PowIs DEF T
    <2> QED
      BY <1>2, <2>4
  <1>4. significant_bytes(n) = CHOOSE k \in 0 .. n : Enough(k)
    BY DEF significant_bytes
  <1> QED
    BY <1>3, <1>4

(* The bytes of a number: as many as significant_bytes says, at most k when   *)
(* it is below the k-th power of Base, and at least one when it is not 0.     *)
LEMMA BigEndian ==
    ASSUME NEW n \in Nat
    PROVE  /\ big_endian(n) \in Seq(Byte)
           /\ Len(big_endian(n)) = significant_bytes(n)
           /\ n > 0 => Len(big_endian(n)) > 0
           /\ \A k \in Nat : n < Pow(Base, k) => Len(big_endian(n)) <= k
  <1> DEFINE m == significant_bytes(n)
  <1>1. Base \in Nat \ {0} /\ LenLen \in Nat
    BY Layout
  <1>2. m \in Nat /\ n < Pow(Base, m) /\ (m > 0 => Pow(Base, m - 1) <= n)
    BY SignificantBytes
  <1> HIDE DEF m
  <1>3. \A i \in 1 .. m : (n \div Pow(Base, m - i)) % Base \in Byte
    <2> TAKE i \in 1 .. m
    <2>1. m - i \in Nat
      BY <1>2
    <2>2. Pow(Base, m - i) \in Nat \ {0}
      BY <1>1, <2>1, PowPositive
    <2>3. n \div Pow(Base, m - i) \in Nat
      BY <2>2, DivMod
    <2>4. (n \div Pow(Base, m - i)) % Base \in 0 .. (Base - 1)
      BY <1>1, <2>3
    <2> QED
      BY <2>4 DEF Byte
  <1>4. big_endian(n) = [i \in 1 .. m |-> (n \div Pow(Base, m - i)) % Base]
    BY DEF big_endian, m
  <1>5. big_endian(n) \in Seq(Byte) /\ Len(big_endian(n)) = m
    BY <1>2, <1>3, <1>4
  <1>6. n > 0 => m > 0
    <2>1. Pow(Base, 0) = 1
      BY <1>1, PowIs
    <2> QED
      BY <1>2, <2>1
  <1>7. \A k \in Nat : n < Pow(Base, k) => m <= k
    <2> SUFFICES ASSUME NEW k \in Nat, n < Pow(Base, k), m > k
                 PROVE  FALSE
      BY <1>2
    <2>1. m > 0 /\ m - 1 \in Nat /\ k <= m - 1
      BY <1>2
    <2>2. Pow(Base, k) <= Pow(Base, m - 1) /\ Pow(Base, k) \in Nat
      BY <1>1, <2>1, PowMonotone, PowIs
    <2>3. Pow(Base, m - 1) \in Nat /\ Pow(Base, m - 1) <= n
      BY <1>1, <1>2, <2>1, PowIs
    <2> QED
      BY <2>2, <2>3
  <1> QED
    BY <1>5, <1>6, <1>7 DEF m

(* They stand for the number they were made from: the number of the first k   *)
(* of them is n without its last m - k digits.                                *)
LEMMA NumberOfBigEndian ==
    ASSUME NEW n \in Nat
    PROVE  Number(big_endian(n)) = n
  <1> DEFINE m == significant_bytes(n)
             bs == big_endian(n)
  <1>1. Base \in Nat \ {0}
    BY Layout
  <1>2. m \in Nat /\ n < Pow(Base, m)
    BY SignificantBytes
  <1>3. bs \in Seq(Byte) /\ Len(bs) = m
    BY BigEndian
  <1>4. \A i \in 1 .. m : bs[i] = (n \div Pow(Base, m - i)) % Base
    BY DEF big_endian
  <1> HIDE DEF m, bs
  <1>5. PICK f : IsNumber(f, bs, m) /\ Number(bs) = f[m]
    BY <1>3, NumberIs
  <1> DEFINE T == {k \in Nat : k <= m => f[k] = n \div Pow(Base, m - k)}
  <1>6. 0 \in T
    <2>1. n = Pow(Base, m) * 0 + n /\ Pow(Base, m) \in Nat \ {0}
      BY <1>1, <1>2, PowPositive
    <2>2. n \div Pow(Base, m) = 0
      BY <1>2, <2>1, DivModIs
    <2>3. m - 0 = m
      BY <1>2
    <2> QED
      BY <1>5, <2>2, <2>3 DEF IsNumber
  <1>7. ASSUME NEW k \in T
        PROVE  k + 1 \in T
    <2> SUFFICES ASSUME k + 1 <= m
                 PROVE  f[k + 1] = n \div Pow(Base, m - (k + 1))
      OBVIOUS
    <2> DEFINE j == m - (k + 1)
               p == Pow(Base, j)
               q == n \div p
    <2>1. /\ j \in Nat /\ m - k = j + 1 /\ k \in 0 .. (m - 1)
          /\ k \in Nat /\ k <= m /\ k + 1 \in 1 .. m
      BY <1>2
    <2>2. p \in Nat \ {0} /\ Pow(Base, j + 1) = Base * p
      BY <1>1, <2>1, PowIs, PowPositive
    <2>3. q \in Nat
      BY <2>2, DivMod
    <2>4. n \div Pow(Base, m - k) = q \div Base
      BY <1>1, <2>1, <2>2, DivDiv
    <2>5. f[k] = q \div Base
      BY <2>1, <2>4
    <2>6. f[k + 1] = f[k] * Base + bs[k + 1]
      BY <1>5, <2>1 DEF IsNumber
    <2>7. bs[k + 1] = q % Base
      BY <1>4, <2>1
    <2> HIDE DEF q
    <2>8. q = Base * (q \div Base) + (q % Base) /\ q \div Base \in Nat /\ q % Base \in Nat
      BY <1>1, <2>3, DivMod
    <2>9. (q \div Base) * Base = Base * (q \div Base)
      BY <1>1, <2>8
    <2>10. f[k + 1] = q
      BY <2>5, <2>6, <2>7, <2>8, <2>9
    <2> QED
      BY <2>10 DEF q
  <1> HIDE DEF T
  <1>8. T = Nat
    <2>1. T \in SUBSET Nat
      BY DEF T
    <2> QED
      BY <1>6, <1>7, <2>1, NatSetInduction
  <1>9. f[m] = n \div Pow(Base, m - m) /\ m - m = 0
    BY <1>2, <1>8 DEF T
  <1>10. n \div 1 = n
    BY DivModIs
  <1>11. Pow(Base, 0) = 1
    BY <1>1, PowIs
  <1>12. Number(bs) = n
    BY <1>5, <1>9, <1>10, <1>11
  <1> QED
    BY <1>12 DEF bs

(* The instances of the templates for the component types of T, from a table  *)
(* f, and the instance for T that is made of them.                            *)
Sub(T, f) == [i \in DOMAIN T.of |-> f[T.of[i]]]

Encoding(T, sub) == [v \in Values(T) |-> encode_item(T, sub, v)]

Decoding(T, sub) ==
    [c \in Place |-> IF IsTuple(T) THEN decode_tuple(T, sub, c[1], c[2], c[3])
                                  ELSE from_bytes(T, sub, c[1], c[2], c[3])]

Instance(direction, T, sub) ==
    IF direction = "encode" THEN Encoding(T, sub) ELSE Decoding(T, sub)

(* Types that are nested less than N deep, and a table of instances for them. *)
Below(N) == {T \in Types : Nesting(T) < N}
IsTable(direction, f, S) == f = [T \in S |-> Instance(direction, T, Sub(T, f))]

(* Component types are types, and nested less.                                *)
LEMMA ComponentTypes ==
    ASSUME NEW T \in Types, NEW i \in DOMAIN T.of
    PROVE  T.of[i] \in Types /\ Nesting(T.of[i]) \in Nat /\ Nesting(T.of[i]) < Nesting(T)
  <1>1. T.of \in Seq(Types) /\ Nesting(T.of[i]) < Nesting(T)
    BY TypesAssumption
  <1>2. T.of[i] \in Types
    BY <1>1
  <1> QED
    BY <1>1, <1>2, TypesAssumption

(* There are tables for the types that are nested less than N deep, for every *)
(* N.                                                                         *)
LEMMA TablesExist ==
    ASSUME NEW direction
    PROVE  \A N \in Nat : \E f : IsTable(direction, f, Below(N))
  <1> DEFINE U == {N \in Nat : \E f : IsTable(direction, f, Below(N))}
  <1>1. 0 \in U
    <2>1. Below(0) = {}
      BY TypesAssumption DEF Below
    <2> DEFINE f == [T \in {} |-> T]
    <2>2. IsTable(direction, f, {})
      BY DEF IsTable
    <2> QED
      BY <2>1, <2>2
  <1>2. ASSUME NEW N \in U
        PROVE  N + 1 \in U
    <2>1. PICK f : IsTable(direction, f, Below(N))
      OBVIOUS
    <2> DEFINE g == [T \in Below(N + 1) |-> Instance(direction, T, Sub(T, f))]
    <2>2. ASSUME NEW T \in Below(N)
          PROVE  T \in Below(N + 1) /\ g[T] = f[T]
      <3>1. T \in Below(N + 1)
        BY TypesAssumption DEF Below
      <3>2. f[T] = Instance(direction, T, Sub(T, f))
        BY <2>1 DEF IsTable
      <3> QED
        BY <3>1, <3>2
    <2>3. ASSUME NEW T \in Below(N + 1)
          PROVE  Sub(T, f) = Sub(T, g)
      <3>1. ASSUME NEW i \in DOMAIN T.of
            PROVE  f[T.of[i]] = g[T.of[i]]
        <4>1. T \in Types /\ Nesting(T) < N + 1 /\ Nesting(T) \in Nat
          BY TypesAssumption DEF Below
        <4>2. T.of[i] \in Below(N)
          BY <4>1, ComponentTypes DEF Below
        <4> HIDE DEF g
        <4> QED
          BY <2>2, <4>2
      <3> HIDE DEF g
      <3> QED
        BY <3>1, Zenon DEF Sub
    <2>4. g = [T \in Below(N + 1) |-> Instance(direction, T, Sub(T, g))]
      <3>1. \A T \in Below(N + 1) :
               Instance(direction, T, Sub(T, f)) = Instance(direction, T, Sub(T, g))
        <4> HIDE DEF g
        <4> QED
          BY <2>3, Zenon
      <3> DEFINE h == g
      <3>2. \A T \in Below(N + 1) :
               Instance(direction, T, Sub(T, f)) = Instance(direction, T, Sub(T, h))
        BY <3>1
      <3> HIDE DEF h
      <3>3. [T \in Below(N + 1) |-> Instance(direction, T, Sub(T, f))]
               = [T \in Below(N + 1) |-> Instance(direction, T, Sub(T, h))]
        BY <3>2, Zenon
      <3> QED
        BY <3>3 DEF h
    <2> HIDE DEF g
    <2>5. IsTable(direction, g, Below(N + 1))
      BY <2>4 DEF IsTable
    <2> QED
      BY <2>5
  <1> HIDE DEF U
  <1>3. U = Nat
    <2>1. U \in SUBSET Nat
      BY DEF U
    <2> QED
      BY <1>1, <1>2, <2>1, NatSetInduction
  <1> QED
    BY <1>3 DEF U

(* Two such tables agree on the types they share.                             *)
LEMMA TablesAgree ==
    ASSUME NEW direction, NEW M \in Nat, NEW N \in Nat, NEW f, NEW g,
           IsTable(direction, f, Below(M)), IsTable(direction, g, Below(N))
    PROVE  \A T \in Below(M) \cap Below(N) : f[T] = g[T]
  <1> DEFINE U == {K \in Nat : \A T \in Below(M) \cap Below(N) :
                                  Nesting(T) < K => f[T] = g[T]}
  <1>1. 0 \in U
    BY TypesAssumption DEF Below
  <1>2. ASSUME NEW K \in U
        PROVE  K + 1 \in U
    <2> SUFFICES ASSUME NEW T \in Below(M) \cap Below(N), Nesting(T) < K + 1
                 PROVE  f[T] = g[T]
      OBVIOUS
    <2>1. f[T] = Instance(direction, T, Sub(T, f)) /\ g[T] = Instance(direction, T, Sub(T, g))
      BY DEF IsTable
    <2>2. ASSUME NEW i \in DOMAIN T.of
          PROVE  f[T.of[i]] = g[T.of[i]]
      <3>1. T \in Types /\ Nesting(T) \in Nat /\ Nesting(T) < M /\ Nesting(T) < N
        BY TypesAssumption DEF Below
      <3>2. T.of[i] \in Below(M) \cap Below(N) /\ Nesting(T.of[i]) < K
        BY <3>1, ComponentTypes DEF Below
      <3> QED
        BY <3>2
    <2>3. Sub(T, f) = Sub(T, g)
      BY <2>2, Zenon DEF Sub
    <2> QED
      BY <2>1, <2>3
  <1> HIDE DEF U
  <1>3. U = Nat
    <2>1. U \in SUBSET Nat
      BY DEF U
    <2> QED
      BY <1>1, <1>2, <2>1, NatSetInduction
  <1>4. ASSUME NEW T \in Below(M) \cap Below(N)
        PROVE  f[T] = g[T]
    <2>1. Nesting(T) \in Nat /\ Nesting(T) + 1 \in U /\ Nesting(T) < Nesting(T) + 1
      BY <1>3, TypesAssumption DEF Below
    <2> QED
      BY <2>1 DEF U
  <1> QED
    BY <1>4

(* Hence there is one for all types.                                          *)
LEMMA TableExists ==
    ASSUME NEW direction
    PROVE  \E f : IsTable(direction, f, Types)
  <1> DEFINE p(N) == CHOOSE f : IsTable(direction, f, Below(N))
             h == [T \in Types |-> p(Nesting(T) + 1)[T]]
  <1>1. ASSUME NEW N \in Nat
        PROVE  IsTable(direction, p(N), Below(N))
    BY TablesExist
  <1> HIDE DEF p
  <1>2. ASSUME NEW T \in Types
        PROVE  h[T] = Instance(direction, T, Sub(T, h))
    <2> DEFINE N == Nesting(T) + 1
    <2>1. N \in Nat /\ Nesting(T) \in Nat /\ T \in Below(N)
      BY TypesAssumption DEF Below
    <2>2. p(N)[T] = Instance(direction, T, Sub(T, p(N)))
      BY <1>1, <2>1 DEF IsTable
    <2>3. ASSUME NEW i \in DOMAIN T.of
          PROVE  p(N)[T.of[i]] = h[T.of[i]]
      <3> DEFINE C == T.of[i]
                 M == Nesting(C) + 1
      <3>1. C \in Types /\ M \in Nat /\ C \in Below(M) \cap Below(N)
        BY <2>1, ComponentTypes DEF Below
      <3>2. h[C] = p(M)[C]
        BY <3>1
      <3> HIDE DEF C, M, N, h
      <3>3. p(M)[C] = p(N)[C]
        BY <1>1, <2>1, <3>1, TablesAgree
      <3> QED
        BY <3>2, <3>3 DEF C
    <2>4. Sub(T, p(N)) = Sub(T, h)
      <3> HIDE DEF N, h
      <3> QED
        BY <2>3, Zenon DEF Sub
    <2>5. h[T] = p(N)[T]
      OBVIOUS
    <2> HIDE DEF N, h
    <2> QED
      BY <2>2, <2>4, <2>5
  <1>3. h = [T \in Types |-> h[T]]
    OBVIOUS
  <1> HIDE DEF h
  <1>4. h = [T \in Types |-> Instance(direction, T, Sub(T, h))]
    BY <1>2, <1>3, Zenon
  <1> QED
    BY <1>4 DEF IsTable

(* encoder and decoder are such tables.                                       *)
LEMMA EncoderIs == \A T \in Types : encoder[T] = Encoding(T, Sub(T, encoder))
  <1> DEFINE f == CHOOSE f : f = [T \in Types |-> Encoding(T, Sub(T, f))]
  <1>1. encoder = f
    BY DEF encoder, Encoding, Sub
  <1>2. PICK g : IsTable("encode", g, Types)
    BY TableExists
  <1>3. \A T \in Types : Instance("encode", T, Sub(T, g)) = Encoding(T, Sub(T, g))
    BY DEF Instance
  <1>4. g = [T \in Types |-> Instance("encode", T, Sub(T, g))]
    BY <1>2 DEF IsTable
  <1>5. g = [T \in Types |-> Encoding(T, Sub(T, g))]
    BY <1>3, <1>4, Zenon
  <1>6. f = [T \in Types |-> Encoding(T, Sub(T, f))]
    BY <1>5, Zenon
  <1> HIDE DEF f
  <1> QED
    BY <1>1, <1>6, Zenon

(* decoder is that of from_bytes and decode_tuple.                            *)
LEMMA DecoderIs == \A T \in Types : decoder[T] = Decoding(T, Sub(T, decoder))
  <1> DEFINE f == CHOOSE f : f = [T \in Types |-> Decoding(T, Sub(T, f))]
  <1>1. decoder = f
    BY DEF decoder, Decoding, Sub
  <1>2. PICK g : IsTable("decode", g, Types)
    BY TableExists
  <1>3. \A T \in Types : Instance("decode", T, Sub(T, g)) = Decoding(T, Sub(T, g))
    BY DEF Instance
  <1>4. g = [T \in Types |-> Instance("decode", T, Sub(T, g))]
    BY <1>2 DEF IsTable
  <1>5. g = [T \in Types |-> Decoding(T, Sub(T, g))]
    BY <1>3, <1>4, Zenon
  <1>6. f = [T \in Types |-> Decoding(T, Sub(T, f))]
    BY <1>5, Zenon
  <1> HIDE DEF f
  <1> QED
    BY <1>1, <1>6, Zenon

(* One round of after_items.                                                  *)
Round(next, k, r) ==
    IF r.is = "ok"
      THEN IF next[<<k, r.data, r.size>>].is = "ok"
             THEN Ok(next[<<k, r.data, r.size>>].data, next[<<k, r.data, r.size>>].size,
                     Append(r.val, next[<<k, r.data, r.size>>].val))
             ELSE next[<<k, r.data, r.size>>]
      ELSE r

(* The results f of the first n rounds, which start from r.                   *)
AreRounds(f, next, r, n) ==
    /\ f = [k \in 0 .. n |-> f[k]]
    /\ f[0] = r
    /\ \A k \in 0 .. (n - 1) : f[k + 1] = Round(next, k + 1, f[k])

(* Every number of rounds has results.                                        *)
LEMMA RoundsExist ==
    ASSUME NEW next, NEW r
    PROVE  \A n \in Nat : \E f : AreRounds(f, next, r, n)
  <1> DEFINE U == {n \in Nat : \E f : AreRounds(f, next, r, n)}
  <1>1. 0 \in U
    <2> DEFINE f == [k \in 0 .. 0 |-> r]
    <2>1. AreRounds(f, next, r, 0)
      BY DEF AreRounds
    <2> QED
      BY <2>1
  <1>2. ASSUME NEW n \in U
        PROVE  n + 1 \in U
    <2>1. PICK f : AreRounds(f, next, r, n)
      OBVIOUS
    <2> DEFINE g == [k \in 0 .. (n + 1) |->
                        IF k = n + 1 THEN Round(next, n + 1, f[n]) ELSE f[k]]
    <2>2. g = [k \in 0 .. (n + 1) |-> g[k]] /\ g[n + 1] = Round(next, n + 1, f[n])
      OBVIOUS
    <2>3. \A k \in 0 .. n : g[k] = f[k]
      OBVIOUS
    <2> HIDE DEF g
    <2>4. ASSUME NEW k \in 0 .. ((n + 1) - 1)
          PROVE  g[k + 1] = Round(next, k + 1, g[k])
      <3>1. CASE k = n
        BY <2>2, <2>3, <3>1
      <3>2. CASE k # n
        <4>1. k \in 0 .. (n - 1) /\ k \in 0 .. n /\ k + 1 \in 0 .. n
          BY <3>2
        <4>2. f[k + 1] = Round(next, k + 1, f[k])
          BY <2>1, <4>1 DEF AreRounds
        <4>3. g[k + 1] = f[k + 1] /\ g[k] = f[k]
          BY <2>3, <4>1
        <4> QED
          BY <4>2, <4>3
      <3> QED
        BY <3>1, <3>2
    <2>5. g[0] = r
      BY <2>1, <2>3 DEF AreRounds
    <2>6. AreRounds(g, next, r, n + 1)
      BY <2>2, <2>4, <2>5, Zenon DEF AreRounds
    <2> QED
      BY <2>6
  <1> HIDE DEF U
  <1>3. U = Nat
    <2>1. U \in SUBSET Nat
      BY DEF U
    <2> QED
      BY <1>1, <1>2, <2>1, NatSetInduction
  <1> QED
    BY <1>3 DEF U

(* And they are determined.                                                   *)
LEMMA RoundsAgree ==
    ASSUME NEW next, NEW r, NEW m \in Nat, NEW n \in Nat, NEW f, NEW g,
           AreRounds(f, next, r, m), AreRounds(g, next, r, n)
    PROVE  \A k \in Nat : k <= m /\ k <= n => f[k] = g[k]
  <1> DEFINE U == {k \in Nat : k <= m /\ k <= n => f[k] = g[k]}
  <1>1. 0 \in U
    BY DEF AreRounds
  <1>2. ASSUME NEW k \in U
        PROVE  k + 1 \in U
    <2> SUFFICES ASSUME k + 1 <= m, k + 1 <= n
                 PROVE  f[k + 1] = g[k + 1]
      OBVIOUS
    <2>1. k \in 0 .. (m - 1) /\ k \in 0 .. (n - 1) /\ f[k] = g[k]
      OBVIOUS
    <2>2. f[k + 1] = Round(next, k + 1, f[k]) /\ g[k + 1] = Round(next, k + 1, g[k])
      BY <2>1 DEF AreRounds
    <2> QED
      BY <2>1, <2>2
  <1> HIDE DEF U
  <1>3. U = Nat
    <2>1. U \in SUBSET Nat
      BY DEF U
    <2> QED
      BY <1>1, <1>2, <2>1, NatSetInduction
  <1> QED
    BY <1>3 DEF U

(* Hence after_items starts at d and s and goes on round by round.            *)
LEMMA AfterItemsIs ==
    ASSUME NEW next, NEW d, NEW s
    PROVE  /\ after_items(next, d, s)[0] = Ok(d, s, <<>>)
           /\ \A k \in Nat : after_items(next, d, s)[k + 1]
                                = Round(next, k + 1, after_items(next, d, s)[k])
  <1> DEFINE r == Ok(d, s, <<>>)
             p(n) == CHOOSE f : AreRounds(f, next, r, n)
             h == [n \in Nat |-> p(n)[n]]
             after == CHOOSE f : f = [k \in Nat |->
                          IF k = 0 THEN r ELSE Round(next, k, f[k - 1])]
  <1>1. ASSUME NEW n \in Nat
        PROVE  AreRounds(p(n), next, r, n)
    BY RoundsExist
  <1> HIDE DEF p
  <1>2. h = [k \in Nat |-> IF k = 0 THEN r ELSE Round(next, k, h[k - 1])]
    <2>1. ASSUME NEW k \in Nat
          PROVE  h[k] = IF k = 0 THEN r ELSE Round(next, k, h[k - 1])
      <3>1. CASE k = 0
        BY <1>1, <3>1 DEF AreRounds
      <3>2. CASE k # 0
        <4> DEFINE j == k - 1
        <4>1. j \in Nat /\ j + 1 = k /\ j \in 0 .. (k - 1) /\ j <= k
          BY <3>2
        <4>2. p(k)[j + 1] = Round(next, j + 1, p(k)[j])
          BY <1>1, <4>1 DEF AreRounds
        <4>3. p(k)[j] = p(j)[j]
          BY <1>1, <4>1, RoundsAgree
        <4>4. h[k] = p(k)[k] /\ h[j] = p(j)[j]
          BY <4>1
        <4> HIDE DEF h
        <4> QED
          BY <3>2, <4>1, <4>2, <4>3, <4>4
      <3> QED
        BY <3>1, <3>2
    <2>2. h = [k \in Nat |-> h[k]]
      OBVIOUS
    <2> HIDE DEF h, r
    <2> QED
      BY <2>1, <2>2, Zenon
  <1>3. after = [k \in Nat |-> IF k = 0 THEN r ELSE Round(next, k, after[k - 1])]
    <2> HIDE DEF h, r
    <2> QED
      BY <1>2, Zenon
  <1>4. after_items(next, d, s) = after
    BY DEF after_items, Then, Round
  <1> HIDE DEF after, r
  <1>5. after[0] = r
    BY <1>3
  <1>6. ASSUME NEW k \in Nat
        PROVE  after[k + 1] = Round(next, k + 1, after[k])
    <2>1. k + 1 \in Nat /\ k + 1 # 0 /\ (k + 1) - 1 = k
      OBVIOUS
    <2> QED
      BY <1>3, <2>1
  <1> QED
    BY <1>4, <1>5, <1>6 DEF r

-----------------------------------------------------------------------------
(* bs stands at the position d of m.                                          *)
At(m, d, bs) ==
    /\ d + Len(bs) <= Len(m)
    /\ \A i \in 1 .. Len(bs) : m[d + i] = bs[i]

(* When a \o b stands at d, a stands there and b behind it.                   *)
LEMMA AtConcat ==
    ASSUME NEW m \in Seq(Byte), NEW d \in Nat, NEW a \in Seq(Byte), NEW b \in Seq(Byte),
           At(m, d, a \o b)
    PROVE  At(m, d, a) /\ At(m, d + Len(a), b)
  <1>1. Len(a \o b) = Len(a) + Len(b) /\ Len(a) \in Nat /\ Len(b) \in Nat /\ Len(m) \in Nat
    OBVIOUS
  <1>2. \A i \in 1 .. Len(a) : (a \o b)[i] = a[i]
    OBVIOUS
  <1>3. \A i \in 1 .. Len(b) : (a \o b)[Len(a) + i] = b[i]
    OBVIOUS
  <1> DEFINE c == a \o b
  <1> HIDE DEF c
  <1>4. \A i \in 1 .. Len(a) : i \in 1 .. (Len(a) + Len(b))
    BY <1>1
  <1>5. \A i \in 1 .. Len(b) : Len(a) + i \in 1 .. (Len(a) + Len(b))
                                /\ (d + Len(a)) + i = d + (Len(a) + i)
    BY <1>1
  <1>6. /\ d + (Len(a) + Len(b)) <= Len(m)
        /\ \A i \in 1 .. (Len(a) + Len(b)) : m[d + i] = c[i]
    BY <1>1 DEF At, c
  <1>7. At(m, d, a)
    BY <1>1, <1>2, <1>4, <1>6 DEF At, c
  <1>8. \A i \in 1 .. Len(b) : m[(d + Len(a)) + i] = b[i]
    BY <1>3, <1>5, <1>6 DEF c
  <1>9. At(m, d + Len(a), b)
    BY <1>1, <1>6, <1>8 DEF At
  <1> QED
    BY <1>7, <1>9

(* What stands at d is what is read there, and it is inside of m.             *)
LEMMA AtRead ==
    ASSUME NEW m \in Seq(Byte), NEW d \in Nat, NEW bs \in Seq(Byte), At(m, d, bs)
    PROVE  /\ ~ (d + Len(bs) > Len(m))
           /\ SubSeq(m, d + 1, d + Len(bs)) = bs
  <1> DEFINE n == Len(bs)
             t == SubSeq(m, d + 1, d + n)
  <1>1. n \in Nat /\ d + n <= Len(m) /\ Len(m) \in Nat
    BY DEF At
  <1>2. bs = [i \in 1 .. n |-> bs[i]] /\ \A i \in 1 .. n : m[d + i] = bs[i]
    BY DEF At
  <1> HIDE DEF n
  <1>3. t = [i \in 1 .. n |-> m[d + i]]
    BY <1>1
  <1>4. t = bs
    BY <1>2, <1>3
  <1> QED
    BY <1>1, <1>4 DEF n

-----------------------------------------------------------------------------
(* f[k] is the concatenation of the first k of the sequences ss.              *)
Flattens(f, ss, n) ==
    /\ f \in [0 .. n -> Seq(Byte)]
    /\ f[0] = <<>>
    /\ \A k \in 0 .. (n - 1) : f[k + 1] = f[k] \o ss[k + 1]

(* The concatenation of the first n sequences exists.                         *)
LEMMA FlattensExist ==
    ASSUME NEW N \in Nat, NEW ss \in [1 .. N -> Seq(Byte)]
    PROVE  \A n \in Nat : n <= N => \E f : Flattens(f, ss, n)
  <1> DEFINE U == {n \in Nat : n <= N => \E f : Flattens(f, ss, n)}
  <1>1. 0 \in U
    <2> DEFINE f == [k \in 0 .. 0 |-> <<>>]
    <2>1. Flattens(f, ss, 0)
      BY DEF Flattens
    <2> QED
      BY <2>1
  <1>2. ASSUME NEW n \in U
        PROVE  n + 1 \in U
    <2> SUFFICES ASSUME n + 1 <= N
                 PROVE  \E f : Flattens(f, ss, n + 1)
      OBVIOUS
    <2>1. PICK f : Flattens(f, ss, n)
      OBVIOUS
    <2> DEFINE last == f[n] \o ss[n + 1]
               g == [k \in 0 .. (n + 1) |-> IF k = n + 1 THEN last ELSE f[k]]
    <2>2. ss[n + 1] \in Seq(Byte) /\ f[n] \in Seq(Byte)
      BY <2>1 DEF Flattens
    <2>3. last \in Seq(Byte) /\ last = f[n] \o ss[n + 1]
      BY <2>2
    <2> HIDE DEF last
    <2>4. \A k \in 0 .. n : g[k] = f[k] /\ f[k] \in Seq(Byte)
      BY <2>1 DEF Flattens
    <2>5. g \in [0 .. (n + 1) -> Seq(Byte)]
      <3>1. \A k \in 0 .. (n + 1) : k = n + 1 \/ k \in 0 .. n
        OBVIOUS
      <3> QED
        BY <2>3, <2>4, <3>1
    <2>6. g[n + 1] = last
      OBVIOUS
    <2>7. g[0] = <<>>
      BY <2>1, <2>4 DEF Flattens
    <2> HIDE DEF g
    <2>8. ASSUME NEW k \in 0 .. ((n + 1) - 1)
          PROVE  g[k + 1] = g[k] \o ss[k + 1]
      <3>1. CASE k = n
        <4>1. g[n] = f[n]
          BY <2>4
        <4>2. g[n + 1] = g[n] \o ss[n + 1]
          BY <2>3, <2>6, <4>1, Zenon
        <4> QED
          BY <3>1, <4>2, Zenon
      <3>2. CASE k # n
        <4>1. k \in 0 .. (n - 1) /\ k \in 0 .. n /\ k + 1 \in 0 .. n
          BY <3>2
        <4>2. f[k + 1] = f[k] \o ss[k + 1]
          BY <2>1, <4>1 DEF Flattens
        <4>3. g[k + 1] = f[k + 1] /\ g[k] = f[k]
          BY <2>4, <4>1
        <4> QED
          BY <4>2, <4>3
      <3> QED
        BY <3>1, <3>2
    <2>9. Flattens(g, ss, n + 1)
      BY <2>5, <2>7, <2>8, Zenon DEF Flattens
    <2> QED
      BY <2>9
  <1> HIDE DEF U
  <1>3. U = Nat
    <2>1. U \in SUBSET Nat
      BY DEF U
    <2> QED
      BY <1>1, <1>2, <2>1, NatSetInduction
  <1> QED
    BY <1>3 DEF U

(* Hence FlattenSeq is the concatenation of all of them.                      *)
LEMMA FlattenSeqIs ==
    ASSUME NEW N \in Nat, NEW ss \in [1 .. N -> Seq(Byte)]
    PROVE  \E f : Flattens(f, ss, N) /\ FlattenSeq(ss) = f[N]
  <1>1. PICK f : Flattens(f, ss, N)
    BY FlattensExist
  <1>2. Len(ss) = N
    OBVIOUS
  <1>3. CASE N = 0
    <2>1. ss = <<>>
      BY <1>2, <1>3
    <2>2. FlattenSeq(ss) = <<>>
      BY <1>2, <1>3, <2>1 DEF FlattenSeq
    <2> QED
      BY <1>1, <1>3, <2>2 DEF Flattens
  <1>4. CASE N # 0
    <2> DEFINE flatten == CHOOSE g : g = [i \in 1 .. Len(ss) |->
                              IF i = 1 THEN ss[i] ELSE g[i - 1] \o ss[i]]
               g == [i \in 1 .. N |-> f[i]]
    <2>1. FlattenSeq(ss) = flatten[Len(ss)]
      BY <1>2, <1>4 DEF FlattenSeq
    <2>2. ASSUME NEW i \in 1 .. N
          PROVE  f[i] = IF i = 1 THEN ss[i] ELSE g[i - 1] \o ss[i]
      <3>1. i - 1 \in 0 .. (N - 1) /\ (i - 1) + 1 = i /\ ss[i] \in Seq(Byte)
        OBVIOUS
      <3>2. f[i] = f[i - 1] \o ss[i]
        BY <1>1, <3>1 DEF Flattens
      <3>3. CASE i = 1
        <4>1. f[0] = <<>> /\ i - 1 = 0
          BY <1>1, <3>3 DEF Flattens
        <4> DEFINE b == ss[i]
        <4>2. b \in Seq(Byte) /\ f[i] = <<>> \o b
          BY <3>1, <3>2, <4>1
        <4> HIDE DEF b
        <4>3. f[i] = b
          BY <4>2
        <4> QED
          BY <3>3, <4>3 DEF b
      <3>4. CASE i # 1
        <4>1. g[i - 1] = f[i - 1]
          BY <3>1, <3>4
        <4> QED
          BY <3>2, <3>4, <4>1
      <3> QED
        BY <3>3, <3>4
    <2>3. g = [i \in 1 .. N |-> IF i = 1 THEN ss[i] ELSE g[i - 1] \o ss[i]]
      <3>1. g = [i \in 1 .. N |-> f[i]]
        OBVIOUS
      <3> HIDE DEF g
      <3> QED
        BY <2>2, <3>1, Zenon
    <2>4. flatten = [i \in 1 .. N |-> IF i = 1 THEN ss[i] ELSE flatten[i - 1] \o ss[i]]
      <3> HIDE DEF g
      <3> QED
        BY <1>2, <2>3, Zenon
    <2> HIDE DEF flatten, g
    <2> DEFINE U == {i \in Nat : i + 1 <= N => flatten[i + 1] = f[i + 1]}
    <2>5. g = [i \in 1 .. N |-> f[i]]
      BY DEF g
    <2>6. 0 \in U
      <3>1. 1 \in 1 .. N
        BY <1>4
      <3>2. flatten[1] = ss[1]
        BY <2>4, <3>1
      <3>3. f[1] = ss[1]
        BY <2>2, <3>1
      <3> QED
        BY <3>2, <3>3
    <2>7. ASSUME NEW i \in U
          PROVE  i + 1 \in U
      <3> SUFFICES ASSUME (i + 1) + 1 <= N
                   PROVE  flatten[(i + 1) + 1] = f[(i + 1) + 1]
        OBVIOUS
      <3> DEFINE j == (i + 1) + 1
      <3>1. j \in 1 .. N /\ j # 1 /\ j - 1 = i + 1 /\ i + 1 \in 1 .. N /\ i + 1 <= N
        OBVIOUS
      <3>2. flatten[j - 1] = f[j - 1] /\ g[j - 1] = f[j - 1]
        BY <2>5, <3>1
      <3> HIDE DEF j
      <3>3. flatten[j] = flatten[j - 1] \o ss[j]
        BY <2>4, <3>1, Zenon
      <3>4. f[j] = g[j - 1] \o ss[j]
        BY <2>2, <3>1, Zenon
      <3>5. flatten[j] = f[j]
        BY <3>2, <3>3, <3>4
      <3> QED
        BY <3>5 DEF j
    <2> HIDE DEF U
    <2>8. U = Nat
      <3>1. U \in SUBSET Nat
        BY DEF U
      <3> QED
        BY <2>6, <2>7, <3>1, NatSetInduction
    <2>9. flatten[N] = f[N]
      <3>1. N - 1 \in U /\ (N - 1) + 1 = N
        BY <1>4, <2>8
      <3> QED
        BY <3>1 DEF U
    <2> QED
      BY <1>1, <1>2, <2>1, <2>9
  <1> QED
    BY <1>3, <1>4

(* Where the concatenation of ss stands, each of them stands behind those     *)
(* before it.                                                                 *)
LEMMA AtFlattened ==
    ASSUME NEW N \in Nat, NEW ss \in [1 .. N -> Seq(Byte)], NEW f, Flattens(f, ss, N),
           NEW m \in Seq(Byte), NEW d \in Nat, At(m, d, f[N])
    PROVE  \A k \in 0 .. (N - 1) :
              /\ Len(f[k]) \in Nat /\ Len(f[k + 1]) \in Nat /\ Len(ss[k + 1]) \in Nat
              /\ Len(f[k + 1]) = Len(f[k]) + Len(ss[k + 1])
              /\ Len(f[k + 1]) <= Len(f[N])
              /\ At(m, d + Len(f[k]), ss[k + 1])
  <1>1. ASSUME NEW k \in 0 .. (N - 1)
        PROVE  /\ f[k] \in Seq(Byte) /\ ss[k + 1] \in Seq(Byte) /\ f[k + 1] \in Seq(Byte)
               /\ f[k + 1] = f[k] \o ss[k + 1]
               /\ Len(f[k]) \in Nat /\ Len(f[k + 1]) \in Nat /\ Len(ss[k + 1]) \in Nat
               /\ Len(f[k + 1]) = Len(f[k]) + Len(ss[k + 1])
    <2>1. k \in 0 .. N /\ k + 1 \in 0 .. N /\ k + 1 \in 1 .. N
      OBVIOUS
    <2>2. f[k] \in Seq(Byte) /\ ss[k + 1] \in Seq(Byte) /\ f[k + 1] \in Seq(Byte)
      BY <2>1 DEF Flattens
    <2>3. f[k + 1] = f[k] \o ss[k + 1]
      BY DEF Flattens
    <2> DEFINE a == f[k]
               b == ss[k + 1]
    <2>4. a \in Seq(Byte) /\ b \in Seq(Byte) /\ f[k + 1] = a \o b
      BY <2>2, <2>3
    <2> HIDE DEF a, b
    <2>5. Len(a \o b) = Len(a) + Len(b) /\ Len(a) \in Nat /\ Len(b) \in Nat
      BY <2>4
    <2>6. Len(f[k + 1]) = Len(a) + Len(b) /\ Len(a) + Len(b) \in Nat
      BY <2>4, <2>5
    <2> QED
      BY <2>2, <2>3, <2>5, <2>6, Zenon DEF a, b
  <1> DEFINE U == {j \in Nat : j <= N => /\ At(m, d, f[N - j])
                                         /\ Len(f[N - j]) <= Len(f[N])}
  <1>2. 0 \in U
    <2>1. N - 0 = N /\ f[N] \in Seq(Byte)
      BY DEF Flattens
    <2>2. Len(f[N]) \in Nat
      BY <2>1
    <2> QED
      BY <2>1, <2>2
  <1>3. ASSUME NEW j \in U
        PROVE  j + 1 \in U
    <2> SUFFICES ASSUME j + 1 <= N
                 PROVE  At(m, d, f[N - (j + 1)]) /\ Len(f[N - (j + 1)]) <= Len(f[N])
      OBVIOUS
    <2> DEFINE k == N - (j + 1)
    <2>1. k \in 0 .. (N - 1) /\ k + 1 = N - j /\ j <= N
      OBVIOUS
    <2>2. At(m, d, f[k + 1]) /\ Len(f[k + 1]) <= Len(f[N])
      BY <2>1
    <2> HIDE DEF k
    <2>3. At(m, d, f[k] \o ss[k + 1])
      BY <1>1, <2>1, <2>2
    <2>4. At(m, d, f[k])
      BY <1>1, <2>1, <2>3, AtConcat
    <2>5. f[N] \in Seq(Byte)
      BY DEF Flattens
    <2> DEFINE x == Len(f[k])
               y == Len(ss[k + 1])
               z == Len(f[N])
    <2>6. x \in Nat /\ y \in Nat /\ z \in Nat /\ x + y <= z
      <3>1. x \in Nat /\ y \in Nat /\ Len(f[k + 1]) = x + y
        BY <1>1, <2>1
      <3>2. z \in Nat
        BY <2>5
      <3> QED
        BY <2>2, <3>1, <3>2
    <2> HIDE DEF x, y, z
    <2>7. x <= z
      BY <2>6
    <2> QED
      BY <2>4, <2>7 DEF k, x, z
  <1> HIDE DEF U
  <1>4. U = Nat
    <2>1. U \in SUBSET Nat
      BY DEF U
    <2> QED
      BY <1>2, <1>3, <2>1, NatSetInduction
  <1>5. ASSUME NEW k \in 0 .. (N - 1)
        PROVE  Len(f[k + 1]) <= Len(f[N]) /\ At(m, d + Len(f[k]), ss[k + 1])
    <2> DEFINE j == N - (k + 1)
    <2>1. j \in U /\ j <= N /\ N - j = k + 1
      BY <1>4
    <2>2. At(m, d, f[k + 1]) /\ Len(f[k + 1]) <= Len(f[N])
      BY <2>1 DEF U
    <2>3. At(m, d, f[k] \o ss[k + 1])
      BY <1>1, <2>2
    <2>4. At(m, d + Len(f[k]), ss[k + 1])
      BY <1>1, <2>3, AtConcat
    <2> QED
      BY <2>2, <2>4
  <1> QED
    BY <1>1, <1>5

(* The bytes of an announced length: the n bytes at d.                        *)
LEMMA LengthRead ==
    ASSUME NEW m \in Seq(Byte), NEW d \in Nat, NEW n \in 1 .. LenLen, d + n <= Len(m)
    PROVE  LET v == Number(SubSeq(m, d + 1, d + n))
           IN  /\ from_bytes_size(m, d, n) = Ok(d + n, 0, v)
               /\ v \in Nat /\ v < SizeMod
  <1> DEFINE bs == SubSeq(m, d + 1, d + n)
  <1>1. n \in Nat /\ n >= 1 /\ n <= LenLen /\ LenLen \in Nat /\ Len(m) \in Nat
    BY Layout
  <1>2. bs \in Seq(Byte) /\ Len(bs) = n
    BY <1>1
  <1>3. ~ (d + n > Len(m)) /\ ~ (n > LenLen)
    BY <1>1
  <1>4. from_bytes_size(m, d, n) = Ok(d + n, 0, Number(bs))
    BY <1>3 DEF from_bytes_size, Read
  <1> QED
    BY <1>1, <1>2, <1>4, LengthIsSize

(* decode_length of a header whose length is in the n bytes behind it.        *)
Behind(m, d, s, arity, n) ==
    IF s - 1 < n
      THEN Fail("threw")
      ELSE LET r == from_bytes_size(m, d + 1, n)
           IN  IF r.is = "ok" THEN Ok(r.data, s - 1 - n, <<arity, r.val>>) ELSE r

(* decode_length by the first byte, where there is one.                       *)
LEMMA LengthByHead ==
    ASSUME NEW m, NEW d, NEW s, s # 0, ~ (d >= Len(m)), NEW b, b = m[d + 1]
    PROVE  decode_length(m, d, s) =
             CASE b < StringHead  -> Ok(d, s, <<"Single", 1>>)
               [] b \in StringHead .. LongString ->
                      Ok(d + 1, s - 1, <<"Single", b - StringHead>>)
               [] b \in (LongString + 1) .. (ListHead - 1) ->
                      Behind(m, d, s, "Single", b - LongString)
               [] b \in ListHead .. LongList ->
                      Ok(d + 1, s - 1, <<"Multiple", b - ListHead>>)
               [] b > LongList    -> Behind(m, d, s, "Multiple", b - LongList)
  BY DEF decode_length, next_length, Then, Behind

(* The first bytes of encode_single and of prefix_multiple_length.            *)
Heads == {<<"Single", StringHead, LongString>>, <<"Multiple", ListHead, LongList>>}

(* What prefix puts before a payload of n bytes.                              *)
HeaderOf(kind, n) ==
    IF n <= Short THEN <<kind[2] + n>>
                  ELSE <<kind[3] + Len(big_endian(n))>> \o big_endian(n)

(* The two kinds of headers, and that their first bytes are bytes.            *)
LEMMA HeadsAre ==
    ASSUME NEW kind \in Heads
    PROVE  /\ \/ kind[1] = "Single" /\ kind[2] = StringHead /\ kind[3] = LongString
              \/ kind[1] = "Multiple" /\ kind[2] = ListHead /\ kind[3] = LongList
           /\ kind[2] \in Nat /\ kind[3] = kind[2] + Short /\ kind[3] + LenLen < Base
  <1>1. \/ kind[1] = "Single" /\ kind[2] = StringHead /\ kind[3] = LongString
        \/ kind[1] = "Multiple" /\ kind[2] = ListHead /\ kind[3] = LongList
    BY DEF Heads
  <1> QED
    BY <1>1, Layout

(* What prefix writes is the header and the payload, and the bytes of a long  *)
(* length stand for it.                                                       *)
LEMMA PrefixIs ==
    ASSUME NEW bs \in Seq(Byte), Len(bs) < SizeMod, NEW kind \in Heads
    PROVE  /\ HeaderOf(kind, Len(bs)) \in Seq(Byte)
           /\ Len(HeaderOf(kind, Len(bs))) \in 1 .. (1 + LenLen)
           /\ prefix(kind[2], kind[3], bs) = HeaderOf(kind, Len(bs)) \o bs
           /\ prefix(kind[2], kind[3], bs) \in Seq(Byte)
           /\ Len(prefix(kind[2], kind[3], bs)) = Len(HeaderOf(kind, Len(bs))) + Len(bs)
           /\ Len(bs) > Short => /\ Len(big_endian(Len(bs))) \in 1 .. LenLen
                                 /\ big_endian(Len(bs)) \in Seq(Byte)
                                 /\ Number(big_endian(Len(bs))) = Len(bs)
  <1> DEFINE L == Len(bs)
             lb == big_endian(L)
             n == Len(lb)
             c == HeaderOf(kind, L)
  <1>1. L \in Nat /\ L < SizeMod
    OBVIOUS
  <1> HIDE DEF L
  <1>2. /\ lb \in Seq(Byte) /\ Number(lb) = L /\ n \in Nat
        /\ L > 0 => n > 0
        /\ n <= LenLen
    <2>1. lb \in Seq(Byte) /\ (L > 0 => n > 0)
      BY <1>1, BigEndian
    <2>2. n <= LenLen
      BY <1>1, BigEndian, Layout DEF SizeMod
    <2>3. Number(lb) = L
      BY <1>1, NumberOfBigEndian
    <2> HIDE DEF lb
    <2> QED
      BY <2>1, <2>2, <2>3
  <1> HIDE DEF lb
  <1>0. /\ kind[2] \in Nat /\ kind[3] = kind[2] + Short /\ kind[3] + LenLen < Base
        /\ Short \in Nat /\ LenLen \in Nat /\ Base \in Nat
    BY HeadsAre, Layout
  <1>3. c \in Seq(Byte) /\ Len(c) \in 1 .. (1 + LenLen)
    <2>1. CASE L <= Short
      <3>1. kind[2] + L \in Byte
        <4> DEFINE k == kind[2]
        <4>1. k \in Nat /\ k + Short <= Base - 1 /\ Short \in Nat /\ Base \in Nat
          BY <1>0
        <4> HIDE DEF k
        <4>2. k + L \in 0 .. (Base - 1)
          BY <1>1, <2>1, <4>1
        <4> QED
          BY <4>2 DEF k, Byte
      <3>2. c = <<kind[2] + L>>
        BY <2>1 DEF HeaderOf
      <3> QED
        BY <3>1, <3>2, Layout
    <2>2. CASE ~ (L <= Short)
      <3>1. kind[3] + n \in Byte
        <4> DEFINE k == kind[3]
        <4>1. k \in Nat /\ k + LenLen < Base /\ LenLen \in Nat /\ Base \in Nat
          BY <1>0
        <4>2. n \in Nat /\ n <= LenLen
          BY <1>2
        <4> HIDE DEF k, n
        <4>3. k + n \in 0 .. (Base - 1)
          BY <4>1, <4>2
        <4> QED
          BY <4>3 DEF k, Byte
      <3>2. c = <<kind[3] + n>> \o lb
        BY <2>2 DEF HeaderOf, lb
      <3> QED
        BY <1>2, <3>1, <3>2, Layout
    <2> QED
      BY <2>1, <2>2
  <1>4. prefix(kind[2], kind[3], bs) = c \o bs
    <2>1. CASE L <= Short
      BY <2>1 DEF prefix, HeaderOf, L
    <2>2. CASE ~ (L <= Short)
      <3>1. prefix(kind[2], kind[3], bs) = <<kind[3] + n>> \o lb \o bs
        BY <2>2 DEF prefix, L, lb
      <3>2. c = <<kind[3] + n>> \o lb
        BY <2>2 DEF HeaderOf, lb
      <3> QED
        BY <3>1, <3>2
    <2> QED
      BY <2>1, <2>2
  <1>5. L > Short => n \in 1 .. LenLen /\ lb \in Seq(Byte) /\ Number(lb) = L
    BY <1>1, <1>2, Layout
  <1> HIDE DEF c
  <1>6. c \o bs \in Seq(Byte) /\ Len(c \o bs) = Len(c) + L
    BY <1>3 DEF L
  <1> QED
    BY <1>3, <1>4, <1>5, <1>6 DEF c, L, lb

(* Behind its header of h bytes at d stands bs, and decode_length reads it    *)
(* for every size: it throws when the header is longer.                       *)
HeaderFound(bs, kind, m, d, h) ==
    /\ At(m, d + h, bs)
    /\ \A s \in Nat : decode_length(m, d, s) =
          IF s < h THEN Fail("threw") ELSE Ok(d + h, s - h, <<kind[1], Len(bs)>>)

(* decode_length reads what prefix wrote, wherever it stands and whatever is  *)
(* behind it, for every payload whose length is a size_t: the kind of item,   *)
(* the length and a pointer to the payload.  No length, on either side of 55, *)
(* is read as another, and no string as a list.                               *)
THEOREM HeaderRoundTrip ==
    ASSUME NEW bs \in Seq(Byte), Len(bs) < SizeMod, NEW kind \in Heads,
           NEW m \in Seq(Byte), NEW d \in Nat, At(m, d, prefix(kind[2], kind[3], bs)),
           NEW h, h = Len(HeaderOf(kind, Len(bs)))
    PROVE  HeaderFound(bs, kind, m, d, h)
  <1> DEFINE L == Len(bs)
             lb == big_endian(L)
             n == Len(lb)
             c == HeaderOf(kind, L)
  <1>1. L \in Nat
    OBVIOUS
  <1>2. c \in Seq(Byte) /\ h = Len(c) /\ h \in 1 .. (1 + LenLen)
    BY PrefixIs
  <1>3. At(m, d, c) /\ At(m, d + h, bs)
    <2>1. At(m, d, c \o bs)
      BY PrefixIs
    <2> HIDE DEF c
    <2> QED
      BY <1>2, <2>1, AtConcat
  <1>4. kind[2] \in Nat /\ kind[3] = kind[2] + Short /\ kind[3] + LenLen < Base
    BY HeadsAre
  <1> SUFFICES ASSUME NEW s \in Nat
               PROVE  decode_length(m, d, s) =
                         IF s < h THEN Fail("threw") ELSE Ok(d + h, s - h, <<kind[1], L>>)
    BY <1>3 DEF HeaderFound
  <1>5. L > Short => n \in 1 .. LenLen /\ lb \in Seq(Byte) /\ Number(lb) = L
    BY PrefixIs
  <1> HIDE DEF L, lb, c
  <1>6. CASE s = 0
    <2>1. s < h
      BY <1>2, <1>6
    <2> QED
      BY <1>6, <2>1 DEF decode_length, next_length
  <1>7. d < Len(m) /\ Len(m) \in Nat /\ m[d + 1] = c[1]
    <2>1. 1 \in 1 .. Len(c) /\ d + Len(c) <= Len(m) /\ Len(m) \in Nat
      BY <1>2, <1>3 DEF At
    <2>2. m[d + 1] = c[1]
      BY <1>3, <2>1 DEF At
    <2> QED
      BY <1>2, <2>1, <2>2
  <1>8. CASE s # 0 /\ L <= Short
    <2> DEFINE b == kind[2] + L
    <2>1. c = <<b>>
      BY <1>8 DEF c, HeaderOf
    <2>2. h = 1 /\ b = m[d + 1] /\ ~ (d >= Len(m)) /\ s # 0 /\ b \in Int
      BY <1>1, <1>2, <1>4, <1>7, <1>8, <2>1
    <2>3. CASE kind[1] = "Single" /\ kind[2] = StringHead
      <3>1. /\ ~ (b < StringHead) /\ b \in StringHead .. LongString
            /\ ~ (b \in (LongString + 1) .. (ListHead - 1))
            /\ ~ (b \in ListHead .. LongList) /\ ~ (b > LongList)
            /\ b - StringHead = L
        BY <1>1, <1>8, <2>3, Layout
      <3> HIDE DEF b
      <3>2. decode_length(m, d, s) = Ok(d + 1, s - 1, <<"Single", b - StringHead>>)
        BY <2>2, <3>1, LengthByHead
      <3>3. ~ (s < h)
        BY <1>8, <2>2
      <3> QED
        BY <2>2, <2>3, <3>1, <3>2, <3>3
    <2>4. CASE kind[1] = "Multiple" /\ kind[2] = ListHead
      <3>1. /\ ~ (b < StringHead) /\ ~ (b \in StringHead .. LongString)
            /\ ~ (b \in (LongString + 1) .. (ListHead - 1))
            /\ b \in ListHead .. LongList /\ ~ (b > LongList)
            /\ b - ListHead = L
        BY <1>1, <1>8, <2>4, Layout
      <3> HIDE DEF b
      <3>2. decode_length(m, d, s) = Ok(d + 1, s - 1, <<"Multiple", b - ListHead>>)
        BY <2>2, <3>1, LengthByHead
      <3>3. ~ (s < h)
        BY <1>8, <2>2
      <3> QED
        BY <2>2, <2>4, <3>1, <3>2, <3>3
    <2> QED
      BY <2>3, <2>4, HeadsAre
  <1>9. CASE s # 0 /\ ~ (L <= Short)
    <2>1. n \in 1 .. LenLen /\ lb \in Seq(Byte) /\ Number(lb) = L /\ n \in Nat
      BY <1>1, <1>5, <1>9, Layout
    <2> DEFINE b == kind[3] + n
    <2>2. c = <<b>> \o lb
      BY <1>9 DEF c, HeaderOf, lb
    <2>3. b \in Byte
      <3> DEFINE k == kind[3]
      <3>1. k \in Nat /\ k + LenLen < Base /\ LenLen \in Nat /\ Base \in Nat
        BY <1>4, Layout
      <3>2. n \in Nat /\ n <= LenLen
        BY <2>1, Layout
      <3> HIDE DEF k, n
      <3>3. k + n \in 0 .. (Base - 1)
        BY <3>1, <3>2
      <3> QED
        BY <3>3 DEF k, Byte
    <2>4. Len(c) = 1 + n /\ c[1] = b /\ At(m, d + 1, lb)
      <3>1. <<b>> \in Seq(Byte) /\ Len(<<b>>) = 1
        BY <2>3
      <3>2. Len(c) = 1 + n /\ c[1] = b
        BY <2>1, <2>2, <3>1
      <3>3. At(m, d, <<b>> \o lb)
        BY <1>3, <2>2
      <3> DEFINE a == <<b>>
      <3>4. a \in Seq(Byte) /\ Len(a) = 1 /\ At(m, d, a \o lb)
        BY <3>1, <3>3
      <3> HIDE DEF a
      <3>5. At(m, d + Len(a), lb)
        BY <2>1, <3>4, AtConcat
      <3> QED
        BY <3>2, <3>4, <3>5
    <2>5. h = 1 + n /\ b = m[d + 1] /\ ~ (d >= Len(m)) /\ s # 0 /\ b \in Int
      <3>1. h = 1 + n /\ b = m[d + 1] /\ s # 0
        BY <1>2, <1>7, <1>9, <2>4
      <3>2. ~ (d >= Len(m))
        BY <1>7
      <3> HIDE DEF b
      <3>3. b \in Int
        BY <2>3, Layout DEF Byte
      <3> QED
        BY <3>1, <3>2, <3>3
    <2>6. from_bytes_size(m, d + 1, n) = Ok((d + 1) + n, 0, L)
      <3>1. d + 1 \in Nat /\ (d + 1) + n <= Len(m)
        BY <2>4 DEF At
      <3>2. SubSeq(m, (d + 1) + 1, (d + 1) + n) = lb
        BY <2>1, <2>4, <3>1, AtRead
      <3>3. Number(SubSeq(m, (d + 1) + 1, (d + 1) + n)) = L
        BY <2>1, <3>2, Zenon
      <3>4. from_bytes_size(m, d + 1, n)
               = Ok((d + 1) + n, 0, Number(SubSeq(m, (d + 1) + 1, (d + 1) + n)))
        BY <2>1, <3>1, LengthRead
      <3> QED
        BY <3>3, <3>4
    <2>7. ASSUME NEW arity
          PROVE  Behind(m, d, s, arity, n) =
                    IF s < h THEN Fail("threw") ELSE Ok(d + h, s - h, <<arity, L>>)
      <3>1. s < h <=> s - 1 < n
        BY <2>1, <2>5
      <3>2. (d + 1) + n = d + h /\ s - 1 - n = s - h
        BY <2>1, <2>5
      <3> QED
        <4> DEFINE r == from_bytes_size(m, d + 1, n)
        <4>1. r.is = "ok" /\ r.data = d + h /\ r.val = L
          BY <2>6, <3>2 DEF Ok
        <4>2. Behind(m, d, s, arity, n) =
                 IF s - 1 < n THEN Fail("threw")
                   ELSE IF r.is = "ok" THEN Ok(r.data, s - 1 - n, <<arity, r.val>>) ELSE r
          BY DEF Behind
        <4> HIDE DEF r
        <4> QED
          BY <3>1, <3>2, <4>1, <4>2
    <2>8. CASE kind[1] = "Single" /\ kind[3] = LongString
      <3>1. /\ ~ (b < StringHead) /\ ~ (b \in StringHead .. LongString)
            /\ b \in (LongString + 1) .. (ListHead - 1)
            /\ ~ (b \in ListHead .. LongList) /\ ~ (b > LongList)
            /\ b - LongString = n
        BY <2>1, <2>8, Layout
      <3> HIDE DEF b
      <3>2. decode_length(m, d, s) = Behind(m, d, s, "Single", b - LongString)
        BY <2>5, <3>1, LengthByHead
      <3> QED
        BY <2>7, <2>8, <3>1, <3>2
    <2>9. CASE kind[1] = "Multiple" /\ kind[3] = LongList
      <3>1. /\ ~ (b < StringHead) /\ ~ (b \in StringHead .. LongString)
            /\ ~ (b \in (LongString + 1) .. (ListHead - 1))
            /\ ~ (b \in ListHead .. LongList) /\ b > LongList
            /\ b - LongList = n
        BY <2>1, <2>9, Layout
      <3> HIDE DEF b
      <3>2. decode_length(m, d, s) = Behind(m, d, s, "Multiple", b - LongList)
        BY <2>5, <3>1, LengthByHead
      <3> QED
        BY <2>7, <2>9, <3>1, <3>2
    <2> QED
      BY <2>8, <2>9, HeadsAre
  <1> QED
    BY <1>6, <1>8, <1>9

(* What decode_length makes of a header: it reads and counts inside of the    *)
(* input, announces a size_t, and what it announces is what the rules of RLP  *)
(* say of the same bytes.                                                     *)
LEMMA HeaderExact ==
    ASSUME NEW input \in Seq(Byte), Len(input) < SizeMod, NEW tail \in Seq(Byte),
           NEW h, h = decode_length(input \o tail, 0, Len(input)), h.is = "ok"
    PROVE  /\ input # <<>>
           /\ h.size \in 0 .. Len(input)
           /\ h.val[2] \in 0 .. (SizeMod - 1)
           /\ ItemLength(input) = Len(input) - h.size + h.val[2]
  <1> DEFINE m == input \o tail
             s == Len(input)
             b == input[1]
  <1>1. s # 0
    BY DEF decode_length, next_length, Fail
  <1>2. input # <<>> /\ s \in Nat /\ 1 \in 1 .. s
    BY <1>1
  <1>3. b \in 0 .. (Base - 1)
    <2>1. b \in Byte
      BY <1>2
    <2> QED
      BY <2>1 DEF Byte
  <1>4. m[0 + 1] = b /\ ~ (0 >= Len(m))
    BY <1>2, Inside
  <1>5. h = CASE b < StringHead  -> Ok(0, s, <<"Single", 1>>)
              [] b \in StringHead .. LongString ->
                     Ok(0 + 1, s - 1, <<"Single", b - StringHead>>)
              [] b \in (LongString + 1) .. (ListHead - 1) ->
                     Behind(m, 0, s, "Single", b - LongString)
              [] b \in ListHead .. LongList ->
                     Ok(0 + 1, s - 1, <<"Multiple", b - ListHead>>)
              [] b > LongList    -> Behind(m, 0, s, "Multiple", b - LongList)
    <2> HIDE DEF m, s, b
    <2> QED
      BY <1>1, <1>4, LengthByHead DEF m, s
  <1>6. ASSUME NEW arity, NEW n \in 1 .. LenLen, h = Behind(m, 0, s, arity, n)
        PROVE  /\ n < s /\ h.size = s - 1 - n
               /\ h.val[2] = Number(SubSeq(input, 2, 1 + n))
               /\ h.val[2] \in 0 .. (SizeMod - 1)
    <2>1. ~ (s - 1 < n)
      BY <1>6 DEF Behind, Fail
    <2>2. n < s /\ n \in Nat
      BY <1>2, <2>1, Layout
    <2> DEFINE v == Number(SubSeq(input, 2, 1 + n))
    <2>3. from_bytes_size(m, 0 + 1, n) = Ok((0 + 1) + n, 0, v) /\ v \in Nat /\ v < SizeMod
      <3>1. m \in Seq(Byte) /\ 1 + n <= Len(m)
        BY <1>2, <2>2, Inside
      <3> DEFINE d == 0 + 1
                 w == Number(SubSeq(m, d + 1, d + n))
      <3>0. d \in Nat
        OBVIOUS
      <3>6. d + n <= Len(m)
        BY <3>1
      <3> HIDE DEF d, m
      <3>2. from_bytes_size(m, d, n) = Ok(d + n, 0, w) /\ w \in Nat /\ w < SizeMod
        BY <3>0, <3>1, <3>6, LengthRead
      <3>3. 2 \in 1 .. s /\ 1 + n \in 1 .. s /\ d + 1 = 2 /\ d + n = 1 + n
        BY <1>2, <2>2 DEF d
      <3>4. SubSeq(m, 2, 1 + n) = SubSeq(input, 2, 1 + n)
        BY <3>3, Inside DEF m
      <3>5. w = v
        BY <3>3, <3>4
      <3> HIDE DEF w, v
      <3> QED
        BY <3>2, <3>5 DEF d
    <2>4. h = Ok((0 + 1) + n, s - 1 - n, <<arity, v>>)
      <3> HIDE DEF v
      <3> QED
        BY <1>6, <2>1, <2>3 DEF Behind, Ok
    <2> HIDE DEF v
    <2>5. h.size = s - 1 - n /\ h.val[2] = v /\ v \in 0 .. (SizeMod - 1)
      BY <2>3, <2>4, Layout DEF Ok
    <2> QED
      BY <2>2, <2>5 DEF v
  <1> HIDE DEF m
  <1> DEFINE rule(n) == IF s <= n THEN 0 ELSE 1 + n + Number(SubSeq(input, 2, 1 + n))
  <1>7. ItemLength(input) =
            CASE b < StringHead -> 1
              [] b \in StringHead .. LongString -> 1 + (b - StringHead)
              [] b \in (LongString + 1) .. (ListHead - 1) -> rule(b - LongString)
              [] b \in ListHead .. LongList -> 1 + (b - ListHead)
              [] b > LongList -> rule(b - LongList)
    <2> DEFINE body ==
            CASE input = <<>> -> 0
              [] input # <<>> /\ b < StringHead -> 1
              [] input # <<>> /\ b \in StringHead .. LongString -> 1 + (b - StringHead)
              [] input # <<>> /\ b \in (LongString + 1) .. (ListHead - 1) -> rule(b - LongString)
              [] input # <<>> /\ b \in ListHead .. LongList -> 1 + (b - ListHead)
              [] input # <<>> /\ b > LongList -> rule(b - LongList)
    <2>1. ItemLength(input) = body
      BY DEF ItemLength
    <2> HIDE DEF b, rule
    <2>2. body =
            CASE b < StringHead -> 1
              [] b \in StringHead .. LongString -> 1 + (b - StringHead)
              [] b \in (LongString + 1) .. (ListHead - 1) -> rule(b - LongString)
              [] b \in ListHead .. LongList -> 1 + (b - ListHead)
              [] b > LongList -> rule(b - LongList)
      BY <1>2, <1>3, Layout
    <2> QED
      BY <2>1, <2>2
  <1>8. ASSUME NEW n \in 1 .. LenLen, n < s
        PROVE  rule(n) = 1 + n + Number(SubSeq(input, 2, 1 + n))
    BY <1>8, <1>2, Layout
  <1> HIDE DEF rule, b, s
  <1>9. CASE b < StringHead
    <2>1. /\ ~ (b \in StringHead .. LongString) /\ ~ (b \in (LongString + 1) .. (ListHead - 1))
          /\ ~ (b \in ListHead .. LongList) /\ ~ (b > LongList)
      BY <1>3, <1>9, Layout
    <2>2. h = Ok(0, s, <<"Single", 1>>)
      BY <1>5, <1>9, <2>1
    <2>3. ItemLength(input) = 1
      BY <1>7, <1>9, <2>1
    <2> QED
      BY <1>2, <1>9, <2>2, <2>3, Layout DEF Ok, s
  <1>10. CASE b \in StringHead .. LongString
    <2>1. /\ ~ (b < StringHead) /\ ~ (b \in (LongString + 1) .. (ListHead - 1))
          /\ ~ (b \in ListHead .. LongList) /\ ~ (b > LongList)
      BY <1>3, <1>10, Layout
    <2>2. h = Ok(0 + 1, s - 1, <<"Single", b - StringHead>>)
      BY <1>5, <1>10, <2>1
    <2>3. ItemLength(input) = 1 + (b - StringHead)
      BY <1>7, <1>10, <2>1
    <2> QED
      BY <1>2, <1>10, <2>2, <2>3, Layout DEF Ok, s
  <1>11. CASE b \in (LongString + 1) .. (ListHead - 1)
    <2>1. /\ ~ (b < StringHead) /\ ~ (b \in StringHead .. LongString)
          /\ ~ (b \in ListHead .. LongList) /\ ~ (b > LongList)
      BY <1>3, <1>11, Layout
    <2>2. h = Behind(m, 0, s, "Single", b - LongString)
      BY <1>5, <1>11, <2>1
    <2>3. ItemLength(input) = rule(b - LongString)
      BY <1>7, <1>11, <2>1
    <2>4. b - LongString \in 1 .. LenLen
      BY <1>3, <1>11, Layout
    <2> QED
      BY <1>2, <1>6, <1>8, <2>2, <2>3, <2>4, Layout DEF s
  <1>12. CASE b \in ListHead .. LongList
    <2>1. /\ ~ (b < StringHead) /\ ~ (b \in StringHead .. LongString)
          /\ ~ (b \in (LongString + 1) .. (ListHead - 1)) /\ ~ (b > LongList)
      BY <1>3, <1>12, Layout
    <2>2. h = Ok(0 + 1, s - 1, <<"Multiple", b - ListHead>>)
      BY <1>5, <1>12, <2>1
    <2>3. ItemLength(input) = 1 + (b - ListHead)
      BY <1>7, <1>12, <2>1
    <2> QED
      BY <1>2, <1>12, <2>2, <2>3, Layout DEF Ok, s
  <1>13. CASE b > LongList
    <2>1. /\ ~ (b < StringHead) /\ ~ (b \in StringHead .. LongString)
          /\ ~ (b \in (LongString + 1) .. (ListHead - 1)) /\ ~ (b \in ListHead .. LongList)
      BY <1>3, <1>13, Layout
    <2>2. h = Behind(m, 0, s, "Multiple", b - LongList)
      BY <1>5, <1>13, <2>1
    <2>3. ItemLength(input) = rule(b - LongList)
      BY <1>7, <1>13, <2>1
    <2>4. b - LongList \in 1 .. LenLen
      BY <1>3, <1>13, Layout
    <2> QED
      BY <1>2, <1>6, <1>8, <2>2, <2>3, <2>4, Layout DEF s
  <1> QED
    BY <1>2, <1>3, <1>9, <1>10, <1>11, <1>12, <1>13, Layout

-----------------------------------------------------------------------------
(* decode on any input whose length is a size_t, with any bytes behind it:    *)
(* what is left of size after the payload is 0 modulo SizeMod, and both that  *)
(* were subtracted are less, so nothing has wrapped.  What the contents are,  *)
(* and where they leave the pointer, does not matter.                         *)
LEMMA DecodeExact ==
    ASSUME NEW Ts, NEW input \in Seq(Byte), Len(input) < SizeMod, NEW tail \in Seq(Byte),
           decode(Ts, input, tail).is = "ok"
    PROVE  input # <<>> /\ ItemLength(input) = Len(input)
  <1> DEFINE m == input \o tail
             h == decode_length(m, 0, Len(input))
             length == h.val[2]
             contents == [p \in Place |->
                             IF Len(Ts) = 1
                               THEN Then(decoder[Ts[1]][p],
                                         LAMBDA q : Ok(q.data, q.size, <<q.val>>))
                               ELSE decode_multiple(Ts, p[1], p[2], p[3])]
             c == contents[<<m, h.data, length>>]
             r == decode_impl(Ts, contents, m, 0, Len(input))
  <1>1. r.is = "ok" /\ r.size = 0
    BY DEF decode, Fail
  <1> HIDE DEF contents
  <1>2. /\ h.is = "ok"
        /\ Ts = <<>> => length = 0 /\ r = Ok(h.data, h.size, <<>>)
        /\ Ts # <<>> => r = IF c.is = "ok" THEN Ok(c.data, Minus(h.size, length), c.val)
                                           ELSE c
    <2> DEFINE item == IF h.val[1] # (IF Len(Ts) = 1 /\ ~ IsTuple(Ts[1]) THEN "Single" ELSE "Multiple")
                          \/ (Ts = <<>> /\ length # 0)
                         THEN Fail("threw")
                         ELSE IF Ts = <<>>
                           THEN Ok(h.data, h.size, <<>>)
                           ELSE IF c.is = "ok" THEN Ok(c.data, Minus(h.size, length), c.val) ELSE c
    <2>1. r = IF h.is = "ok" THEN item ELSE h
      BY DEF decode_impl, Then
    <2> HIDE DEF r, h, c
    <2> QED
      BY <1>1, <2>1 DEF Fail
  <1>3. /\ input # <<>>
        /\ h.size \in 0 .. Len(input)
        /\ length \in 0 .. (SizeMod - 1)
        /\ ItemLength(input) = Len(input) - h.size + length
    BY <1>2, HeaderExact
  <1> HIDE DEF h, length, c, r
  <1>4. h.size = length
    <2>1. CASE Ts = <<>>
      BY <1>1, <1>2, <2>1 DEF Ok
    <2>2. CASE Ts # <<>>
      <3>1. r.size = Minus(h.size, length)
        BY <1>1, <1>2, <2>2 DEF Ok
      <3>2. (h.size - length) % SizeMod = 0
        BY <1>1, <3>1 DEF Minus
      <3> DEFINE M == SizeMod
                 x == h.size
      <3>3. M \in Nat \ {0} /\ x \in 0 .. (M - 1) /\ length \in 0 .. (M - 1)
        BY <1>3, Layout
      <3>4. (x - length) % M = 0
        BY <3>2
      <3> HIDE DEF M, x
      <3>5. x - length = M * ((x - length) \div M)
        BY <3>3, <3>4
      <3> DEFINE q == (x - length) \div M
      <3>6. q \in Int
        BY <3>3
      <3>7. x - length = M * q
        BY <3>5
      <3> HIDE DEF q
      <3>8. q >= 1 => M * q >= M
        BY <3>3, <3>6
      <3>9. q <= -1 => M * q <= - M
        BY <3>3, <3>6
      <3>10. q = 0 => M * q = 0
        BY <3>3
      <3>11. x = length
        BY <3>3, <3>6, <3>7, <3>8, <3>9, <3>10
      <3> QED
        BY <3>11 DEF x
    <2> QED
      BY <2>1, <2>2
  <1> QED
    BY <1>3, <1>4

(* The i-th component type of a list type, and its values.                    *)
Component(T, i) == T.of[Part(T, i)]

(* v is a value of the list type T, or the arguments of the types T.of.       *)
IsListValue(T, v) ==
    /\ T.of \in Seq(Types) /\ Len(v) \in Nat /\ v = [i \in 1 .. Len(v) |-> v[i]]
    /\ \A i \in 1 .. Len(v) : /\ Part(T, i) \in DOMAIN T.of
                              /\ v[i] \in Values(Component(T, i))

(* The encodings of the components.                                           *)
Parts(T, v) == [i \in 1 .. Len(v) |-> encoder[Component(T, i)][v[i]]]

(* A component of a value is a value of the component's type.                 *)
LEMMA ComponentIs ==
    ASSUME NEW T, NEW v, IsListValue(T, v), NEW i \in 1 .. Len(v)
    PROVE  /\ Component(T, i) \in Types /\ v[i] \in Values(Component(T, i))
           /\ \A f : Sub(T, f)[Part(T, i)] = f[Component(T, i)]
  <1>1. T.of \in Seq(Types) /\ Part(T, i) \in DOMAIN T.of /\ v[i] \in Values(Component(T, i))
    BY DEF IsListValue
  <1>2. Component(T, i) \in Types
    BY <1>1 DEF Component
  <1> QED
    BY <1>1, <1>2 DEF Sub, Component

(* A list value of a type that occurs is one of these.                        *)
LEMMA ListValues ==
    ASSUME NEW T \in Types, IsList(T), NEW v \in Values(T)
    PROVE  /\ IsListValue(T, v)
           /\ T.k = "array" => Len(v) = T.n
           /\ T.k = "tuple" => Len(v) = Len(T.of)
           /\ \A i \in 1 .. Len(v) : Nesting(Component(T, i)) < Nesting(T)
                                     /\ Nesting(Component(T, i)) \in Nat
  <1> DEFINE n == IF T.k = "array" THEN T.n ELSE IF T.k = "vector" THEN Len(v) ELSE Len(T.of)
  <1>1. n \in Nat /\ v = [i \in 1 .. n |-> v[i]]
    BY ValuesAssumption DEF IsSequence
  <1>2. \A i \in DOMAIN v : v[i] \in Values(T.of[Part(T, i)])
    BY ValuesAssumption
  <1>3. T.of \in Seq(Types) /\ (T.k \in {"array", "vector"} => Len(T.of) = 1)
    BY TypesAssumption
  <1>4. T.k \in {"array", "vector", "tuple"} /\ (T.k = "tuple" => n = Len(T.of))
    BY DEF IsList
  <1>5. T.k = "array" => n = T.n
    OBVIOUS
  <1> HIDE DEF n
  <1>6. Len(v) = n /\ DOMAIN v = 1 .. n
    BY <1>1
  <1>7. ASSUME NEW i \in 1 .. Len(v)
        PROVE  Part(T, i) \in DOMAIN T.of
    BY <1>1, <1>3, <1>4, <1>6 DEF Part, IsTuple
  <1>8. IsListValue(T, v)
    BY <1>1, <1>2, <1>3, <1>6, <1>7 DEF IsListValue, Component
  <1>9. ASSUME NEW i \in 1 .. Len(v)
        PROVE  Nesting(Component(T, i)) < Nesting(T) /\ Nesting(Component(T, i)) \in Nat
    BY <1>7, ComponentTypes DEF Component
  <1> QED
    BY <1>4, <1>5, <1>6, <1>8, <1>9

(* The payload of a list.                                                     *)
LEMMA FlattenedIs ==
    ASSUME NEW T, NEW v, IsListValue(T, v),
           \A i \in 1 .. Len(v) : encoder[Component(T, i)][v[i]] \in Seq(Byte)
    PROVE  /\ Len(v) \in Nat
           /\ Parts(T, v) \in [1 .. Len(v) -> Seq(Byte)]
           /\ \E f : /\ Flattens(f, Parts(T, v), Len(v))
                     /\ flattened(T, Sub(T, encoder), v) = f[Len(v)]
           /\ flattened(T, Sub(T, encoder), v) \in Seq(Byte)
  <1>1. Len(v) \in Nat /\ v = [i \in 1 .. Len(v) |-> v[i]]
    BY DEF IsListValue
  <1>2. Parts(T, v) \in [1 .. Len(v) -> Seq(Byte)]
    BY DEF Parts
  <1>3. flattened(T, Sub(T, encoder), v) = FlattenSeq(Parts(T, v))
    <2>1. DOMAIN v = 1 .. Len(v)
      BY <1>1
    <2>2. \A i \in 1 .. Len(v) : Sub(T, encoder)[Part(T, i)] = encoder[Component(T, i)]
      BY ComponentIs
    <2>3. [i \in DOMAIN v |-> Sub(T, encoder)[Part(T, i)][v[i]]] = Parts(T, v)
      BY <2>1, <2>2, Zenon DEF Parts
    <2> QED
      BY <2>3, Zenon DEF flattened
  <1>4. PICK f : Flattens(f, Parts(T, v), Len(v)) /\ FlattenSeq(Parts(T, v)) = f[Len(v)]
    BY <1>1, <1>2, FlattenSeqIs
  <1>5. f[Len(v)] \in Seq(Byte)
    BY <1>1, <1>4 DEF Flattens
  <1> QED
    BY <1>1, <1>2, <1>3, <1>4, <1>5

-----------------------------------------------------------------------------
(* The bytes of a value without its own header, and that header.              *)
Payload(T, v) == IF IsTuple(T) THEN flattened(T, Sub(T, encoder), v)
                               ELSE to_byte_string(T, Sub(T, encoder), v)

(* The header that is put before a payload.                                   *)
Kind(T) == IF IsTuple(T) THEN <<"Multiple", ListHead, LongList>>
                         ELSE <<"Single", StringHead, LongString>>

(* A byte that is its own encoding gets none.                                 *)
Bare(T, v) == ~ IsTuple(T) /\ Len(Payload(T, v)) = 1 /\ Payload(T, v)[1] < StringHead

(* What encode makes of one value, or of the arguments as a tuple.            *)
Encoded(T, v) == encode_item(T, Sub(T, encoder), v)

(* An encoding is the payload, behind a header unless it needs none.          *)
LEMMA EncodedIs ==
    ASSUME NEW T, NEW v
    PROVE  Encoded(T, v) = IF Bare(T, v) THEN Payload(T, v)
                             ELSE prefix(Kind(T)[2], Kind(T)[3], Payload(T, v))
  BY DEF Encoded, encode_item, encode_single, Payload, Bare, Kind, prefix_multiple_length

(* The table of instances holds the encodings.                                *)
LEMMA EncoderOf ==
    ASSUME NEW T \in Types, NEW v \in Values(T)
    PROVE  encoder[T][v] = Encoded(T, v)
  BY EncoderIs DEF Encoding, Encoded

(* There are two kinds of headers.                                            *)
LEMMA KindIsHead == \A T : Kind(T) \in Heads
  BY DEF Kind, Heads

(* Concatenation adds lengths.                                                *)
LEMMA ConcatLength ==
    ASSUME NEW a \in Seq(Int), NEW b \in Seq(Int)
    PROVE  /\ a \o b \in Seq(Int) /\ Len(a \o b) = Len(a) + Len(b)
           /\ Len(a) \in Nat /\ Len(b) \in Nat
  OBVIOUS

(* A payload is shorter than what prefix makes of it.                         *)
LEMMA PrefixLength ==
    ASSUME NEW bs \in Seq(Int), NEW kind \in Heads
    PROVE  /\ prefix(kind[2], kind[3], bs) \in Seq(Int)
           /\ Len(bs) \in Nat /\ Len(prefix(kind[2], kind[3], bs)) \in Nat
           /\ Len(bs) < Len(prefix(kind[2], kind[3], bs))
  <1> DEFINE L == Len(bs)
             lb == big_endian(L)
  <1>1. L \in Nat /\ kind[2] \in Int /\ kind[3] \in Int
    BY HeadsAre, Layout
  <1>2. CASE L <= Short
    <2> DEFINE c == <<kind[2] + L>>
    <2>1. c \in Seq(Int) /\ Len(c) = 1
      BY <1>1
    <2>2. prefix(kind[2], kind[3], bs) = c \o bs
      BY <1>2 DEF prefix
    <2> HIDE DEF c
    <2>3. c \o bs \in Seq(Int) /\ Len(c \o bs) = 1 + L
      BY <2>1, ConcatLength
    <2> QED
      BY <1>1, <2>2, <2>3
  <1>3. CASE ~ (L <= Short)
    <2> DEFINE c == <<kind[3] + Len(lb)>>
    <2>1. lb \in Seq(Byte)
      BY <1>1, BigEndian
    <2>2. lb \in Seq(Int)
      BY <2>1, Layout DEF Byte
    <2>3. c \in Seq(Int) /\ Len(c) = 1
      BY <1>1, <2>1
    <2>4. prefix(kind[2], kind[3], bs) = (c \o lb) \o bs
      BY <1>3 DEF prefix
    <2> HIDE DEF c, lb
    <2>5. c \o lb \in Seq(Int) /\ Len(c \o lb) = 1 + Len(lb) /\ Len(lb) \in Nat
      BY <2>2, <2>3, ConcatLength
    <2>6. /\ (c \o lb) \o bs \in Seq(Int)
          /\ Len((c \o lb) \o bs) = (1 + Len(lb)) + L
      BY <2>5, ConcatLength
    <2> QED
      BY <1>1, <2>4, <2>5, <2>6
  <1> QED
    BY <1>2, <1>3

(* The encoding of a payload: it is the payload behind a header of h bytes,   *)
(* none when a byte is its own encoding, and not empty.                       *)
LEMMA EncodedTyped ==
    ASSUME NEW T, NEW v, Payload(T, v) \in Seq(Byte), Len(Encoded(T, v)) < SizeMod
    PROVE  /\ Encoded(T, v) \in Seq(Byte)
           /\ Len(Encoded(T, v)) \in Nat \ {0}
           /\ Len(Payload(T, v)) \in Nat /\ Len(Payload(T, v)) < SizeMod
           /\ Len(Payload(T, v)) <= Len(Encoded(T, v))
  <1>1. CASE Bare(T, v)
    <2>1. Encoded(T, v) = Payload(T, v) /\ Len(Payload(T, v)) = 1
      BY <1>1, EncodedIs DEF Bare
    <2> QED
      BY <2>1
  <1>2. CASE ~ Bare(T, v)
    <2> DEFINE kind == Kind(T)
               p == Payload(T, v)
               e == prefix(kind[2], kind[3], p)
    <2>1. kind \in Heads /\ Encoded(T, v) = e /\ p \in Seq(Byte) /\ Len(e) < SizeMod
      BY <1>2, EncodedIs, KindIsHead
    <2> HIDE DEF kind, p
    <2>2. Len(p) < SizeMod
      <3>1. p \in Seq(Int)
        BY <2>1, Layout DEF Byte
      <3>2. Len(p) \in Nat /\ Len(e) \in Nat /\ Len(p) < Len(e)
        BY <2>1, <3>1, PrefixLength
      <3> HIDE DEF e
      <3> QED
        BY <2>1, <3>2, Layout
    <2>3. e \in Seq(Byte) /\ Len(e) = Len(HeaderOf(kind, Len(p))) + Len(p)
          /\ Len(HeaderOf(kind, Len(p))) \in 1 .. (1 + LenLen)
      BY <2>1, <2>2, PrefixIs
    <2>4. Len(p) \in Nat
      BY <2>1
    <2> HIDE DEF e
    <2>5. Len(e) \in Nat \ {0} /\ Len(p) <= Len(e)
      BY <2>3, <2>4, Layout
    <2> QED
      BY <2>1, <2>2, <2>3, <2>4, <2>5 DEF p
  <1> QED
    BY <1>1, <1>2

(* The payload of a value whose components are encoded as bytes consists of   *)
(* bytes.                                                                     *)
LEMMA PayloadTyped ==
    ASSUME NEW T \in Types, NEW v \in Values(T),
           IsList(T) => /\ flattened(T, Sub(T, encoder), v) \in Seq(Byte)
    PROVE  /\ Payload(T, v) \in Seq(Byte)
           /\ IsList(T) => Len(flattened(T, Sub(T, encoder), v)) < SizeMod
  <1> DEFINE p == Payload(T, v)
             f == flattened(T, Sub(T, encoder), v)
  <1>1. Len(Encoded(T, v)) < SizeMod
    BY SizeAssumption, EncoderOf
  <1>2. T.k \in {"bytes", "fixed", "uint", "uint256", "array", "vector", "tuple"} /\ T.n \in Nat
    BY TypesAssumption
  <1>3. CASE T.k = "bytes" \/ T.k = "fixed"
    <2>1. v \in Seq(Byte)
      BY <1>2, <1>3, ValuesAssumption
    <2>2. p = v
      BY <1>3 DEF Payload, to_byte_string, IsTuple
    <2> QED
      BY <1>3, <2>1, <2>2 DEF IsList
  <1>4. CASE T.k = "uint" \/ T.k = "uint256"
    <2>1. v \in Nat
      BY <1>4, ValuesAssumption
    <2>2. p = big_endian(v)
      BY <1>4 DEF Payload, to_byte_string, IsTuple
    <2> QED
      BY <1>4, <2>1, <2>2, BigEndian DEF IsList
  <1>5. CASE T.k = "array" \/ T.k = "vector"
    <2> DEFINE kind == <<"Multiple", ListHead, LongList>>
    <2>1. /\ kind \in Heads /\ f \in Seq(Byte) /\ ~ IsTuple(T)
          /\ p = prefix(kind[2], kind[3], f)
      BY <1>5 DEF Payload, to_byte_string, IsTuple, IsList, prefix_multiple_length, Heads
    <2> HIDE DEF kind, f, p
    <2>2. f \in Seq(Int)
      BY <2>1, Layout DEF Byte
    <2>3. p \in Seq(Int) /\ Len(f) \in Nat /\ Len(p) \in Nat /\ Len(f) < Len(p)
      BY <2>1, <2>2, PrefixLength
    <2>4. Len(p) < SizeMod
      <3>1. CASE Bare(T, v)
        BY <1>1, <3>1, EncodedIs DEF p
      <3>2. CASE ~ Bare(T, v)
        <4> DEFINE e == prefix(Kind(T)[2], Kind(T)[3], p)
        <4>1. Encoded(T, v) = e
          BY <3>2, EncodedIs DEF p
        <4>2. Len(p) < Len(e) /\ Len(e) \in Nat
          BY <2>3, KindIsHead, PrefixLength
        <4> HIDE DEF e
        <4> QED
          BY <1>1, <2>3, <4>1, <4>2, Layout
      <3> QED
        BY <3>1, <3>2
    <2>5. Len(f) < SizeMod
      BY <2>3, <2>4, Layout
    <2>6. p \in Seq(Byte)
      BY <2>1, <2>5, PrefixIs
    <2> QED
      BY <2>5, <2>6 DEF f, p
  <1>6. CASE T.k = "tuple"
    <2>1. p = f /\ f \in Seq(Byte)
      BY <1>6 DEF Payload, IsTuple, IsList
    <2>2. Len(p) < SizeMod
      BY <1>1, <2>1, EncodedTyped
    <2> QED
      BY <2>1, <2>2
  <1> QED
    BY <1>2, <1>3, <1>4, <1>5, <1>6

(* Every encoding of a value that occurs consists of bytes and has a length   *)
(* that is a size_t, and so has its payload.                                  *)
LEMMA EncodingTyped ==
    ASSUME NEW T \in Types, NEW v \in Values(T)
    PROVE  /\ encoder[T][v] \in Seq(Byte)
           /\ encoder[T][v] = Encoded(T, v)
           /\ Len(encoder[T][v]) \in Nat \ {0} /\ Len(encoder[T][v]) < SizeMod
           /\ Payload(T, v) \in Seq(Byte)
           /\ Len(Payload(T, v)) \in Nat /\ Len(Payload(T, v)) < SizeMod
           /\ Len(Payload(T, v)) <= Len(encoder[T][v])
           /\ IsList(T) => /\ flattened(T, Sub(T, encoder), v) \in Seq(Byte)
                           /\ Len(flattened(T, Sub(T, encoder), v)) < SizeMod
  <1> DEFINE Fine(t) == \A w \in Values(t) :
                 /\ encoder[t][w] \in Seq(Byte)
                 /\ Payload(t, w) \in Seq(Byte)
                 /\ IsList(t) => /\ flattened(t, Sub(t, encoder), w) \in Seq(Byte)
                                 /\ Len(flattened(t, Sub(t, encoder), w)) < SizeMod
             U == {N \in Nat : \A t \in Types : Nesting(t) < N => Fine(t)}
  <1>1. 0 \in U
    BY TypesAssumption
  <1>2. ASSUME NEW N \in U
        PROVE  N + 1 \in U
    <2> SUFFICES ASSUME NEW t \in Types, Nesting(t) < N + 1, NEW w \in Values(t)
                 PROVE  /\ encoder[t][w] \in Seq(Byte)
                        /\ Payload(t, w) \in Seq(Byte)
                        /\ IsList(t) => /\ flattened(t, Sub(t, encoder), w) \in Seq(Byte)
                                        /\ Len(flattened(t, Sub(t, encoder), w)) < SizeMod
      OBVIOUS
    <2>1. IsList(t) => flattened(t, Sub(t, encoder), w) \in Seq(Byte)
      <3> SUFFICES ASSUME IsList(t)
                   PROVE  flattened(t, Sub(t, encoder), w) \in Seq(Byte)
        OBVIOUS
      <3>1. IsListValue(t, w)
        BY ListValues
      <3>2. ASSUME NEW i \in 1 .. Len(w)
            PROVE  encoder[Component(t, i)][w[i]] \in Seq(Byte)
        <4>1. Component(t, i) \in Types /\ w[i] \in Values(Component(t, i))
          BY <3>1, ComponentIs
        <4>2. Nesting(t) \in Nat /\ Nesting(Component(t, i)) \in Nat
              /\ Nesting(Component(t, i)) < Nesting(t)
          BY ListValues, TypesAssumption
        <4>3. Nesting(Component(t, i)) < N
          BY <4>2
        <4> QED
          BY <4>1, <4>3
      <3> QED
        BY <3>1, <3>2, FlattenedIs
    <2>2. /\ Payload(t, w) \in Seq(Byte)
          /\ IsList(t) => Len(flattened(t, Sub(t, encoder), w)) < SizeMod
      BY <2>1, PayloadTyped
    <2>3. encoder[t][w] \in Seq(Byte)
      BY <2>2, SizeAssumption, EncoderOf, EncodedTyped
    <2> QED
      BY <2>1, <2>2, <2>3
  <1> HIDE DEF U
  <1>3. U = Nat
    <2>1. U \in SUBSET Nat
      BY DEF U
    <2> QED
      BY <1>1, <1>2, <2>1, NatSetInduction
  <1>4. Fine(T)
    <2>1. Nesting(T) + 1 \in U /\ Nesting(T) < Nesting(T) + 1
      BY <1>3, TypesAssumption
    <2> QED
      BY <2>1 DEF U
  <1>5. encoder[T][v] = Encoded(T, v) /\ Len(Encoded(T, v)) < SizeMod
    BY EncoderOf, SizeAssumption
  <1> QED
    BY <1>4, <1>5, EncodedTyped

-----------------------------------------------------------------------------
(* decode_impl, by the header h that decode_length read and what the contents *)
(* behind it came to.                                                         *)
Impl(Ts, h, c) ==
    IF h.is = "ok"
      THEN IF h.val[1] # (IF Len(Ts) = 1 /\ ~ IsTuple(Ts[1]) THEN "Single" ELSE "Multiple")
              \/ (Ts = <<>> /\ h.val[2] # 0)
             THEN Fail("threw")
             ELSE IF Ts = <<>>
               THEN Ok(h.data, h.size, <<>>)
               ELSE IF c.is = "ok" THEN Ok(c.data, Minus(h.size, h.val[2]), c.val) ELSE c
      ELSE h

(* A function of triples, as one of three arguments.                          *)
Call(f, x, y, z) == f[<<x, y, z>>]

(* decode_impl is Impl of the header and of what contents makes of the        *)
(* payload.                                                                   *)
LEMMA ImplIs ==
    ASSUME NEW Ts, NEW contents, NEW m, NEW d, NEW s, NEW h, h = decode_length(m, d, s)
    PROVE  decode_impl(Ts, contents, m, d, s)
              = Impl(Ts, h, Call(contents, m, h.data, h.val[2]))
  BY DEF decode_impl, Then, Impl, Call

(* The payload of an encoding that stands at d stands at e, and decode_length *)
(* finds it unless less than need bytes are left.                             *)
Found(T, v, m, d, e, need) ==
    /\ e \in Nat /\ need \in Nat
    /\ At(m, e, Payload(T, v))
    /\ d <= e /\ e + Len(Payload(T, v)) = d + Len(Encoded(T, v))
    /\ e - d <= need /\ need <= Len(Encoded(T, v)) /\ need > 0
    /\ \A s \in Nat : decode_length(m, d, s) =
          IF s < need THEN Fail("threw")
                      ELSE Ok(e, s - (e - d), <<Kind(T)[1], Len(Payload(T, v))>>)

(* So it is with the encoding of every value, wherever it stands.             *)
LEMMA PayloadAt ==
    ASSUME NEW T, NEW v, Payload(T, v) \in Seq(Byte), Len(Encoded(T, v)) < SizeMod,
           NEW m \in Seq(Byte), NEW d \in Nat, At(m, d, Encoded(T, v))
    PROVE  \E e, need : Found(T, v, m, d, e, need)
  <1> DEFINE p == Payload(T, v)
             E == Encoded(T, v)
             L == Len(p)
  <1>1. /\ p \in Seq(Byte) /\ L \in Nat /\ L < SizeMod /\ E \in Seq(Byte)
        /\ Len(E) \in Nat \ {0} /\ L <= Len(E)
    BY EncodedTyped
  <1>2. CASE Bare(T, v)
    <2>1. E = p /\ L = 1 /\ p[1] < StringHead /\ Kind(T)[1] = "Single" /\ ~ IsTuple(T)
      BY <1>2, EncodedIs DEF Bare, Kind
    <2> DEFINE b == p[1]
    <2>2. b \in Byte
      BY <1>1, <2>1
    <2>3. d + 1 <= Len(m) /\ m[d + 1] = b /\ Len(m) \in Nat
      <3>1. 1 \in 1 .. L
        BY <2>1
      <3>2. At(m, d, p)
        BY <2>1
      <3> QED
        BY <2>1, <3>1, <3>2 DEF At
    <2> HIDE DEF p, E, b
    <2>4. b < StringHead /\ b \in Int /\ StringHead \in Int
      BY <2>1, <2>2, Layout DEF Byte, b
    <2>5. ASSUME NEW s \in Nat, s # 0
          PROVE  decode_length(m, d, s) = Ok(d, s, <<"Single", 1>>)
      <3>1. ~ (d >= Len(m))
        BY <2>3
      <3>2. /\ ~ (b \in StringHead .. LongString)
            /\ ~ (b \in (LongString + 1) .. (ListHead - 1))
            /\ ~ (b \in ListHead .. LongList) /\ ~ (b > LongList)
        BY <2>4, Layout
      <3> QED
        BY <2>3, <2>4, <2>5, <3>1, <3>2, LengthByHead
    <2>6. ASSUME NEW s \in Nat
          PROVE  decode_length(m, d, s) =
                    IF s < 1 THEN Fail("threw")
                             ELSE Ok(d, s - (d - d), <<Kind(T)[1], L>>)
      <3>1. CASE s = 0
        BY <3>1 DEF decode_length, next_length
      <3>2. CASE s # 0
        <4>1. ~ (s < 1) /\ s - (d - d) = s
          BY <3>2
        <4> QED
          BY <2>1, <2>5, <3>2, <4>1
      <3> QED
        BY <3>1, <3>2
    <2>7. /\ d <= d /\ d + L = d + Len(E) /\ d - d <= 1 /\ 1 <= Len(E)
          /\ 1 \in Nat /\ 1 > 0
      BY <1>1, <2>1
    <2>8. At(m, d, p)
      BY <2>1 DEF E
    <2>9. Found(T, v, m, d, d, 1)
      BY <2>6, <2>7, <2>8 DEF Found, p, E
    <2> QED
      BY <2>9
  <1>3. CASE ~ Bare(T, v)
    <2> DEFINE kind == Kind(T)
               h == Len(HeaderOf(kind, L))
    <2>1. kind \in Heads /\ E = prefix(kind[2], kind[3], p)
      BY <1>3, EncodedIs, KindIsHead
    <2> HIDE DEF p, E, kind
    <2>2. h \in 1 .. (1 + LenLen) /\ Len(E) = h + L
      BY <1>1, <2>1, PrefixIs
    <2>3. At(m, d, prefix(kind[2], kind[3], p))
      BY <2>1 DEF E
    <2>4. /\ At(m, d + h, p)
          /\ \A s \in Nat : decode_length(m, d, s) =
                IF s < h THEN Fail("threw") ELSE Ok(d + h, s - h, <<kind[1], L>>)
      <3>1. HeaderFound(p, kind, m, d, h)
        BY <1>1, <2>1, <2>3, HeaderRoundTrip
      <3> HIDE DEF h
      <3> QED
        BY <3>1 DEF HeaderFound
    <2> HIDE DEF h
    <2>5. h \in Nat /\ h > 0 /\ d + h \in Nat /\ (d + h) - d = h
      BY <2>2, Layout
    <2>6. /\ d <= d + h /\ (d + h) + L = d + Len(E) /\ (d + h) - d <= h
          /\ h <= Len(E)
      BY <1>1, <2>2, <2>5
    <2>7. \A s \in Nat : decode_length(m, d, s) =
                IF s < h THEN Fail("threw")
                         ELSE Ok(d + h, s - ((d + h) - d), <<Kind(T)[1], L>>)
      BY <2>4, <2>5 DEF kind
    <2>8. Found(T, v, m, d, d + h, h)
      BY <2>4, <2>5, <2>6, <2>7 DEF Found, p, E
    <2> QED
      BY <2>8
  <1> QED
    BY <1>2, <1>3

(* r is the result of decoding an item of n bytes with the value w at d: with *)
(* a wrong size it may throw, but it never stands for anything else.          *)
Passed(r, d, s, n, w) ==
    /\ \/ r = Fail("threw")
       \/ r.is = "ok" /\ r.data = d + n /\ r.size \in Nat /\ r.val = w
    /\ n <= s /\ s < SizeMod => r = Ok(d + n, s - n, w)

(* Hence decode_impl: it throws when less than need bytes are left, or else   *)
(* it yields what the contents stand for and goes on behind the encoding.     *)
LEMMA ItemAt ==
    ASSUME NEW T, NEW v, Payload(T, v) \in Seq(Byte), Len(Encoded(T, v)) < SizeMod,
           NEW m \in Seq(Byte), NEW d \in Nat, At(m, d, Encoded(T, v)),
           NEW Ts, (Len(Ts) = 1 /\ ~ IsTuple(Ts[1])) <=> ~ IsTuple(T),
           NEW w, Ts = <<>> => Payload(T, v) = <<>> /\ w = <<>>,
           NEW contents,
           \A e \in Nat : At(m, e, Payload(T, v)) =>
               Call(contents, m, e, Len(Payload(T, v))) = Ok(e + Len(Payload(T, v)), 0, w)
    PROVE  \A s \in Nat : Passed(decode_impl(Ts, contents, m, d, s),
                                 d, s, Len(Encoded(T, v)), w)
  <1> DEFINE p == Payload(T, v)
             L == Len(p)
             n == Len(Encoded(T, v))
  <1>1. L \in Nat /\ n \in Nat
    BY EncodedTyped
  <1>2. PICK e, need : Found(T, v, m, d, e, need)
    BY PayloadAt
  <1>8. /\ e \in Nat /\ need \in Nat
        /\ d <= e /\ e + L = d + n
        /\ e - d <= need /\ need <= n /\ need > 0
        /\ \A s \in Nat : decode_length(m, d, s) =
              IF s < need THEN Fail("threw") ELSE Ok(e, s - (e - d), <<Kind(T)[1], L>>)
    BY <1>2 DEF Found
  <1>3. Call(contents, m, e, L) = Ok(e + L, 0, w)
    BY <1>2 DEF Found
  <1>4. Ts = <<>> => L = 0 /\ w = <<>>
    OBVIOUS
  <1>5. Kind(T)[1] = IF Len(Ts) = 1 /\ ~ IsTuple(Ts[1]) THEN "Single" ELSE "Multiple"
    BY DEF Kind
  <1> HIDE DEF p, L, n
  <1> SUFFICES ASSUME NEW s \in Nat, NEW r, r = decode_impl(Ts, contents, m, d, s)
               PROVE  /\ \/ r = Fail("threw")
                         \/ r.is = "ok" /\ r.data = d + n /\ r.size \in Nat /\ r.val = w
                      /\ n <= s /\ s < SizeMod => r = Ok(d + n, s - n, w)
    BY DEF n, Passed
  <1>6. CASE s < need
    <2>1. r = Fail("threw")
      BY <1>8, <1>6, ImplIs DEF Impl, Fail
    <2> QED
      BY <1>1, <1>8, <1>6, <2>1
  <1>7. CASE ~ (s < need)
    <2> DEFINE h == Ok(e, s - (e - d), <<Kind(T)[1], L>>)
    <2>1. decode_length(m, d, s) = h
      BY <1>8, <1>7
    <2>2. h.is = "ok" /\ h.data = e /\ h.size = s - (e - d) /\ h.val[1] = Kind(T)[1] /\ h.val[2] = L
      BY DEF Ok
    <2> HIDE DEF h
    <2>3. r = Impl(Ts, h, Call(contents, m, e, L))
      BY <2>1, <2>2, ImplIs
    <2>4. r = Ok(d + n, IF Ts = <<>> THEN s - (e - d) ELSE Minus(s - (e - d), L), w)
      <3>1. CASE Ts = <<>>
        <4>1. L = 0 /\ e = d + n
          BY <1>8, <1>4, <3>1
        <4> QED
          BY <1>4, <1>5, <2>2, <2>3, <3>1, <4>1 DEF Impl
      <3>2. CASE Ts # <<>>
        <4>1. r = Ok(e + L, Minus(s - (e - d), L), w)
          BY <1>3, <1>5, <2>2, <2>3, <3>2 DEF Impl, Ok
        <4> QED
          BY <1>8, <3>2, <4>1
      <3> QED
        BY <3>1, <3>2
    <2>5. s - (e - d) \in Nat /\ (s - (e - d)) - L = s - n
      BY <1>1, <1>8, <1>7
    <2>6. SizeMod \in Nat \ {0}
      BY Layout
    <2>7. Minus(s - (e - d), L) \in Nat
      BY <1>1, <2>5, <2>6 DEF Minus
    <2>8. n <= s /\ s < SizeMod => Minus(s - (e - d), L) = s - n
      <3> SUFFICES ASSUME n <= s, s < SizeMod
                   PROVE  Minus(s - (e - d), L) = s - n
        OBVIOUS
      <3> DEFINE y == s - n
                 M == SizeMod
      <3>1. Minus(s - (e - d), L) = y % M
        BY <2>5 DEF Minus
      <3>2. y \in 0 .. (M - 1) /\ M \in Nat \ {0}
        BY <1>1, <2>6
      <3> HIDE DEF y, M
      <3>3. y % M = y
        BY <3>2
      <3> QED
        BY <3>1, <3>3 DEF y
    <2>9. Ts = <<>> => s - (e - d) = s - n
      BY <1>1, <1>4, <2>5
    <2> QED
      BY <2>4, <2>5, <2>7, <2>8, <2>9 DEF Ok
  <1> QED
    BY <1>6, <1>7

-----------------------------------------------------------------------------
(* One round by what the next item comes to.                                  *)
LEMMA RoundIs ==
    ASSUME NEW next, NEW k, NEW r, NEW q, r.is = "ok" => q = Call(next, k, r.data, r.size)
    PROVE  Round(next, k, r) =
              IF r.is = "ok"
                THEN IF q.is = "ok" THEN Ok(q.data, q.size, Append(r.val, q.val)) ELSE q
                ELSE r
  BY DEF Round, Call

(* The values of k + 1 items are those of k items and one more.               *)
LEMMA AppendIs ==
    ASSUME NEW k \in Nat, NEW v
    PROVE  Append([i \in 1 .. k |-> v[i]], v[k + 1]) = [i \in 1 .. (k + 1) |-> v[i]]
  <1> DEFINE a == [i \in 1 .. k |-> v[i]]
             b == [i \in 1 .. (k + 1) |-> v[i]]
             c == Append(a, v[k + 1])
  <1>1. Len(a) = k /\ DOMAIN a = 1 .. k
    OBVIOUS
  <1>2. c = [i \in 1 .. (Len(a) + 1) |-> IF i <= Len(a) THEN a[i] ELSE v[k + 1]]
    <2> HIDE DEF a
    <2> QED
      BY <1>1
  <1>3. \A i \in 1 .. (k + 1) : (IF i <= k THEN a[i] ELSE v[k + 1]) = v[i]
    OBVIOUS
  <1> HIDE DEF a
  <1>4. c = [i \in 1 .. (k + 1) |-> IF i <= k THEN a[i] ELSE v[k + 1]]
    BY <1>1, <1>2
  <1> HIDE DEF c
  <1>5. c = b
    BY <1>3, <1>4, Zenon
  <1> QED
    BY <1>5 DEF a, c

(* After k of N items the bytes f[k] are used up and the first k values read. *)
OneByOne(next, d, s, f, v, N) ==
    \A k \in 0 .. N : /\ Len(f[k]) \in Nat
                      /\ after_items(next, d, s)[k]
                            = Ok(d + Len(f[k]), s - Len(f[k]), [i \in 1 .. k |-> v[i]])

(* Where the encodings ss of items stand one after the other, and next        *)
(* decodes each of them, the rounds use them up one by one.                   *)
LEMMA ItemsAt ==
    ASSUME NEW N \in Nat, NEW ss \in [1 .. N -> Seq(Byte)], NEW f, Flattens(f, ss, N),
           NEW m \in Seq(Byte), NEW d \in Nat, At(m, d, f[N]),
           NEW s \in Nat, Len(f[N]) <= s, s < SizeMod, NEW v, NEW next,
           \A k \in 1 .. N, e \in Nat, t \in Nat :
               At(m, e, ss[k]) /\ Len(ss[k]) <= t /\ t < SizeMod =>
                   Call(next, k, e, t) = Ok(e + Len(ss[k]), t - Len(ss[k]), v[k])
    PROVE  OneByOne(next, d, s, f, v, N)
  <1> DEFINE after == after_items(next, d, s)
             vals(k) == [i \in 1 .. k |-> v[i]]
             Good(k) == /\ Len(f[k]) \in Nat
                        /\ after[k] = Ok(d + Len(f[k]), s - Len(f[k]), vals(k))
             U == {k \in Nat : k <= N => Good(k)}
  <1>1. 0 \in U
    <2>1. after[0] = Ok(d, s, <<>>)
      BY AfterItemsIs
    <2>2. f[0] = <<>> /\ Len(<<>>) = 0
      BY DEF Flattens
    <2>3. vals(0) = <<>>
      OBVIOUS
    <2> HIDE DEF after, vals
    <2>4. Len(f[0]) = 0 /\ d + 0 = d /\ s - 0 = s
      BY <2>2
    <2>5. Good(0)
      BY <2>1, <2>3, <2>4
    <2> QED
      BY <2>5
  <1>2. ASSUME NEW k \in U
        PROVE  k + 1 \in U
    <2> SUFFICES ASSUME k + 1 <= N
                 PROVE  Good(k + 1)
      OBVIOUS
    <2>1. k \in Nat /\ k \in 0 .. (N - 1) /\ k + 1 \in 1 .. N
      OBVIOUS
    <2>2. after[k] = Ok(d + Len(f[k]), s - Len(f[k]), vals(k))
      BY <2>1
    <2>3. /\ Len(f[k]) \in Nat /\ Len(f[k + 1]) \in Nat /\ Len(ss[k + 1]) \in Nat
          /\ Len(f[k + 1]) = Len(f[k]) + Len(ss[k + 1])
          /\ Len(f[k + 1]) <= Len(f[N])
          /\ At(m, d + Len(f[k]), ss[k + 1])
      BY <2>1, AtFlattened
    <2> DEFINE x == Len(f[k])
               y == Len(ss[k + 1])
               z == Len(f[N])
    <2>4. z \in Nat
      <3>1. f[N] \in Seq(Byte)
        BY DEF Flattens
      <3> QED
        BY <3>1
    <2>5. after[k + 1] = Round(next, k + 1, after[k])
      BY <2>1, AfterItemsIs
    <2>6. Append(vals(k), v[k + 1]) = vals(k + 1)
      BY <2>1, AppendIs
    <2> HIDE DEF after, vals
    <2>7. x \in Nat /\ y \in Nat /\ Len(f[k + 1]) = x + y /\ x + y <= z
      BY <2>3
    <2>8. At(m, d + x, ss[k + 1])
      BY <2>3
    <2>9. after[k] = Ok(d + x, s - x, vals(k))
      BY <2>2
    <2>10. z <= s
      OBVIOUS
    <2> HIDE DEF x, z
    <2>11. d + x \in Nat /\ s - x \in Nat /\ y <= s - x /\ s - x < SizeMod
      <3> HIDE DEF y
      <3>1. d + x \in Nat /\ s - x \in Nat /\ y <= s - x /\ s - x <= s
        BY <2>4, <2>7, <2>10
      <3>2. SizeMod \in Nat
        BY Layout
      <3> QED
        BY <3>1, <3>2
    <2>12. Call(next, k + 1, d + x, s - x) = Ok((d + x) + y, (s - x) - y, v[k + 1])
      BY <2>1, <2>8, <2>11
    <2> HIDE DEF y
    <2>13. after[k + 1] = Ok((d + x) + y, (s - x) - y, vals(k + 1))
      <3> DEFINE q == Ok((d + x) + y, (s - x) - y, v[k + 1])
                 r == after[k]
      <3>1. r.is = "ok" /\ r.data = d + x /\ r.size = s - x /\ r.val = vals(k)
        BY <2>9 DEF Ok
      <3>2. q = Call(next, k + 1, r.data, r.size)
        BY <2>12, <3>1
      <3>3. q.is = "ok" /\ q.data = (d + x) + y /\ q.size = (s - x) - y /\ q.val = v[k + 1]
        BY DEF Ok
      <3> HIDE DEF q, r
      <3>4. Round(next, k + 1, r) = Ok(q.data, q.size, Append(r.val, q.val))
        BY <3>1, <3>2, <3>3, RoundIs
      <3> QED
        BY <2>5, <2>6, <3>1, <3>3, <3>4 DEF r
    <2>14. (d + x) + y = d + Len(f[k + 1]) /\ (s - x) - y = s - Len(f[k + 1])
           /\ Len(f[k + 1]) \in Nat
      BY <2>7
    <2> QED
      BY <2>13, <2>14
  <1> HIDE DEF U
  <1>3. U = Nat
    <2>1. U \in SUBSET Nat
      BY DEF U
    <2> QED
      BY <1>1, <1>2, <2>1, NatSetInduction
  <1>4. ASSUME NEW k \in 0 .. N
        PROVE  Good(k)
    <2>1. k \in Nat /\ k <= N /\ k \in U
      BY <1>3
    <2> HIDE DEF after, vals
    <2> QED
      BY <2>1 DEF U
  <1> QED
    BY <1>4 DEF OneByOne

-----------------------------------------------------------------------------
(* The instance of decode for T yields every value that occurs, from its      *)
(* payload, wherever that stands, and uses up just that.                      *)
Exact(T) ==
    \A v \in Values(T), m \in Seq(Byte), d \in Nat :
        At(m, d, Payload(T, v)) =>
            Call(decoder[T], m, d, Len(Payload(T, v))) = Ok(d + Len(Payload(T, v)), 0, v)

(* One item of such a type.                                                   *)
LEMMA ExactItem ==
    ASSUME NEW T \in Types, Exact(T), NEW v \in Values(T),
           NEW m \in Seq(Byte), NEW d \in Nat, At(m, d, encoder[T][v])
    PROVE  \A s \in Nat : Passed(decode_impl(<<T>>, decoder[T], m, d, s),
                                 d, s, Len(encoder[T][v]), v)
  <1>1. /\ Payload(T, v) \in Seq(Byte) /\ Len(Encoded(T, v)) < SizeMod
        /\ encoder[T][v] = Encoded(T, v) /\ At(m, d, Encoded(T, v))
    BY EncodingTyped
  <1> DEFINE Ts == <<T>>
  <1>2. ((Len(Ts) = 1 /\ ~ IsTuple(Ts[1])) <=> ~ IsTuple(T)) /\ Ts # <<>>
    OBVIOUS
  <1>3. \A e \in Nat : At(m, e, Payload(T, v)) =>
           Call(decoder[T], m, e, Len(Payload(T, v))) = Ok(e + Len(Payload(T, v)), 0, v)
    BY DEF Exact
  <1> HIDE DEF Ts
  <1>4. \A s \in Nat : Passed(decode_impl(Ts, decoder[T], m, d, s),
                              d, s, Len(Encoded(T, v)), v)
    BY <1>1, <1>2, <1>3, ItemAt
  <1> QED
    BY <1>1, <1>4 DEF Ts

-----------------------------------------------------------------------------
(* What the decoder's table holds for a type.                                 *)
LEMMA CallIs ==
    ASSUME NEW T \in Types, NEW m \in Seq(Byte), NEW d \in Nat, NEW n \in Nat
    PROVE  Call(decoder[T], m, d, n) =
              IF IsTuple(T) THEN decode_tuple(T, Sub(T, decoder), m, d, n)
                            ELSE from_bytes(T, Sub(T, decoder), m, d, n)
  <1>1. decoder[T] = Decoding(T, Sub(T, decoder))
    BY DecoderIs
  <1>2. Call(Decoding(T, Sub(T, decoder)), m, d, n) =
              IF IsTuple(T) THEN decode_tuple(T, Sub(T, decoder), m, d, n)
                            ELSE from_bytes(T, Sub(T, decoder), m, d, n)
    BY DEF Decoding, Call, Place
  <1> QED
    BY <1>1, <1>2

(* The types that are not lists.                                              *)
LEMMA ScalarExact ==
    ASSUME NEW T \in Types, ~ IsList(T)
    PROVE  Exact(T)
  <1> SUFFICES ASSUME NEW v \in Values(T), NEW m \in Seq(Byte), NEW d \in Nat,
                      At(m, d, Payload(T, v))
               PROVE  Call(decoder[T], m, d, Len(Payload(T, v)))
                         = Ok(d + Len(Payload(T, v)), 0, v)
    BY DEF Exact
  <1> DEFINE p == Payload(T, v)
             n == Len(p)
             sub == Sub(T, decoder)
  <1>1. T.k \in {"bytes", "fixed", "uint", "uint256"} /\ ~ IsTuple(T)
    BY TypesAssumption DEF IsList, IsTuple
  <1>2. p \in Seq(Byte) /\ n \in Nat
    BY EncodingTyped
  <1>3. ~ (d + n > Len(m)) /\ SubSeq(m, d + 1, d + n) = p
    BY <1>2, AtRead
  <1>4. Call(decoder[T], m, d, n) = from_bytes(T, sub, m, d, n)
    BY <1>1, <1>2, CallIs
  <1>5. p = to_byte_string(T, Sub(T, encoder), v)
    BY <1>1 DEF Payload
  <1>6. CASE T.k = "bytes"
    <2>1. p = v
      BY <1>5, <1>6 DEF to_byte_string
    <2> HIDE DEF p, sub
    <2>2. from_bytes(T, sub, m, d, n) = Read(m, d, n, LAMBDA bs : bs)
      BY <1>6 DEF from_bytes
    <2>3. from_bytes(T, sub, m, d, n) = Ok(d + n, 0, p)
      BY <1>3, <2>2 DEF Read
    <2> QED
      BY <1>4, <2>1, <2>3 DEF p
  <1>7. CASE T.k = "fixed"
    <2>1. p = v /\ v \in [1 .. T.n -> Byte] /\ T.n \in Nat
      BY <1>5, <1>7, ValuesAssumption, TypesAssumption DEF to_byte_string
    <2>2. n = T.n
      BY <2>1
    <2> HIDE DEF p, sub
    <2>3. from_bytes(T, sub, m, d, n) = Read(m, d, n, LAMBDA bs : bs)
      BY <1>7, <2>2 DEF from_bytes
    <2>4. from_bytes(T, sub, m, d, n) = Ok(d + n, 0, p)
      BY <1>3, <2>3 DEF Read
    <2> QED
      BY <1>4, <2>1, <2>4 DEF p
  <1>8. CASE T.k = "uint"
    <2>1. v \in 0 .. (Pow(Base, T.n) - 1) /\ T.n \in 1 .. LenLen
      BY <1>8, ValuesAssumption, TypesAssumption
    <2> DEFINE M == Pow(Base, T.n)
    <2>2. Base \in Nat \ {0} /\ LenLen \in Nat
      BY Layout
    <2>11. T.n \in Nat /\ T.n <= LenLen
      BY <2>1, <2>2
    <2>3. T.n \in Nat /\ T.n <= LenLen /\ M \in Nat /\ v \in 0 .. (M - 1)
      BY <2>1, <2>2, <2>11, PowIs
    <2>4. v \in Nat /\ v < M
      BY <2>3
    <2>5. p = big_endian(v)
      BY <1>5, <1>8 DEF to_byte_string
    <2>6. n <= T.n /\ Number(p) = v
      BY <2>3, <2>4, <2>5, BigEndian, NumberOfBigEndian
    <2> HIDE DEF p, sub, M
    <2>7. ~ (n > LenLen)
      BY <1>2, <2>2, <2>3, <2>6
    <2>8. from_bytes_size(m, d, n) = Ok(d + n, 0, v)
      BY <1>3, <2>6, <2>7 DEF from_bytes_size, Read
    <2>9. from_bytes(T, sub, m, d, n) = Ok(d + n, 0, v % M)
      BY <1>8, <2>8 DEF from_bytes, Then, M, Ok
    <2>10. v % M = v
      BY <2>3
    <2> QED
      BY <1>4, <2>9, <2>10 DEF p
  <1>9. CASE T.k = "uint256"
    <2> DEFINE M == Pow(Base, WordLen)
    <2>1. Base \in Nat \ {0} /\ WordLen \in Nat
      <3>1. Base \in Nat \ {0}
        BY Layout
      <3>2. WordLen \in Nat
        BY TypesAssumption
      <3> QED
        BY <3>1, <3>2
    <2>2. M \in Nat /\ v \in 0 .. (M - 1)
      BY <1>9, <2>1, PowIs, ValuesAssumption
    <2>3. v \in Nat /\ v < M
      BY <2>2
    <2>4. p = big_endian(v)
      BY <1>5, <1>9 DEF to_byte_string
    <2>5. n <= WordLen /\ Number(p) = v
      BY <2>1, <2>3, <2>4, BigEndian, NumberOfBigEndian
    <2> HIDE DEF p, sub, M
    <2>6. ~ (n > WordLen)
      BY <1>2, <2>1, <2>5
    <2>7. from_bytes(T, sub, m, d, n) = Read(m, d, n, Number)
      BY <1>9, <2>6 DEF from_bytes
    <2>8. Read(m, d, n, Number) = Ok(d + n, 0, v)
      BY <1>3, <2>5 DEF Read
    <2> QED
      BY <1>4, <2>7, <2>8 DEF p
  <1> QED
    BY <1>1, <1>6, <1>7, <1>8, <1>9

-----------------------------------------------------------------------------
(* components of a list is decode_impl of the component types.                *)
LEMMA ComponentCall ==
    ASSUME NEW T, NEW v, IsListValue(T, v), NEW k \in 1 .. Len(v),
           NEW m, NEW e \in Nat, NEW t \in Nat
    PROVE  Call(components(T, Sub(T, decoder), m), k, e, t)
              = decode_impl(<<Component(T, k)>>, decoder[Component(T, k)], m, e, t)
  <1>1. Sub(T, decoder)[Part(T, k)] = decoder[Component(T, k)]
    BY ComponentIs
  <1>2. k \in Nat \ {0}
    BY DEF IsListValue
  <1>3. Call(components(T, Sub(T, decoder), m), k, e, t)
           = decode_impl(<<T.of[Part(T, k)]>>, Sub(T, decoder)[Part(T, k)], m, e, t)
    BY <1>2 DEF components, Call
  <1> QED
    BY <1>1, <1>3 DEF Component

(* The components of a list, where their encodings stand.                     *)
ListRead(T, v, m, d, s, f) ==
    /\ Flattens(f, Parts(T, v), Len(v))
    /\ flattened(T, Sub(T, encoder), v) = f[Len(v)]
    /\ OneByOne(components(T, Sub(T, decoder), m), d, s, f, v, Len(v))

(* So it is with every list whose components are exact.                       *)
LEMMA ListAt ==
    ASSUME NEW T, NEW v, IsListValue(T, v), \A i \in 1 .. Len(v) : Exact(Component(T, i)),
           NEW m \in Seq(Byte), NEW d \in Nat, At(m, d, flattened(T, Sub(T, encoder), v)),
           NEW s \in Nat, Len(flattened(T, Sub(T, encoder), v)) <= s, s < SizeMod
    PROVE  \E f : ListRead(T, v, m, d, s, f)
  <1> DEFINE N == Len(v)
             ss == Parts(T, v)
             next == components(T, Sub(T, decoder), m)
  <1>1. \A i \in 1 .. N : encoder[Component(T, i)][v[i]] \in Seq(Byte)
    BY ComponentIs, EncodingTyped
  <1>2. N \in Nat /\ ss \in [1 .. N -> Seq(Byte)]
    BY <1>1, FlattenedIs
  <1>3. PICK f : Flattens(f, ss, N) /\ flattened(T, Sub(T, encoder), v) = f[N]
    BY <1>1, FlattenedIs
  <1>4. ASSUME NEW k \in 1 .. N, NEW e \in Nat, NEW t \in Nat,
               At(m, e, ss[k]), Len(ss[k]) <= t, t < SizeMod
        PROVE  Call(next, k, e, t) = Ok(e + Len(ss[k]), t - Len(ss[k]), v[k])
    <2> DEFINE C == Component(T, k)
    <2>1. C \in Types /\ v[k] \in Values(C) /\ Exact(C)
      BY ComponentIs
    <2>2. ss[k] = encoder[C][v[k]]
      BY DEF Parts
    <2>3. Call(next, k, e, t) = decode_impl(<<C>>, decoder[C], m, e, t)
      BY ComponentCall
    <2> HIDE DEF C, next, ss
    <2>4. Passed(decode_impl(<<C>>, decoder[C], m, e, t), e, t, Len(encoder[C][v[k]]), v[k])
      BY <1>4, <2>1, <2>2, ExactItem
    <2> QED
      BY <1>4, <2>2, <2>3, <2>4 DEF Passed
  <1>5. At(m, d, f[N]) /\ Len(f[N]) <= s
    BY <1>3
  <1> HIDE DEF N, ss, next
  <1>6. OneByOne(next, d, s, f, v, N)
    BY <1>2, <1>3, <1>4, <1>5, ItemsAt
  <1>7. ListRead(T, v, m, d, s, f)
    BY <1>3, <1>6 DEF ListRead, N, ss, next
  <1> QED
    BY <1>7

(* After all of them nothing is left.                                         *)
LEMMA ListUsed ==
    ASSUME NEW T, NEW v, IsListValue(T, v), \A i \in 1 .. Len(v) : Exact(Component(T, i)),
           NEW m \in Seq(Byte), NEW d \in Nat, At(m, d, flattened(T, Sub(T, encoder), v)),
           NEW s \in Nat, Len(flattened(T, Sub(T, encoder), v)) = s, s < SizeMod
    PROVE  after_items(components(T, Sub(T, decoder), m), d, s)[Len(v)] = Ok(d + s, 0, v)
  <1>1. PICK f : ListRead(T, v, m, d, s, f)
    BY ListAt
  <1>2. Len(v) \in Nat /\ v = [i \in 1 .. Len(v) |-> v[i]]
    BY DEF IsListValue
  <1> DEFINE N == Len(v)
             r == after_items(components(T, Sub(T, decoder), m), d, s)[N]
  <1>3. N \in 0 .. N
    BY <1>2
  <1>4. r = Ok(d + Len(f[N]), s - Len(f[N]), [i \in 1 .. N |-> v[i]]) /\ Len(f[N]) = s
    BY <1>1, <1>3 DEF ListRead, OneByOne
  <1>5. s - s = 0
    OBVIOUS
  <1> HIDE DEF r
  <1>6. r = Ok(d + s, 0, v)
    BY <1>2, <1>4, <1>5
  <1> QED
    BY <1>6 DEF r

-----------------------------------------------------------------------------
(* The loop over a vector ends after as many rounds as it has elements: every *)
(* one takes at least a byte off contained_length.                            *)
LEMMA VectorItems ==
    ASSUME NEW T, NEW v, IsListValue(T, v), \A i \in 1 .. Len(v) : Exact(Component(T, i)),
           NEW m \in Seq(Byte), NEW d \in Nat, At(m, d, flattened(T, Sub(T, encoder), v)),
           NEW s \in Nat, Len(flattened(T, Sub(T, encoder), v)) = s, s < SizeMod
    PROVE  vector_items(T, Sub(T, decoder), m, d, s) = Ok(d + s, 0, v)
  <1> DEFINE N == Len(v)
             after == after_items(components(T, Sub(T, decoder), m), d, s)
             ended(k) == after[k].is # "ok" \/ after[k].size = 0
             rounds == (Len(m) + 1) * SizeMod
             first(k) == ended(k) /\ \A j \in 0 .. (k - 1) : ~ ended(j)
             ss == Parts(T, v)
  <1>1. PICK f : ListRead(T, v, m, d, s, f)
    BY ListAt
  <1>2. /\ Flattens(f, ss, N) /\ Len(f[N]) = s /\ At(m, d, f[N])
        /\ OneByOne(components(T, Sub(T, decoder), m), d, s, f, v, N)
    BY <1>1 DEF ListRead
  <1>3. after[N] = Ok(d + s, 0, v)
    BY ListUsed
  <1>4. \A i \in 1 .. N : encoder[Component(T, i)][v[i]] \in Seq(Byte)
    BY ComponentIs, EncodingTyped
  <1>5. N \in Nat /\ ss \in [1 .. N -> Seq(Byte)]
    BY <1>4, FlattenedIs
  <1>6. \A i \in 1 .. N : ss[i] = encoder[Component(T, i)][v[i]]
    BY DEF Parts
  <1>7. \A i \in 1 .. N : Len(ss[i]) \in Nat \ {0}
    BY <1>6, ComponentIs, EncodingTyped
  <1>8. \A k \in 0 .. N : /\ Len(f[k]) \in Nat
                          /\ after[k] = Ok(d + Len(f[k]), s - Len(f[k]), [i \in 1 .. k |-> v[i]])
    BY <1>2 DEF OneByOne
  <1> HIDE DEF N, after, ss
  <1>9. ASSUME NEW k \in 0 .. (N - 1)
        PROVE  Len(f[k + 1]) = Len(f[k]) + Len(ss[k + 1]) /\ Len(f[k + 1]) <= Len(f[N])
    <2>1. /\ Len(f[k]) \in Nat /\ Len(f[k + 1]) \in Nat /\ Len(ss[k + 1]) \in Nat
          /\ Len(f[k + 1]) = Len(f[k]) + Len(ss[k + 1])
          /\ Len(f[k + 1]) <= Len(f[N])
          /\ At(m, d + Len(f[k]), ss[k + 1])
      BY <1>2, <1>5, AtFlattened
    <2> QED
      BY <2>1
  <1>10. ASSUME NEW k \in 0 .. (N - 1)
         PROVE  ~ ended(k)
    <2>1. k \in 0 .. N /\ k + 1 \in 1 .. N
      BY <1>5
    <2> DEFINE x == Len(f[k])
               y == Len(ss[k + 1])
    <2>2. x \in Nat /\ y \in Nat \ {0} /\ x + y <= s
      BY <1>2, <1>7, <1>8, <1>9, <2>1
    <2>3. after[k] = Ok(d + x, s - x, [i \in 1 .. k |-> v[i]])
      BY <1>8, <2>1
    <2> HIDE DEF x, y
    <2>4. s - x # 0
      BY <2>2
    <2> QED
      BY <2>3, <2>4 DEF Ok
  <1>11. ended(N)
    BY <1>3 DEF Ok
  <1>12. N <= s
    <2> DEFINE W == {k \in Nat : k <= N => k <= Len(f[k])}
    <2>1. 0 \in W
      BY <1>5, <1>8
    <2>2. ASSUME NEW k \in W
          PROVE  k + 1 \in W
      <3> SUFFICES ASSUME k + 1 <= N
                   PROVE  k + 1 <= Len(f[k + 1])
        OBVIOUS
      <3>1. k \in 0 .. (N - 1) /\ k \in 0 .. N /\ k + 1 \in 1 .. N /\ k <= Len(f[k])
        BY <1>5
      <3>2. Len(f[k + 1]) = Len(f[k]) + Len(ss[k + 1]) /\ Len(f[k]) \in Nat
            /\ Len(ss[k + 1]) \in Nat \ {0}
        BY <1>7, <1>8, <1>9, <3>1
      <3> DEFINE x == Len(f[k])
                 y == Len(ss[k + 1])
                 z == Len(f[k + 1])
      <3>3. z = x + y /\ x \in Nat /\ y \in Nat \ {0} /\ k <= x /\ k \in Nat
        BY <3>1, <3>2
      <3> HIDE DEF x, y, z
      <3>4. k + 1 <= z
        BY <3>3
      <3> QED
        BY <3>4 DEF z
    <2> HIDE DEF W
    <2>3. W = Nat
      <3>1. W \in SUBSET Nat
        BY DEF W
      <3> QED
        BY <2>1, <2>2, <3>1, NatSetInduction
    <2> QED
      BY <1>2, <1>5, <2>3 DEF W
  <1>13. N \in 0 .. rounds
    <2> DEFINE l == Len(m)
               M == SizeMod
    <2>1. s <= l /\ l \in Nat
      BY <1>2 DEF At
    <2>2. M \in Nat \ {0}
      BY Layout
    <2> HIDE DEF l, M
    <2>3. (l + 1) * M >= l + 1
      <3>1. (l + 1) * M = (l + 1) * (M - 1) + (l + 1)
        BY <2>1, <2>2
      <3>2. (l + 1) * (M - 1) \in Nat
        BY <2>1, <2>2
      <3> QED
        BY <2>1, <3>1, <3>2
    <2>4. (l + 1) * M \in Nat
      BY <2>1, <2>2
    <2>5. N \in 0 .. ((l + 1) * M)
      BY <1>5, <1>12, <2>1, <2>3, <2>4
    <2> QED
      BY <2>5 DEF l, M
  <1>14. rounds \in Nat
    BY Layout
  <1>15. vector_items(T, Sub(T, decoder), m, d, s) = after[CHOOSE k \in 0 .. rounds : first(k)]
    BY DEF vector_items, after
  <1> HIDE DEF ended, rounds
  <1>16. first(N)
    BY <1>10, <1>11
  <1>17. ASSUME NEW k \in 0 .. rounds, first(k)
         PROVE  k = N
    <2>1. k \in Nat
      BY <1>14
    <2>2. ~ (k < N)
      <3> SUFFICES ASSUME k < N
                   PROVE  FALSE
        OBVIOUS
      <3>1. k \in 0 .. (N - 1)
        BY <1>5, <2>1
      <3> QED
        BY <1>10, <1>17, <3>1
    <2>3. ~ (N < k)
      <3> SUFFICES ASSUME N < k
                   PROVE  FALSE
        OBVIOUS
      <3>1. N \in 0 .. (k - 1)
        BY <1>5, <2>1
      <3> QED
        BY <1>11, <1>17, <3>1
    <2> QED
      BY <1>5, <2>1, <2>2, <2>3
  <1> HIDE DEF first
  <1>18. (CHOOSE k \in 0 .. rounds : first(k)) = N
    BY <1>13, <1>16, <1>17
  <1> QED
    BY <1>3, <1>15, <1>18

(* The second header of an array or vector.                                   *)
LEMMA ListPayload ==
    ASSUME NEW T, NEW v, ~ IsTuple(T), T.k \in {"array", "vector"},
           NEW flat \in Seq(Byte), flat = flattened(T, Sub(T, encoder), v), Len(flat) < SizeMod,
           NEW m \in Seq(Byte), NEW d \in Nat, At(m, d, Payload(T, v))
    PROVE  \E e \in Nat :
              /\ At(m, e, flat) /\ Len(flat) \in Nat
              /\ e + Len(flat) = d + Len(Payload(T, v))
              /\ decode_length(m, d, Len(Payload(T, v)))
                    = Ok(e, Len(flat), <<"Multiple", Len(flat)>>)
  <1> DEFINE kind == <<"Multiple", ListHead, LongList>>
             p == Payload(T, v)
             L == Len(flat)
             h == Len(HeaderOf(kind, L))
  <1>1. kind \in Heads /\ kind[1] = "Multiple"
    BY DEF Heads
  <1>2. p = prefix(kind[2], kind[3], flat)
    BY DEF Payload, to_byte_string, prefix_multiple_length
  <1> HIDE DEF kind, p
  <1>3. /\ h \in 1 .. (1 + LenLen) /\ Len(p) = h + L /\ L \in Nat
    BY <1>1, <1>2, PrefixIs
  <1>4. HeaderFound(flat, kind, m, d, h)
    <2>1. At(m, d, prefix(kind[2], kind[3], flat))
      BY <1>2 DEF p
    <2> QED
      BY <1>1, <2>1, HeaderRoundTrip
  <1> HIDE DEF h, L
  <1>5. h \in Nat /\ Len(p) \in Nat /\ ~ (Len(p) < h) /\ Len(p) - h = L /\ d + h \in Nat
        /\ (d + h) + L = d + Len(p)
    BY <1>3, Layout
  <1>6. decode_length(m, d, Len(p)) = Ok(d + h, L, <<"Multiple", L>>)
    BY <1>1, <1>4, <1>5 DEF HeaderFound, L
  <1>7. At(m, d + h, flat)
    BY <1>4 DEF HeaderFound
  <1> QED
    BY <1>3, <1>5, <1>6, <1>7 DEF p, L

(* A list type is exact when the types it is made of are.                     *)
LEMMA ListExact ==
    ASSUME NEW T \in Types, IsList(T),
           \A C \in Types : Nesting(C) < Nesting(T) => Exact(C)
    PROVE  Exact(T)
  <1> SUFFICES ASSUME NEW v \in Values(T), NEW m \in Seq(Byte), NEW d \in Nat,
                      At(m, d, Payload(T, v))
               PROVE  Call(decoder[T], m, d, Len(Payload(T, v)))
                         = Ok(d + Len(Payload(T, v)), 0, v)
    BY DEF Exact
  <1> DEFINE p == Payload(T, v)
             n == Len(p)
             flat == flattened(T, Sub(T, encoder), v)
             sub == Sub(T, decoder)
  <1>1. /\ IsListValue(T, v)
        /\ T.k = "array" => Len(v) = T.n
        /\ T.k = "tuple" => Len(v) = Len(T.of)
    BY ListValues
  <1>2. \A i \in 1 .. Len(v) : Exact(Component(T, i))
    BY <1>1, ListValues, ComponentIs
  <1>3. p \in Seq(Byte) /\ n \in Nat /\ n < SizeMod /\ flat \in Seq(Byte) /\ Len(flat) < SizeMod
    BY EncodingTyped
  <1>4. CASE T.k = "tuple"
    <2>1. IsTuple(T) /\ p = flat
      BY <1>4 DEF IsTuple, Payload
    <2>2. Call(decoder[T], m, d, n) = decode_tuple(T, sub, m, d, n)
      BY <1>3, <2>1, CallIs
    <2>3. after_items(components(T, sub, m), d, n)[Len(v)] = Ok(d + n, 0, v)
      <3>1. At(m, d, flat) /\ Len(flat) = n
        BY <2>1
      <3> HIDE DEF flat, p
      <3> QED
        BY <1>1, <1>2, <1>3, <3>1, ListUsed DEF flat
    <2>4. decode_tuple(T, sub, m, d, n) = Ok(d + n, 0, v)
      <3> HIDE DEF sub, p
      <3> QED
        BY <1>1, <1>4, <2>3 DEF decode_tuple
    <2> QED
      BY <2>2, <2>4
  <1>5. CASE T.k # "tuple"
    <2>1. ~ IsTuple(T) /\ T.k \in {"array", "vector"}
      BY <1>5 DEF IsTuple, IsList
    <2>2. Call(decoder[T], m, d, n) = from_bytes(T, sub, m, d, n)
      BY <1>3, <2>1, CallIs
    <2>3. PICK e \in Nat : /\ At(m, e, flat) /\ Len(flat) \in Nat
                           /\ e + Len(flat) = d + n
                           /\ decode_length(m, d, n) = Ok(e, Len(flat), <<"Multiple", Len(flat)>>)
      BY <1>3, <2>1, ListPayload
    <2> DEFINE L == Len(flat)
    <2>4. after_items(components(T, sub, m), e, L)[Len(v)] = Ok(d + n, 0, v)
      <3> HIDE DEF n, p
      <3>1. L \in Nat /\ L < SizeMod /\ At(m, e, flat) /\ e + L = d + n
        BY <1>3, <2>3
      <3>2. after_items(components(T, sub, m), e, L)[Len(v)] = Ok(e + L, 0, v)
        <4> HIDE DEF L
        <4> QED
          BY <1>1, <1>2, <3>1, ListUsed DEF L
      <3> QED
        BY <3>1, <3>2
    <2>5. vector_items(T, sub, m, e, L) = Ok(d + n, 0, v)
      <3> HIDE DEF n, p
      <3>1. L \in Nat /\ L < SizeMod /\ At(m, e, flat) /\ e + L = d + n
        BY <1>3, <2>3
      <3>2. vector_items(T, sub, m, e, L) = Ok(e + L, 0, v)
        <4> HIDE DEF L
        <4> QED
          BY <1>1, <1>2, <3>1, VectorItems DEF L
      <3> QED
        BY <3>1, <3>2
    <2>6. decode_length(m, d, n) = Ok(e, L, <<"Multiple", L>>)
      BY <2>3
    <2> HIDE DEF sub, p, flat, L
    <2>7. CASE T.k = "array"
      <3>1. from_bytes(T, sub, m, d, n) =
               Then(Then(decode_length(m, d, n),
                         LAMBDA h : after_items(components(T, sub, m), h.data, h.size)[T.n]),
                    LAMBDA r : Ok(r.data, 0, r.val))
        BY <2>7 DEF from_bytes
      <3>2. Then(decode_length(m, d, n),
                 LAMBDA h : after_items(components(T, sub, m), h.data, h.size)[T.n])
               = Ok(d + n, 0, v)
        BY <1>1, <2>4, <2>6, <2>7 DEF Then, Ok
      <3> QED
        BY <2>2, <3>1, <3>2 DEF Then, Ok, p, sub
    <2>8. CASE T.k = "vector"
      <3>1. from_bytes(T, sub, m, d, n) =
               Then(Then(decode_length(m, d, n),
                         LAMBDA h : vector_items(T, sub, m, h.data, h.val[2])),
                    LAMBDA r : Ok(r.data, 0, r.val))
        BY <2>8 DEF from_bytes
      <3>2. Then(decode_length(m, d, n),
                 LAMBDA h : vector_items(T, sub, m, h.data, h.val[2]))
               = Ok(d + n, 0, v)
        BY <2>5, <2>6 DEF Then, Ok
      <3> QED
        BY <2>2, <3>1, <3>2 DEF Then, Ok, p, sub
    <2> QED
      BY <2>1, <2>7, <2>8
  <1> QED
    BY <1>4, <1>5

(* So it is for every type, by induction on how deep it is nested.            *)
LEMMA AllExact == \A T \in Types : Exact(T)
  <1> DEFINE U == {N \in Nat : \A T \in Types : Nesting(T) < N => Exact(T)}
  <1>1. 0 \in U
    BY TypesAssumption
  <1>2. ASSUME NEW N \in U
        PROVE  N + 1 \in U
    <2> SUFFICES ASSUME NEW T \in Types, Nesting(T) < N + 1
                 PROVE  Exact(T)
      OBVIOUS
    <2>1. ASSUME NEW C \in Types, Nesting(C) < Nesting(T)
          PROVE  Exact(C)
      <3>1. Nesting(C) < N
        BY <2>1, TypesAssumption
      <3> QED
        BY <3>1
    <2> QED
      BY <2>1, ListExact, ScalarExact
  <1> HIDE DEF U
  <1>3. U = Nat
    <2>1. U \in SUBSET Nat
      BY DEF U
    <2> QED
      BY <1>1, <1>2, <2>1, NatSetInduction
  <1>4. ASSUME NEW T \in Types
        PROVE  Exact(T)
    <2>1. Nesting(T) + 1 \in U /\ Nesting(T) < Nesting(T) + 1
      BY <1>3, TypesAssumption
    <2> QED
      BY <2>1 DEF U
  <1> QED
    BY <1>4

-----------------------------------------------------------------------------
(* decode_length at d, if it does not throw, finds a list that begins at e.   *)
ListHeaderAt(m, d, e) ==
    \A s \in Nat : decode_length(m, d, s).is = "ok" =>
        /\ decode_length(m, d, s).data = e
        /\ decode_length(m, d, s).size \in Nat
        /\ decode_length(m, d, s).val[1] = "Multiple"
        /\ decode_length(m, d, s).val[2] \in Nat

(* d is behind by the headers of lists between it and b, as many as in K: it  *)
(* is where decode reads, and b is where the encoding of what it reads is.    *)
Lags(m, d, b, K) ==
    \E k \in K, c \in [Nat -> Nat] :
        c[0] = d /\ c[k] = b /\ \A i \in 0 .. (k - 1) : ListHeaderAt(m, c[i], c[i + 1])

(* How many list headers the decoder may lag behind: Nat or at least one.     *)
Positive == Nat \ {0}

(* The decoder may stand where it should.                                     *)
LEMMA NoLag ==
    ASSUME NEW m, NEW b \in Nat
    PROVE  Lags(m, b, b, Nat)
  <1> DEFINE c == [i \in Nat |-> b]
  <1>1. c \in [Nat -> Nat] /\ c[0] = b
    OBVIOUS
  <1> HIDE DEF c
  <1>2. \A i \in 0 .. (0 - 1) : ListHeaderAt(m, c[i], c[i + 1])
    OBVIOUS
  <1> QED
    BY <1>1, <1>2 DEF Lags

(* An encoding whose list header was not read leaves the decoder at least one *)
(* header behind its end.                                                     *)
LEMMA MoreLag ==
    ASSUME NEW m, NEW d, NEW b, NEW e \in Nat, Lags(m, d, b, Nat), ListHeaderAt(m, b, e)
    PROVE  Lags(m, d, e, Positive)
  <1>1. PICK k \in Nat, c \in [Nat -> Nat] :
            c[0] = d /\ c[k] = b /\ \A i \in 0 .. (k - 1) : ListHeaderAt(m, c[i], c[i + 1])
    BY DEF Lags
  <1> DEFINE g == [i \in Nat |-> IF i = k + 1 THEN e ELSE c[i]]
  <1>2. g \in [Nat -> Nat] /\ g[0] = d /\ g[k + 1] = e
    BY <1>1
  <1>3. \A i \in 0 .. k : g[i] = c[i]
    OBVIOUS
  <1> HIDE DEF g
  <1>4. ASSUME NEW i \in 0 .. ((k + 1) - 1)
        PROVE  ListHeaderAt(m, g[i], g[i + 1])
    <2>1. CASE i = k
      BY <1>1, <1>2, <1>3, <2>1
    <2>2. CASE i # k
      <3>1. i \in 0 .. (k - 1) /\ i \in 0 .. k /\ i + 1 \in 0 .. k
        BY <2>2
      <3> QED
        BY <1>1, <1>3, <3>1
    <2> QED
      BY <2>1, <2>2
  <1>5. k + 1 \in Positive
    BY DEF Positive
  <1> QED
    BY <1>2, <1>4, <1>5 DEF Lags

(* A header that the decoder reads while it lags is a list header, and brings *)
(* it one header closer.                                                      *)
LEMMA LessLag ==
    ASSUME NEW m, NEW d, NEW b, Lags(m, d, b, Positive)
    PROVE  \E e \in Nat : ListHeaderAt(m, d, e) /\ Lags(m, e, b, Nat)
  <1>1. PICK k \in Positive, c \in [Nat -> Nat] :
            c[0] = d /\ c[k] = b /\ \A i \in 0 .. (k - 1) : ListHeaderAt(m, c[i], c[i + 1])
    BY DEF Lags
  <1> DEFINE g == [i \in Nat |-> c[i + 1]]
             j == k - 1
  <1>2. j \in Nat /\ j + 1 = k /\ 0 \in 0 .. (k - 1)
    BY DEF Positive
  <1>3. g \in [Nat -> Nat] /\ g[0] = c[1] /\ g[j] = c[j + 1] /\ c[1] \in Nat
    BY <1>2
  <1>4. ASSUME NEW i \in 0 .. (j - 1)
        PROVE  ListHeaderAt(m, g[i], g[i + 1])
    <2>1. i + 1 \in 0 .. (k - 1) /\ g[i] = c[i + 1] /\ g[i + 1] = c[(i + 1) + 1]
      BY <1>2
    <2> HIDE DEF g
    <2> QED
      BY <1>1, <2>1
  <1> HIDE DEF g, j
  <1>5. ListHeaderAt(m, d, c[1])
    <2>1. ListHeaderAt(m, c[0], c[0 + 1])
      BY <1>1, <1>2
    <2> QED
      BY <1>1, <2>1
  <1>6. g[j] = b
    BY <1>1, <1>2, <1>3
  <1>7. Lags(m, c[1], b, Nat)
    BY <1>2, <1>3, <1>4, <1>6 DEF Lags
  <1> QED
    BY <1>3, <1>5, <1>7

(* At least one header behind is behind, and what is behind is at least one   *)
(* header behind or at the place.                                             *)
LEMMA AnyLag ==
    ASSUME NEW m, NEW d, NEW b
    PROVE  /\ Lags(m, d, b, Positive) => Lags(m, d, b, Nat)
           /\ Lags(m, d, b, Nat) => d = b \/ Lags(m, d, b, Positive)
  <1>1. Lags(m, d, b, Positive) => Lags(m, d, b, Nat)
    BY DEF Lags, Positive
  <1>2. ASSUME Lags(m, d, b, Nat), d # b
        PROVE  Lags(m, d, b, Positive)
    <2>1. PICK k \in Nat, c \in [Nat -> Nat] :
              c[0] = d /\ c[k] = b /\ \A i \in 0 .. (k - 1) : ListHeaderAt(m, c[i], c[i + 1])
      BY <1>2 DEF Lags
    <2>2. k \in Positive
      BY <1>2, <2>1 DEF Positive
    <2> QED
      BY <2>1, <2>2 DEF Lags
  <1> QED
    BY <1>1, <1>2

-----------------------------------------------------------------------------
(* r, if it is a value at all, is the value v of an encoding that ends at b,  *)
(* and decode goes on with a lag in K.                                        *)
Carried(r, m, b, v, K) ==
    r.is = "ok" => /\ r.data \in Nat /\ r.size \in Nat
                   /\ r.val = v /\ Lags(m, r.data, b, K)

(* Each of N items is so, however far behind in K decode stands.              *)
EachCarried(N, next, ss, m, v, K) ==
    \A k \in 1 .. N, a \in Nat, e \in Nat, t \in Nat :
        At(m, a, ss[k]) /\ Lags(m, e, a, K) =>
            Carried(Call(next, k, e, t), m, a + Len(ss[k]), v[k], K)

(* Items of which each is so leave a list of values that is so.               *)
LEMMA ItemsCarried ==
    ASSUME NEW N \in Nat, NEW ss \in [1 .. N -> Seq(Byte)], NEW f, Flattens(f, ss, N),
           NEW m \in Seq(Byte), NEW b \in Nat, At(m, b, f[N]),
           NEW d \in Nat, NEW s \in Nat, NEW v, NEW next, NEW K, Lags(m, d, b, K),
           EachCarried(N, next, ss, m, v, K)
    PROVE  Carried(after_items(next, d, s)[N], m, b + Len(f[N]), [i \in 1 .. N |-> v[i]], K)
  <1> DEFINE after == after_items(next, d, s)
             vals(k) == [i \in 1 .. k |-> v[i]]
             Good(k) == Carried(after[k], m, b + Len(f[k]), vals(k), K)
             U == {k \in Nat : k <= N => Good(k)}
  <1>1. 0 \in U
    <2>1. after[0] = Ok(d, s, <<>>)
      BY AfterItemsIs
    <2>2. f[0] = <<>> /\ Len(<<>>) = 0
      BY DEF Flattens
    <2>3. vals(0) = <<>>
      OBVIOUS
    <2> HIDE DEF after, vals
    <2>4. b + Len(f[0]) = b
      BY <2>2
    <2>5. Good(0)
      BY <2>1, <2>3, <2>4 DEF Carried, Ok
    <2> QED
      BY <2>5
  <1>2. ASSUME NEW k \in U
        PROVE  k + 1 \in U
    <2> SUFFICES ASSUME k + 1 <= N
                 PROVE  Good(k + 1)
      OBVIOUS
    <2>1. k \in Nat /\ k \in 0 .. (N - 1) /\ k + 1 \in 1 .. N
      OBVIOUS
    <2>2. Good(k)
      BY <2>1
    <2>3. /\ Len(f[k]) \in Nat /\ Len(f[k + 1]) \in Nat /\ Len(ss[k + 1]) \in Nat
          /\ Len(f[k + 1]) = Len(f[k]) + Len(ss[k + 1])
          /\ Len(f[k + 1]) <= Len(f[N])
          /\ At(m, b + Len(f[k]), ss[k + 1])
      BY <2>1, AtFlattened
    <2>4. after[k + 1] = Round(next, k + 1, after[k])
      BY <2>1, AfterItemsIs
    <2>5. Append(vals(k), v[k + 1]) = vals(k + 1)
      BY <2>1, AppendIs
    <2> DEFINE a == b + Len(f[k])
               y == Len(ss[k + 1])
               r == after[k]
               q == Call(next, k + 1, r.data, r.size)
    <2>6. a \in Nat /\ a + y = b + Len(f[k + 1]) /\ At(m, a, ss[k + 1])
      <3> DEFINE x == Len(f[k])
                 z == Len(f[k + 1])
      <3>1. At(m, b + x, ss[k + 1])
        BY <2>3
      <3>2. x \in Nat /\ y \in Nat /\ z = x + y
        BY <2>3
      <3> HIDE DEF x, y, z
      <3>3. b + x \in Nat /\ (b + x) + y = b + z
        BY <3>2
      <3> QED
        BY <3>1, <3>3 DEF x, z
    <2>7. Carried(r, m, a, vals(k), K)
      BY <2>2
    <2> HIDE DEF after, vals, a, y, r
    <2>8. after[k + 1] = IF r.is = "ok"
                           THEN IF q.is = "ok" THEN Ok(q.data, q.size, Append(r.val, q.val))
                                               ELSE q
                           ELSE r
      BY <2>4 DEF r, Round, Call
    <2>9. r.is = "ok" => Carried(q, m, a + y, v[k + 1], K)
      BY <2>1, <2>6, <2>7 DEF Carried, EachCarried, y
    <2> HIDE DEF q
    <2>10. Carried(after[k + 1], m, a + y, vals(k + 1), K)
      <3>1. CASE r.is = "ok" /\ q.is = "ok"
        <4>1. after[k + 1] = Ok(q.data, q.size, Append(r.val, q.val))
          BY <2>8, <3>1
        <4>2. r.val = vals(k) /\ q.val = v[k + 1]
          BY <2>7, <2>9, <3>1 DEF Carried
        <4>3. after[k + 1] = Ok(q.data, q.size, vals(k + 1))
          BY <2>5, <4>1, <4>2
        <4>4. q.data \in Nat /\ q.size \in Nat /\ Lags(m, q.data, a + y, K)
          BY <2>9, <3>1 DEF Carried
        <4> QED
          BY <4>3, <4>4 DEF Carried, Ok
      <3>2. CASE r.is = "ok" /\ q.is # "ok"
        <4>1. after[k + 1] = q
          BY <2>8, <3>2
        <4> QED
          BY <3>2, <4>1 DEF Carried
      <3>3. CASE r.is # "ok"
        <4>1. after[k + 1] = r
          BY <2>8, <3>3
        <4> QED
          BY <3>3, <4>1 DEF Carried
      <3> QED
        BY <3>1, <3>2, <3>3
    <2> QED
      BY <2>6, <2>10
  <1> HIDE DEF U
  <1>3. U = Nat
    <2>1. U \in SUBSET Nat
      BY DEF U
    <2> QED
      BY <1>1, <1>2, <2>1, NatSetInduction
  <1>4. Good(N)
    <2>1. N \in U /\ N <= N
      BY <1>3
    <2> HIDE DEF after, vals
    <2> QED
      BY <2>1 DEF U
  <1> QED
    BY <1>4

-----------------------------------------------------------------------------
(* Where a tuple is encoded stands a list header, with its components behind. *)
LEMMA TupleHeader ==
    ASSUME NEW T, IsTuple(T), NEW v, Payload(T, v) \in Seq(Byte), Len(Encoded(T, v)) < SizeMod,
           NEW m \in Seq(Byte), NEW d \in Nat, At(m, d, Encoded(T, v))
    PROVE  \E e \in Nat : /\ ListHeaderAt(m, d, e) /\ At(m, e, Payload(T, v))
                          /\ e + Len(Payload(T, v)) = d + Len(Encoded(T, v))
  <1>1. PICK e, need : Found(T, v, m, d, e, need)
    BY PayloadAt
  <1>2. e \in Nat /\ need \in Nat /\ d <= e /\ e - d <= need
    BY <1>1 DEF Found
  <1>3. Kind(T)[1] = "Multiple"
    BY DEF Kind
  <1>4. Len(Payload(T, v)) \in Nat
    OBVIOUS
  <1>5. ASSUME NEW s \in Nat, decode_length(m, d, s).is = "ok"
        PROVE  /\ decode_length(m, d, s).data = e
               /\ decode_length(m, d, s).size \in Nat
               /\ decode_length(m, d, s).val[1] = "Multiple"
               /\ decode_length(m, d, s).val[2] \in Nat
    <2> DEFINE L == Len(Payload(T, v))
               h == decode_length(m, d, s)
    <2>1. h = IF s < need THEN Fail("threw") ELSE Ok(e, s - (e - d), <<Kind(T)[1], L>>)
      BY <1>1 DEF Found
    <2> HIDE DEF L, h
    <2>2. h.is = "ok"
      BY <1>5 DEF h
    <2>3. ~ (s < need)
      BY <2>1, <2>2 DEF Fail
    <2>4. s - (e - d) \in Nat
      BY <1>2, <2>3
    <2>5. h = Ok(e, s - (e - d), <<"Multiple", L>>)
      BY <1>3, <2>1, <2>3
    <2>6. L \in Nat
      BY <1>4 DEF L
    <2>7. h.data = e /\ h.size \in Nat /\ h.val[1] = "Multiple" /\ h.val[2] \in Nat
      BY <2>4, <2>5, <2>6 DEF Ok
    <2> QED
      BY <2>7 DEF h
  <1>6. ListHeaderAt(m, d, e)
    BY <1>5 DEF ListHeaderAt
  <1> QED
    BY <1>1, <1>2, <1>6 DEF Found

(* The instance of decode for a tuple that reads at d, where its encoding is  *)
(* at b, either fails or comes to the value, and is behind by one more header.*)
Lagged(T) ==
    \A v \in Values(T), m \in Seq(Byte), d \in Nat, b \in Nat, s \in Nat :
        At(m, b, encoder[T][v]) /\ Lags(m, d, b, Nat) =>
            Carried(Call(decoder[T], m, d, s), m, b + Len(encoder[T][v]), v, Positive)

(* decode_impl behind the encoding of a component: it throws on what is not a *)
(* tuple, for it finds the header of a list.                                  *)
LEMMA LaggedItem ==
    ASSUME NEW C \in Types, IsTuple(C) => Lagged(C), NEW v \in Values(C),
           NEW m \in Seq(Byte), NEW a \in Nat, NEW d \in Nat, NEW s \in Nat,
           At(m, a, encoder[C][v]), Lags(m, d, a, Positive)
    PROVE  Carried(decode_impl(<<C>>, decoder[C], m, d, s), m, a + Len(encoder[C][v]), v, Positive)
  <1> DEFINE r == decode_impl(<<C>>, decoder[C], m, d, s)
             h == decode_length(m, d, s)
             q == Call(decoder[C], m, h.data, h.val[2])
             Ts == <<C>>
             b == a + Len(encoder[C][v])
  <1>1. PICK e \in Nat : ListHeaderAt(m, d, e) /\ Lags(m, e, a, Nat)
    BY LessLag
  <1>2. r = Impl(Ts, h, q)
    BY ImplIs
  <1>3. h.is = "ok" => h.data = e /\ h.size \in Nat /\ h.val[1] = "Multiple" /\ h.val[2] \in Nat
    BY <1>1 DEF ListHeaderAt
  <1>4. Len(Ts) = 1 /\ Ts[1] = C /\ Ts # <<>>
    OBVIOUS
  <1>5. h.is = "ok" /\ IsTuple(C) => Carried(q, m, b, v, Positive)
    BY <1>1, <1>3 DEF Lagged
  <1> HIDE DEF r, h, q, Ts, b
  <1> SUFFICES ASSUME r.is = "ok"
               PROVE  r.data \in Nat /\ r.size \in Nat /\ r.val = v /\ Lags(m, r.data, b, Positive)
    BY DEF Carried, r, b
  <1>6. h.is = "ok"
    BY <1>2 DEF Impl
  <1>7. IsTuple(C)
    BY <1>2, <1>3, <1>4, <1>6 DEF Impl, Fail
  <1>8. q.is = "ok" /\ r = Ok(q.data, Minus(h.size, h.val[2]), q.val)
    BY <1>2, <1>3, <1>4, <1>6, <1>7 DEF Impl, Fail
  <1>9. q.data \in Nat /\ q.val = v /\ Lags(m, q.data, b, Positive)
    BY <1>5, <1>6, <1>7, <1>8 DEF Carried
  <1>10. Minus(h.size, h.val[2]) \in Nat
    <2>1. h.size \in Nat /\ h.val[2] \in Nat /\ SizeMod \in Nat \ {0}
      BY <1>3, <1>6, Layout
    <2> DEFINE x == h.size - h.val[2]
    <2>2. x \in Int
      BY <2>1
    <2> HIDE DEF x
    <2>3. x % SizeMod \in Nat
      BY <2>1, <2>2
    <2> QED
      BY <2>3 DEF Minus, x
  <1> QED
    BY <1>8, <1>9, <1>10 DEF Ok

(* A tuple type lags when the tuple types it is made of do.                   *)
LEMMA TupleLagged ==
    ASSUME NEW T \in Types, IsTuple(T),
           \A C \in Types : Nesting(C) < Nesting(T) /\ IsTuple(C) => Lagged(C)
    PROVE  Lagged(T)
  <1> SUFFICES ASSUME NEW v \in Values(T), NEW m \in Seq(Byte),
                      NEW d \in Nat, NEW b \in Nat, NEW s \in Nat,
                      At(m, b, encoder[T][v]), Lags(m, d, b, Nat)
               PROVE  Carried(Call(decoder[T], m, d, s), m, b + Len(encoder[T][v]), v, Positive)
    BY DEF Lagged
  <1> DEFINE N == Len(v)
             ss == Parts(T, v)
             next == components(T, Sub(T, decoder), m)
             E == encoder[T][v]
             p == Payload(T, v)
  <1>1. IsList(T) /\ T.k = "tuple"
    BY DEF IsList, IsTuple
  <1>2. IsListValue(T, v) /\ N = Len(T.of)
    BY <1>1, ListValues
  <1>3. /\ E = Encoded(T, v) /\ p \in Seq(Byte) /\ Len(Encoded(T, v)) < SizeMod
        /\ E \in Seq(Byte)
    BY EncodingTyped
  <1>4. PICK e \in Nat : ListHeaderAt(m, b, e) /\ At(m, e, p) /\ e + Len(p) = b + Len(E)
    BY <1>3, TupleHeader
  <1>5. Lags(m, d, e, Positive)
    BY <1>4, MoreLag
  <1>6. \A i \in 1 .. N : encoder[Component(T, i)][v[i]] \in Seq(Byte)
    BY <1>2, ComponentIs, EncodingTyped
  <1>7. N \in Nat /\ ss \in [1 .. N -> Seq(Byte)]
    BY <1>2, <1>6, FlattenedIs
  <1>8. PICK f : Flattens(f, ss, N) /\ flattened(T, Sub(T, encoder), v) = f[N]
    BY <1>2, <1>6, FlattenedIs
  <1>9. p = f[N]
    BY <1>8 DEF Payload
  <1>10. ASSUME NEW k \in 1 .. N, NEW a \in Nat, NEW t \in Nat, NEW z \in Nat,
                At(m, a, ss[k]), Lags(m, t, a, Positive)
         PROVE  Carried(Call(next, k, t, z), m, a + Len(ss[k]), v[k], Positive)
    <2> DEFINE C == Component(T, k)
    <2>1. C \in Types /\ v[k] \in Values(C) /\ (IsTuple(C) => Lagged(C))
      BY <1>1, <1>2, ComponentIs, ListValues
    <2>2. ss[k] = encoder[C][v[k]]
      BY DEF Parts
    <2>3. Call(next, k, t, z) = decode_impl(<<C>>, decoder[C], m, t, z)
      BY <1>2, ComponentCall
    <2> HIDE DEF C, next, ss
    <2>4. Carried(decode_impl(<<C>>, decoder[C], m, t, z), m, a + Len(encoder[C][v[k]]), v[k], Positive)
      BY <1>10, <2>1, <2>2, LaggedItem
    <2> QED
      BY <2>2, <2>3, <2>4
  <1>11. Call(decoder[T], m, d, s) = after_items(next, d, s)[N]
    BY <1>2, CallIs DEF decode_tuple
  <1>12. v = [i \in 1 .. N |-> v[i]]
    BY <1>2 DEF IsListValue
  <1> HIDE DEF N, ss, next, E, p
  <1>13. EachCarried(N, next, ss, m, v, Positive)
    BY <1>10 DEF EachCarried
  <1>14. At(m, e, f[N])
    BY <1>4, <1>9
  <1>15. Carried(after_items(next, d, s)[N], m, e + Len(f[N]), [i \in 1 .. N |-> v[i]], Positive)
    BY <1>5, <1>7, <1>8, <1>13, <1>14, ItemsCarried
  <1>16. e + Len(f[N]) = b + Len(E)
    BY <1>4, <1>9
  <1>17. Carried(Call(decoder[T], m, d, s), m, b + Len(E), v, Positive)
    BY <1>11, <1>12, <1>15, <1>16
  <1> QED
    BY <1>17 DEF E

(* Hence all tuple types do, by induction on how deep they are nested.        *)
LEMMA AllLagged == \A T \in Types : IsTuple(T) => Lagged(T)
  <1> DEFINE U == {N \in Nat : \A T \in Types : Nesting(T) < N /\ IsTuple(T) => Lagged(T)}
  <1>1. 0 \in U
    BY TypesAssumption
  <1>2. ASSUME NEW N \in U
        PROVE  N + 1 \in U
    <2> SUFFICES ASSUME NEW T \in Types, Nesting(T) < N + 1, IsTuple(T)
                 PROVE  Lagged(T)
      OBVIOUS
    <2>1. ASSUME NEW C \in Types, Nesting(C) < Nesting(T), IsTuple(C)
          PROVE  Lagged(C)
      <3>1. Nesting(C) < N
        BY <2>1, TypesAssumption
      <3> QED
        BY <2>1, <3>1
    <2> QED
      BY <2>1, TupleLagged
  <1> HIDE DEF U
  <1>3. U = Nat
    <2>1. U \in SUBSET Nat
      BY DEF U
    <2> QED
      BY <1>1, <1>2, <2>1, NatSetInduction
  <1>4. ASSUME NEW T \in Types, IsTuple(T)
        PROVE  Lagged(T)
    <2>1. Nesting(T) + 1 \in U /\ Nesting(T) < Nesting(T) + 1
      BY <1>3, TypesAssumption
    <2> QED
      BY <1>4, <2>1 DEF U
  <1> QED
    BY <1>4

-----------------------------------------------------------------------------
(* The arguments of a call, as the value of a tuple.                          *)
Argument(Ts, vs) ==
    /\ Ts \in Seq(Types) /\ IsSequence(vs, Len(Ts))
    /\ \A i \in DOMAIN Ts : vs[i] \in Values(Ts[i])
    /\ Len(encode(Ts, vs)) + 1 < SizeMod

(* Arguments are the components of a tuple, and encode makes of them what it  *)
(* makes of the tuple, or of the only one.                                    *)
LEMMA ArgumentsAre ==
    ASSUME NEW Ts, NEW vs, Argument(Ts, vs)
    PROVE  LET A == AsTuple(Ts)
           IN  /\ IsTuple(A) /\ IsListValue(A, vs) /\ Len(vs) = Len(Ts) /\ Len(Ts) \in Nat
               /\ \A i \in 1 .. Len(vs) : Component(A, i) = Ts[i]
               /\ Payload(A, vs) = flattened(A, Sub(A, encoder), vs)
               /\ Payload(A, vs) \in Seq(Byte)
               /\ Len(Ts) # 1 => encode(Ts, vs) = Encoded(A, vs)
               /\ Len(Ts) = 1 => /\ Ts[1] \in Types /\ vs[1] \in Values(Ts[1])
                                 /\ encode(Ts, vs) = encoder[Ts[1]][vs[1]]
                                 /\ vs = <<vs[1]>>
  <1> DEFINE A == AsTuple(Ts)
             N == Len(Ts)
  <1>1. /\ Ts \in Seq(Types) /\ N \in Nat /\ vs = [i \in 1 .. N |-> vs[i]]
        /\ \A i \in 1 .. N : Ts[i] \in Types /\ vs[i] \in Values(Ts[i])
    <2>1. /\ Ts \in Seq(Types) /\ N \in Nat /\ vs = [i \in 1 .. N |-> vs[i]]
          /\ \A i \in DOMAIN Ts : vs[i] \in Values(Ts[i])
      BY DEF Argument, IsSequence
    <2>2. DOMAIN Ts = 1 .. N /\ \A i \in 1 .. N : Ts[i] \in Types
      BY <2>1
    <2> HIDE DEF N
    <2> QED
      BY <2>1, <2>2
  <1>2. A.k = "tuple" /\ A.of = Ts
    BY DEF AsTuple
  <1>3. IsTuple(A) /\ \A i \in 1 .. N : Part(A, i) = i /\ Component(A, i) = Ts[i]
    BY <1>2 DEF IsTuple, Part, Component
  <1>4. Len(vs) = N /\ DOMAIN Ts = 1 .. N
    BY <1>1
  <1>5. IsListValue(A, vs)
    <2> HIDE DEF A, N
    <2> QED
      BY <1>1, <1>2, <1>3, <1>4 DEF IsListValue
  <1>6. \A i \in 1 .. Len(vs) : encoder[Component(A, i)][vs[i]] \in Seq(Byte)
    BY <1>5, ComponentIs, EncodingTyped
  <1>7. flattened(A, Sub(A, encoder), vs) \in Seq(Byte)
    BY <1>5, <1>6, FlattenedIs
  <1>8. Payload(A, vs) = flattened(A, Sub(A, encoder), vs)
    BY <1>3 DEF Payload
  <1>9. Sub(A, encoder) = [i \in DOMAIN Ts |-> encoder[Ts[i]]]
    BY <1>2 DEF Sub
  <1>10. N # 1 => encode(Ts, vs) = Encoded(A, vs)
    BY <1>9 DEF encode, Encoded
  <1>11. ASSUME N = 1
         PROVE  /\ Ts[1] \in Types /\ vs[1] \in Values(Ts[1])
                /\ encode(Ts, vs) = encoder[Ts[1]][vs[1]]
                /\ vs = <<vs[1]>>
    <2>1. Ts[1] \in Types /\ vs[1] \in Values(Ts[1])
      BY <1>1, <1>11
    <2>2. encode(Ts, vs) = encoder[Ts[1]][vs[1]]
      BY <1>11 DEF encode
    <2>3. vs = <<vs[1]>>
      BY <1>1, <1>11
    <2> QED
      BY <2>1, <2>2, <2>3
  <1> QED
    BY <1>1, <1>3, <1>4, <1>5, <1>7, <1>8, <1>10, <1>11

(* What encode makes of arguments are bytes.                                  *)
LEMMA EncodeTyped ==
    ASSUME NEW Ts, NEW vs, Argument(Ts, vs)
    PROVE  encode(Ts, vs) \in Seq(Byte) /\ Len(encode(Ts, vs)) < SizeMod
  <1> DEFINE A == AsTuple(Ts)
             E == encode(Ts, vs)
  <1>1. Len(E) + 1 < SizeMod
    BY DEF Argument
  <1>2. E \in Seq(Byte)
    <2>1. CASE Len(Ts) = 1
      BY <2>1, ArgumentsAre, EncodingTyped
    <2>2. CASE Len(Ts) # 1
      <3>1. E = Encoded(A, vs) /\ Payload(A, vs) \in Seq(Byte)
        BY <2>2, ArgumentsAre
      <3> HIDE DEF E
      <3>2. \/ Bare(A, vs) /\ E = Payload(A, vs)
            \/ E = prefix(Kind(A)[2], Kind(A)[3], Payload(A, vs))
        BY <3>1, EncodedIs
      <3>3. CASE E = Payload(A, vs)
        BY <3>1, <3>3
      <3>4. CASE E = prefix(Kind(A)[2], Kind(A)[3], Payload(A, vs))
        <4> DEFINE p == Payload(A, vs)
                   kind == Kind(A)
        <4>1. p \in Seq(Byte) /\ kind \in Heads /\ E = prefix(kind[2], kind[3], p)
          BY <3>1, <3>4, KindIsHead
        <4> HIDE DEF p, kind
        <4>2. p \in Seq(Int)
          BY <4>1, Layout DEF Byte
        <4>3. Len(p) \in Nat /\ Len(E) \in Nat /\ Len(p) < Len(E)
          BY <4>1, <4>2, PrefixLength
        <4>4. Len(p) < SizeMod
          BY <1>1, <4>3, Layout DEF E
        <4> QED
          BY <4>1, <4>4, PrefixIs
      <3> QED
        BY <3>2, <3>3, <3>4
    <2> QED
      BY <2>1, <2>2
  <1> HIDE DEF E
  <1>3. Len(E) \in Nat
    BY <1>2
  <1>4. Len(E) < SizeMod
    BY <1>1, <1>3, Layout
  <1> QED
    BY <1>2, <1>4 DEF E

(* The items of several arguments.                                            *)
Items(Ts, m) == [c \in (1 .. Len(Ts)) \X Nat \X Nat |-> decode_item(Ts[c[1]], m, c[2], c[3])]

(* decode_item reads a header unless the type is a tuple.                     *)
LEMMA ItemCall ==
    ASSUME NEW Ts, NEW m, NEW k \in 1 .. Len(Ts), NEW d \in Nat, NEW s \in Nat
    PROVE  Call(Items(Ts, m), k, d, s) =
              IF IsTuple(Ts[k]) THEN Call(decoder[Ts[k]], m, d, s)
                                ELSE decode_impl(<<Ts[k]>>, decoder[Ts[k]], m, d, s)
  <1>1. Call(Items(Ts, m), k, d, s) = decode_item(Ts[k], m, d, s)
    BY DEF Call, Items
  <1> QED
    BY <1>1 DEF decode_item, Call

(* Without a tuple among them they are read back.                             *)
LEMMA MultipleExact ==
    ASSUME NEW Ts, NEW vs, Argument(Ts, vs), \A i \in DOMAIN Ts : ~ IsTuple(Ts[i]),
           NEW m \in Seq(Byte), NEW d \in Nat, At(m, d, Payload(AsTuple(Ts), vs)),
           Len(Payload(AsTuple(Ts), vs)) < SizeMod
    PROVE  decode_multiple(Ts, m, d, Len(Payload(AsTuple(Ts), vs)))
              = Ok(d + Len(Payload(AsTuple(Ts), vs)), 0, vs)
  <1> DEFINE A == AsTuple(Ts)
             p == Payload(A, vs)
             N == Len(vs)
             ss == Parts(A, vs)
             next == Items(Ts, m)
             s == Len(p)
  <1>1. /\ IsListValue(A, vs) /\ N = Len(Ts) /\ N \in Nat
        /\ \A i \in 1 .. N : Component(A, i) = Ts[i]
        /\ p = flattened(A, Sub(A, encoder), vs) /\ p \in Seq(Byte)
    BY ArgumentsAre
  <1>2. \A i \in 1 .. N : encoder[Component(A, i)][vs[i]] \in Seq(Byte)
    BY <1>1, ComponentIs, EncodingTyped
  <1>3. ss \in [1 .. N -> Seq(Byte)]
    BY <1>1, <1>2, FlattenedIs
  <1>4. PICK f : Flattens(f, ss, N) /\ flattened(A, Sub(A, encoder), vs) = f[N]
    BY <1>1, <1>2, FlattenedIs
  <1>5. ASSUME NEW k \in 1 .. N, NEW e \in Nat, NEW t \in Nat,
               At(m, e, ss[k]), Len(ss[k]) <= t, t < SizeMod
        PROVE  Call(next, k, e, t) = Ok(e + Len(ss[k]), t - Len(ss[k]), vs[k])
    <2> DEFINE C == Ts[k]
    <2>1. C \in Types /\ vs[k] \in Values(C) /\ Exact(C) /\ ~ IsTuple(C)
      <3>1. k \in DOMAIN Ts
        BY <1>1 DEF Argument
      <3> QED
        BY <1>1, <3>1, ComponentIs, AllExact
    <2>2. ss[k] = encoder[C][vs[k]]
      BY <1>1 DEF Parts
    <2>3. Call(next, k, e, t) = decode_impl(<<C>>, decoder[C], m, e, t)
      BY <1>1, <2>1, ItemCall
    <2> HIDE DEF C, next, ss
    <2>4. Passed(decode_impl(<<C>>, decoder[C], m, e, t), e, t, Len(encoder[C][vs[k]]), vs[k])
      BY <1>5, <2>1, <2>2, ExactItem
    <2> QED
      BY <1>5, <2>2, <2>3, <2>4 DEF Passed
  <1>6. decode_multiple(Ts, m, d, s) = after_items(next, d, s)[N]
    BY <1>1 DEF decode_multiple, Items
  <1>7. vs = [i \in 1 .. N |-> vs[i]]
    BY <1>1 DEF IsListValue
  <1>8. p = f[N]
    BY <1>1, <1>4
  <1> HIDE DEF N, ss, next, p
  <1>9. At(m, d, f[N]) /\ Len(f[N]) <= s /\ s \in Nat /\ s < SizeMod
    BY <1>1, <1>8 DEF p
  <1>10. OneByOne(next, d, s, f, vs, N)
    <2>1. N \in Nat /\ ss \in [1 .. N -> Seq(Byte)] /\ Flattens(f, ss, N)
      BY <1>1, <1>3, <1>4
    <2> HIDE DEF s
    <2> QED
      BY <1>5, <1>9, <2>1, ItemsAt
  <1>11. N \in 0 .. N
    BY <1>1
  <1> DEFINE r == after_items(next, d, s)[N]
  <1>12. r = Ok(d + Len(f[N]), s - Len(f[N]), [i \in 1 .. N |-> vs[i]])
    BY <1>10, <1>11 DEF OneByOne
  <1>13. Len(f[N]) = s /\ s - s = 0
    BY <1>8, <1>9
  <1> HIDE DEF r
  <1>14. r = Ok(d + s, 0, vs)
    BY <1>7, <1>12, <1>13
  <1> QED
    BY <1>6, <1>14 DEF r, p

(* With tuples among them, if they are read at all they are what was encoded. *)
LEMMA MultipleCarried ==
    ASSUME NEW Ts, NEW vs, Argument(Ts, vs),
           NEW m \in Seq(Byte), NEW d \in Nat, At(m, d, Payload(AsTuple(Ts), vs)), NEW s \in Nat
    PROVE  Carried(decode_multiple(Ts, m, d, s), m, d + Len(Payload(AsTuple(Ts), vs)), vs, Nat)
  <1> DEFINE A == AsTuple(Ts)
             p == Payload(A, vs)
             N == Len(vs)
             ss == Parts(A, vs)
             next == Items(Ts, m)
  <1>1. /\ IsListValue(A, vs) /\ N = Len(Ts) /\ N \in Nat
        /\ \A i \in 1 .. N : Component(A, i) = Ts[i]
        /\ p = flattened(A, Sub(A, encoder), vs) /\ p \in Seq(Byte)
    BY ArgumentsAre
  <1>2. \A i \in 1 .. N : encoder[Component(A, i)][vs[i]] \in Seq(Byte)
    BY <1>1, ComponentIs, EncodingTyped
  <1>3. ss \in [1 .. N -> Seq(Byte)]
    BY <1>1, <1>2, FlattenedIs
  <1>4. PICK f : Flattens(f, ss, N) /\ flattened(A, Sub(A, encoder), vs) = f[N]
    BY <1>1, <1>2, FlattenedIs
  <1>5. ASSUME NEW k \in 1 .. N, NEW a \in Nat, NEW e \in Nat, NEW t \in Nat,
               At(m, a, ss[k]), Lags(m, e, a, Nat)
        PROVE  Carried(Call(next, k, e, t), m, a + Len(ss[k]), vs[k], Nat)
    <2> DEFINE C == Ts[k]
               q == Call(next, k, e, t)
               b == a + Len(encoder[C][vs[k]])
    <2>1. C \in Types /\ vs[k] \in Values(C) /\ Exact(C) /\ (IsTuple(C) => Lagged(C))
      BY <1>1, ComponentIs, AllExact, AllLagged
    <2>2. ss[k] = encoder[C][vs[k]]
      BY <1>1 DEF Parts
    <2>3. q = IF IsTuple(C) THEN Call(decoder[C], m, e, t)
                            ELSE decode_impl(<<C>>, decoder[C], m, e, t)
      BY <1>1, ItemCall
    <2>4. Len(encoder[C][vs[k]]) \in Nat
      BY <2>1, EncodingTyped
    <2> HIDE DEF C, next, ss, q
    <2>5. Carried(q, m, b, vs[k], Positive) => Carried(q, m, b, vs[k], Nat)
      BY AnyLag DEF Carried
    <2>6. CASE IsTuple(C)
      <3>1. q = Call(decoder[C], m, e, t) /\ At(m, a, encoder[C][vs[k]])
        BY <1>5, <2>2, <2>3, <2>6
      <3>2. Carried(q, m, b, vs[k], Positive)
        BY <1>5, <2>1, <2>6, <3>1 DEF Lagged
      <3> QED
        BY <2>2, <2>5, <3>2 DEF q
    <2>7. CASE ~ IsTuple(C) /\ Lags(m, e, a, Positive)
      <3>1. q = decode_impl(<<C>>, decoder[C], m, e, t) /\ At(m, a, encoder[C][vs[k]])
        BY <1>5, <2>2, <2>3, <2>7
      <3>2. Carried(q, m, b, vs[k], Positive)
        BY <2>1, <2>7, <3>1, LaggedItem
      <3> QED
        BY <2>2, <2>5, <3>2 DEF q
    <2>8. CASE ~ IsTuple(C) /\ e = a
      <3>1. q = decode_impl(<<C>>, decoder[C], m, e, t) /\ At(m, e, encoder[C][vs[k]])
        BY <1>5, <2>2, <2>3, <2>8
      <3>2. Passed(q, e, t, Len(encoder[C][vs[k]]), vs[k])
        BY <2>1, <3>1, ExactItem
      <3>3. q.is = "ok" => q.data = b /\ q.size \in Nat /\ q.val = vs[k]
        BY <2>8, <3>2 DEF Passed, Fail
      <3>4. b \in Nat /\ Lags(m, b, b, Nat)
        BY <2>4, NoLag
      <3>5. Carried(q, m, b, vs[k], Nat)
        <4> HIDE DEF b
        <4> QED
          BY <3>3, <3>4 DEF Carried
      <3> QED
        BY <2>2, <3>5 DEF q
    <2> QED
      BY <1>5, <2>6, <2>7, <2>8, AnyLag
  <1>6. decode_multiple(Ts, m, d, s) = after_items(next, d, s)[N]
    BY <1>1 DEF decode_multiple, Items
  <1>7. vs = [i \in 1 .. N |-> vs[i]]
    BY <1>1 DEF IsListValue
  <1>8. p = f[N]
    BY <1>1, <1>4
  <1> HIDE DEF N, ss, next, p
  <1>9. At(m, d, f[N])
    BY <1>8 DEF p
  <1>10. Lags(m, d, d, Nat)
    BY NoLag
  <1>11. EachCarried(N, next, ss, m, vs, Nat)
    BY <1>5 DEF EachCarried
  <1>12. N \in Nat /\ ss \in [1 .. N -> Seq(Byte)] /\ Flattens(f, ss, N)
    BY <1>1, <1>3, <1>4
  <1>13. Carried(after_items(next, d, s)[N], m, d + Len(f[N]), [i \in 1 .. N |-> vs[i]], Nat)
    BY <1>9, <1>10, <1>11, <1>12, ItemsCarried
  <1>14. Carried(decode_multiple(Ts, m, d, s), m, d + Len(p), vs, Nat)
    BY <1>6, <1>7, <1>8, <1>13
  <1> QED
    BY <1>14 DEF p

-----------------------------------------------------------------------------
(* The contents that decode passes to decode_impl.                            *)
Contents(Ts) ==
    [c \in Place |-> IF Len(Ts) = 1
                       THEN Then(decoder[Ts[1]][c], LAMBDA r : Ok(r.data, r.size, <<r.val>>))
                       ELSE decode_multiple(Ts, c[1], c[2], c[3])]

(* decode is decode_impl on the whole input, and the comparison of the size   *)
(* that is left with 0.                                                       *)
LEMMA DecodeIs ==
    ASSUME NEW Ts, NEW input, NEW tail, NEW r,
           r = decode_impl(Ts, Contents(Ts), input \o tail, 0, Len(input))
    PROVE  decode(Ts, input, tail) = IF r.is = "ok" /\ r.size # 0 THEN Fail("threw") ELSE r
  BY DEF decode, Contents

(* The payload of one argument goes to from_bytes or decode_tuple, that of    *)
(* several to decode_multiple.                                                *)
LEMMA ContentsAre ==
    ASSUME NEW Ts, NEW m \in Seq(Byte), NEW d \in Nat, NEW n \in Nat
    PROVE  /\ Len(Ts) # 1 => Call(Contents(Ts), m, d, n) = decode_multiple(Ts, m, d, n)
           /\ \A b, v : Len(Ts) = 1 /\ Call(decoder[Ts[1]], m, d, n) = Ok(b, 0, v)
                 => Call(Contents(Ts), m, d, n) = Ok(b, 0, <<v>>)
  <1>1. <<m, d, n>> \in Place
    BY DEF Place
  <1>2. Len(Ts) # 1 => Call(Contents(Ts), m, d, n) = decode_multiple(Ts, m, d, n)
    BY <1>1 DEF Contents, Call
  <1>3. ASSUME NEW b, NEW v, Len(Ts) = 1, Call(decoder[Ts[1]], m, d, n) = Ok(b, 0, v)
        PROVE  Call(Contents(Ts), m, d, n) = Ok(b, 0, <<v>>)
    <2> DEFINE q == decoder[Ts[1]][<<m, d, n>>]
    <2>1. Call(Contents(Ts), m, d, n)
             = IF q.is = "ok" THEN Ok(q.data, q.size, <<q.val>>) ELSE q
      BY <1>1, <1>3 DEF Contents, Call, Then
    <2>2. q = Ok(b, 0, v)
      BY <1>3 DEF Call
    <2> HIDE DEF q
    <2> QED
      BY <2>1, <2>2 DEF Ok
  <1> QED
    BY <1>2, <1>3

(* An encoding stands at the start of the memory it is in.                    *)
LEMMA Stands ==
    ASSUME NEW E \in Seq(Byte), NEW tail \in Seq(Byte)
    PROVE  E \o tail \in Seq(Byte) /\ At(E \o tail, 0, E)
  <1> DEFINE m == E \o tail
  <1>1. m \in Seq(Byte) /\ Len(m) = Len(E) + Len(tail) /\ \A i \in 1 .. Len(E) : m[i] = E[i]
    BY Inside
  <1>2. Len(E) \in Nat /\ Len(tail) \in Nat
    OBVIOUS
  <1> HIDE DEF m
  <1>3. 0 + Len(E) <= Len(m) /\ \A i \in 1 .. Len(E) : m[0 + i] = E[i]
    BY <1>1, <1>2
  <1> QED
    BY <1>1, <1>3 DEF At, m

(* decode of what encode made, and nothing else behind it that matters.       *)
LEMMA DecodeOfEncode ==
    ASSUME NEW Ts, NEW vs, Argument(Ts, vs), Len(Ts) > 1 => \A i \in DOMAIN Ts : ~ IsTuple(Ts[i]),
           NEW tail \in Seq(Byte)
    PROVE  decode(Ts, encode(Ts, vs), tail) = Ok(Len(encode(Ts, vs)), 0, vs)
  <1> DEFINE E == encode(Ts, vs)
             m == E \o tail
             n == Len(E)
             A == AsTuple(Ts)
             r == decode_impl(Ts, Contents(Ts), m, 0, n)
  <1>1. E \in Seq(Byte) /\ n \in Nat /\ n < SizeMod
    BY EncodeTyped
  <1>2. m \in Seq(Byte) /\ At(m, 0, E)
    BY <1>1, Stands
  <1>3. /\ IsTuple(A) /\ Len(Ts) \in Nat /\ Payload(A, vs) \in Seq(Byte)
        /\ Len(Ts) # 1 => E = Encoded(A, vs)
        /\ Len(Ts) = 1 => /\ Ts[1] \in Types /\ vs[1] \in Values(Ts[1])
                          /\ E = encoder[Ts[1]][vs[1]]
                          /\ vs = <<vs[1]>>
    BY ArgumentsAre
  <1> HIDE DEF E, m, A
  <1>4. ASSUME Len(Ts) = 1
        PROVE  Passed(r, 0, n, n, vs)
    <2> DEFINE T == Ts[1]
               v == vs[1]
    <2>1. /\ T \in Types /\ v \in Values(T) /\ E = encoder[T][v] /\ vs = <<v>>
          /\ E = Encoded(T, v) /\ Payload(T, v) \in Seq(Byte)
      BY <1>3, <1>4, EncodingTyped
    <2>2. ((Len(Ts) = 1 /\ ~ IsTuple(Ts[1])) <=> ~ IsTuple(T)) /\ Ts # <<>>
      BY <1>4
    <2> HIDE DEF T, v
    <2>3. ASSUME NEW e \in Nat, At(m, e, Payload(T, v))
          PROVE  Call(Contents(Ts), m, e, Len(Payload(T, v))) = Ok(e + Len(Payload(T, v)), 0, vs)
      <3> DEFINE L == Len(Payload(T, v))
      <3>1. Call(decoder[T], m, e, L) = Ok(e + L, 0, v) /\ L \in Nat
        BY <1>2, <2>1, <2>3, AllExact DEF Exact
      <3> HIDE DEF L
      <3>2. Call(Contents(Ts), m, e, L) = Ok(e + L, 0, <<v>>)
        <4> DEFINE b == e + L
        <4>1. Call(decoder[Ts[1]], m, e, L) = Ok(b, 0, v) /\ L \in Nat
          BY <3>1 DEF T
        <4> HIDE DEF b
        <4>2. Call(Contents(Ts), m, e, L) = Ok(b, 0, <<v>>)
          BY <1>2, <1>4, <4>1, ContentsAre
        <4> QED
          BY <4>2 DEF b
      <3> QED
        BY <2>1, <3>2 DEF L
    <2>4. Passed(decode_impl(Ts, Contents(Ts), m, 0, n), 0, n, Len(Encoded(T, v)), vs)
      BY <1>1, <1>2, <2>1, <2>2, <2>3, ItemAt
    <2> QED
      BY <2>1, <2>4
  <1>5. ASSUME Len(Ts) # 1
        PROVE  Passed(r, 0, n, n, vs)
    <2> DEFINE p == Payload(A, vs)
    <2>1. E = Encoded(A, vs) /\ Len(Encoded(A, vs)) < SizeMod /\ p \in Seq(Byte)
      BY <1>1, <1>3, <1>5
    <2>2. Len(p) \in Nat /\ Len(p) < SizeMod
      BY <2>1, EncodedTyped
    <2>3. \A i \in DOMAIN Ts : ~ IsTuple(Ts[i])
      <3>1. Ts \in Seq(Types)
        BY DEF Argument
      <3> QED
        <4>1. DOMAIN Ts = 1 .. Len(Ts)
          BY <3>1
        <4>2. CASE Len(Ts) = 0
          <5>1. DOMAIN Ts = {}
            BY <4>1, <4>2
          <5> QED
            BY <5>1
        <4>3. CASE Len(Ts) # 0
          <5> DEFINE l == Len(Ts)
          <5>2. l \in Nat /\ l # 0 /\ l # 1
            BY <1>3, <1>5, <4>3
          <5> HIDE DEF l
          <5>3. l > 1
            BY <5>2
          <5>1. Len(Ts) > 1
            BY <5>3 DEF l
          <5> QED
            BY <5>1
        <4> QED
          BY <4>2, <4>3
    <2>4. ASSUME NEW e \in Nat, At(m, e, p)
          PROVE  Call(Contents(Ts), m, e, Len(p)) = Ok(e + Len(p), 0, vs)
      <3>1. decode_multiple(Ts, m, e, Len(p)) = Ok(e + Len(p), 0, vs)
        BY <1>2, <2>2, <2>3, <2>4, MultipleExact DEF A
      <3> HIDE DEF p
      <3> QED
        BY <1>2, <1>5, <2>2, <3>1, ContentsAre
    <2>5. Ts = <<>> => p = <<>> /\ vs = <<>>
      <3> SUFFICES ASSUME Ts = <<>>
                   PROVE  p = <<>> /\ vs = <<>>
        OBVIOUS
      <3>1. Len(vs) = 0 /\ vs = [i \in 1 .. 0 |-> vs[i]]
        <4>1. Len(Ts) = 0 /\ vs = [i \in 1 .. Len(Ts) |-> vs[i]]
          BY DEF Argument, IsSequence
        <4> QED
          BY <4>1
      <3>2. vs = <<>>
        BY <3>1
      <3>3. p = flattened(A, Sub(A, encoder), vs)
        BY ArgumentsAre DEF A
      <3>4. p = FlattenSeq(<<>>)
        <4>1. [i \in DOMAIN vs |-> Sub(A, encoder)[Part(A, i)][vs[i]]] = <<>>
          BY <3>2
        <4> QED
          BY <3>3, <4>1 DEF flattened
      <3>5. FlattenSeq(<<>>) = <<>>
        BY DEF FlattenSeq
      <3> QED
        BY <3>2, <3>4, <3>5
    <2>6. ((Len(Ts) = 1 /\ ~ IsTuple(Ts[1])) <=> ~ IsTuple(A))
      BY <1>3, <1>5
    <2>7. Passed(decode_impl(Ts, Contents(Ts), m, 0, n), 0, n, Len(Encoded(A, vs)), vs)
      BY <1>1, <1>2, <2>1, <2>4, <2>5, <2>6, ItemAt
    <2> QED
      BY <2>1, <2>7
  <1>6. Passed(r, 0, n, n, vs)
    BY <1>4, <1>5
  <1>7. decode(Ts, E, tail) = IF r.is = "ok" /\ r.size # 0 THEN Fail("threw") ELSE r
    BY DecodeIs DEF m
  <1> HIDE DEF r, n
  <1>8. r = Ok(n, 0, vs)
    <2>1. 0 + n = n /\ n - n = 0
      BY <1>1
    <2> QED
      BY <1>1, <1>6, <2>1 DEF Passed
  <1>9. decode(Ts, E, tail) = Ok(n, 0, vs)
    BY <1>7, <1>8 DEF Ok
  <1> QED
    BY <1>9 DEF E, n

-----------------------------------------------------------------------------
(* A tuple among other arguments leaves decode without an answer, or with the *)
(* right one.                                                                 *)
LEMMA DecodeCarried ==
    ASSUME NEW Ts, NEW vs, Argument(Ts, vs), Len(Ts) > 1, NEW tail \in Seq(Byte),
           decode(Ts, encode(Ts, vs), tail).is = "ok"
    PROVE  decode(Ts, encode(Ts, vs), tail).val = vs
  <1> DEFINE E == encode(Ts, vs)
             m == E \o tail
             n == Len(E)
             A == AsTuple(Ts)
             p == Payload(A, vs)
             h == decode_length(m, 0, n)
             c == Call(Contents(Ts), m, h.data, h.val[2])
             r == decode_impl(Ts, Contents(Ts), m, 0, n)
  <1>1. E \in Seq(Byte) /\ n \in Nat /\ n < SizeMod
    BY EncodeTyped
  <1>2. m \in Seq(Byte) /\ At(m, 0, E)
    BY <1>1, Stands
  <1>3. Len(Ts) # 1 /\ Ts # <<>>
    <2> DEFINE l == Len(Ts)
    <2>1. l > 1 /\ l \in Nat
      BY ArgumentsAre
    <2> HIDE DEF l
    <2>2. l # 1 /\ l # 0
      BY <2>1
    <2> QED
      BY <2>2 DEF l
  <1>4. IsTuple(A) /\ p \in Seq(Byte) /\ E = Encoded(A, vs) /\ Len(Encoded(A, vs)) < SizeMod
    BY <1>1, <1>3, ArgumentsAre
  <1>5. decode(Ts, E, tail) = IF r.is = "ok" /\ r.size # 0 THEN Fail("threw") ELSE r
    BY DecodeIs
  <1>6. r = Impl(Ts, h, c)
    BY ImplIs
  <1> HIDE DEF E, m, n, A, p
  <1>7. At(m, 0, Encoded(A, vs))
    BY <1>2, <1>4
  <1>8. PICK e, need : Found(A, vs, m, 0, e, need)
    BY <1>2, <1>4, <1>7, PayloadAt DEF p
  <1>9. /\ e \in Nat /\ At(m, e, p)
        /\ h = IF n < need THEN Fail("threw") ELSE Ok(e, n - (e - 0), <<Kind(A)[1], Len(p)>>)
    BY <1>1, <1>8 DEF Found, p
  <1> HIDE DEF h, c, r
  <1>10. r.is = "ok" /\ decode(Ts, E, tail) = r
    BY <1>5 DEF E, Fail
  <1>11. h.is = "ok" /\ c.is = "ok" /\ r.val = c.val
    BY <1>3, <1>6, <1>10 DEF Impl, Fail, Ok
  <1>12. h.data = e /\ h.val[2] = Len(p)
    BY <1>9, <1>11 DEF Ok, Fail
  <1>13. Len(p) \in Nat
    BY <1>4
  <1>14. c = decode_multiple(Ts, m, e, Len(p))
    <2>1. c = Call(Contents(Ts), m, e, Len(p))
      BY <1>12 DEF c
    <2> QED
      BY <1>2, <1>3, <1>9, <1>13, <2>1, ContentsAre
  <1>15. Carried(c, m, e + Len(p), vs, Nat)
    BY <1>2, <1>9, <1>13, <1>14, MultipleCarried DEF p, A
  <1>16. r.val = vs
    BY <1>11, <1>15 DEF Carried
  <1> QED
    BY <1>10, <1>16 DEF E

(* decode of what encode made yields nothing but what was encoded.            *)
LEMMA NothingMistaken ==
    ASSUME NEW Ts, NEW vs, Argument(Ts, vs), NEW tail \in Seq(Byte),
           decode(Ts, encode(Ts, vs), tail).is = "ok"
    PROVE  decode(Ts, encode(Ts, vs), tail).val = vs
  <1>1. CASE Len(Ts) > 1
    BY <1>1, DecodeCarried
  <1>2. CASE ~ (Len(Ts) > 1)
    <2>1. decode(Ts, encode(Ts, vs), tail) = Ok(Len(encode(Ts, vs)), 0, vs)
      BY <1>2, DecodeOfEncode
    <2> QED
      BY <2>1 DEF Ok
  <1> QED
    BY <1>1, <1>2

-----------------------------------------------------------------------------
(* An encoding that nothing has changed yet has a byte to spare.              *)
BytesOK ==
    /\ data \in Seq(Byte) /\ Len(data) < SizeMod
    /\ origin = "encode" => Len(data) + 1 < SizeMod

(* Until bytes come from elsewhere, types and value are what the caller       *)
(* passed, and data is their encoding once encode has been called.            *)
CallerOK ==
    /\ origin = "none" => outcome = NotDecoded
    /\ origin \in {"none", "encode"} => \E arg \in Args : types = arg[1] /\ value = arg[2]
    /\ origin = "encode" => data = encode(types, value)

(* The inductive invariant: the data is in memory, it is the encoding of the  *)
(* arguments when encode made it, and the three properties hold.              *)
RInv == BytesOK /\ CallerOK /\ OuterLengthExact /\ RoundTrip /\ NeverMistaken

(* What the caller passes are arguments.                                      *)
LEMMA ArgsAre ==
    ASSUME NEW arg \in Args
    PROVE  Argument(arg[1], arg[2])
  BY ArgsAssumption, SizeAssumption DEF Argument

(* The invariant holds before the first call.                                 *)
LEMMA RInvInit == Init => RInv
  <1> SUFFICES ASSUME Init
               PROVE  RInv
    OBVIOUS
  <1>1. data = <<>> /\ outcome.is = "none" /\ outcome = NotDecoded /\ origin = "none"
    BY DEF Init, NotDecoded
  <1>2. BytesOK
    BY <1>1, Layout DEF BytesOK
  <1>3. CallerOK
    BY <1>1 DEF Init, CallerOK
  <1> QED
    BY <1>1, <1>2, <1>3 DEF RInv, OuterLengthExact, RoundTrip, NeverMistaken

(* Inputs of a bounded length are sequences of bytes.                         *)
LEMMA ByteStrings ==
    ASSUME NEW n \in Nat, NEW bs \in ByteString(n)
    PROVE  bs \in Seq(Byte) /\ Len(bs) <= n
  <1>1. PICK k \in 0 .. n : bs \in [1 .. k -> Byte]
    BY DEF ByteString
  <1>2. k \in Nat /\ k <= n
    OBVIOUS
  <1>3. bs \in Seq(Byte) /\ Len(bs) = k
    BY <1>1, <1>2
  <1> QED
    BY <1>2, <1>3

(* decode, whatever made the bytes.                                           *)
LEMMA RInvDecode ==
    ASSUME RInv, Decode
    PROVE  RInv'
  <1>1. /\ origin # "none" /\ data' = data /\ origin' = origin
        /\ types' = types /\ value' = value
    BY DEF Decode
  <1>2. PICK tail \in ByteString(MaxTail) : outcome' = decode(types, data, tail)
    BY DEF Decode
  <1>3. tail \in Seq(Byte)
    BY <1>2, TypesAssumption, ByteStrings
  <1>4. BytesOK' /\ CallerOK'
    BY <1>1 DEF RInv, BytesOK, CallerOK
  <1>5. OuterLengthExact'
    <2> SUFFICES ASSUME decode(types, data, tail).is = "ok"
                 PROVE  data # <<>> /\ ItemLength(data) = Len(data)
      BY <1>1, <1>2 DEF OuterLengthExact
    <2> QED
      BY <1>3, DecodeExact DEF RInv, BytesOK
  <1>6. origin = "encode" => data = encode(types, value) /\ Argument(types, value)
    BY ArgsAre DEF RInv, CallerOK
  <1>7. RoundTrip'
    <2> SUFFICES ASSUME origin = "encode", ~ TupleAmongOthers
                 PROVE  outcome' = Ok(Len(data), 0, value)
      BY <1>1 DEF RoundTrip, TupleAmongOthers
    <2>1. Len(types) > 1 => \A i \in DOMAIN types : ~ IsTuple(types[i])
      BY DEF TupleAmongOthers
    <2> QED
      BY <1>2, <1>3, <1>6, <2>1, DecodeOfEncode
  <1>8. NeverMistaken'
    <2> SUFFICES ASSUME origin = "encode", outcome'.is = "ok"
                 PROVE  outcome'.val = value
      BY <1>1 DEF NeverMistaken
    <2> QED
      BY <1>2, <1>3, <1>6, NothingMistaken
  <1> QED
    BY <1>4, <1>5, <1>7, <1>8 DEF RInv

(* Every call keeps the invariant.                                            *)
LEMMA RInvStep == RInv /\ [Next]_vars => RInv'
  <1> SUFFICES ASSUME RInv, [Next]_vars
               PROVE  RInv'
    OBVIOUS
  <1>1. CASE Encode
    <2>1. /\ origin = "none" /\ data' = encode(types, value) /\ origin' = "encode"
          /\ outcome' = outcome /\ types' = types /\ value' = value
      BY <1>1 DEF Encode
    <2>2. outcome = NotDecoded /\ \E arg \in Args : types = arg[1] /\ value = arg[2]
      BY <2>1 DEF RInv, CallerOK
    <2>3. Argument(types, value)
      BY <2>2, ArgsAre
    <2>4. data' \in Seq(Byte) /\ Len(data') < SizeMod /\ Len(data') + 1 < SizeMod
      BY <2>1, <2>3, EncodeTyped DEF Argument
    <2>5. BytesOK' /\ CallerOK'
      BY <2>1, <2>2, <2>4 DEF BytesOK, CallerOK
    <2> QED
      BY <2>1, <2>2, <2>5
         DEF RInv, OuterLengthExact, RoundTrip, NeverMistaken, NotDecoded
  <1>2. CASE Receive
    <2>1. /\ origin = "none" /\ data' \in ByteString(MaxInput) /\ origin' = "other"
          /\ outcome' = outcome
      BY <1>2 DEF Receive
    <2>2. data' \in Seq(Byte) /\ Len(data') <= MaxInput
      BY <2>1, TypesAssumption, ByteStrings
    <2>3. BytesOK'
      BY <2>1, <2>2, Layout, TypesAssumption, SizeAssumption DEF BytesOK
    <2>4. outcome = NotDecoded
      BY <2>1 DEF RInv, CallerOK
    <2> QED
      BY <2>1, <2>3, <2>4
         DEF RInv, CallerOK, OuterLengthExact, RoundTrip, NeverMistaken, NotDecoded
  <1>3. CASE Damage
    <2>1. /\ origin = "encode" /\ outcome = NotDecoded /\ origin' = "other"
          /\ outcome' = outcome
      BY <1>3 DEF Damage
    <2>2. data \in Seq(Byte) /\ Len(data) + 1 < SizeMod
      BY <2>1 DEF RInv, BytesOK
    <2>3. data' \in Seq(Byte) /\ Len(data') < SizeMod
      <3>1. CASE \E k \in 0 .. (Len(data) - 1) : data' = SubSeq(data, 1, k)
        BY <2>2, <3>1, Layout
      <3>2. CASE \E b \in Byte : data' = Append(data, b)
        BY <2>2, <3>2, Layout
      <3>3. CASE \E k \in DOMAIN data, b \in Byte : data' = [data EXCEPT ![k] = b]
        BY <2>2, <3>3, Layout
      <3> QED
        BY <1>3, <3>1, <3>2, <3>3 DEF Damage
    <2> QED
      BY <2>1, <2>3
         DEF RInv, BytesOK, CallerOK, OuterLengthExact, RoundTrip, NeverMistaken, NotDecoded
  <1>4. CASE Decode
    BY <1>4, RInvDecode
  <1>5. CASE UNCHANGED vars
    BY <1>5 DEF vars, RInv, BytesOK, CallerOK, OuterLengthExact, RoundTrip, NeverMistaken,
                TupleAmongOthers
  <1> QED
    BY <1>1, <1>2, <1>3, <1>4, <1>5 DEF Next

(* What decode accepts is one item and nothing else, for every layout of the  *)
(* first byte, every width of size_t, all types and all inputs in memory: the *)
(* unsigned and unchecked subtraction in decode_impl is safe because of the   *)
(* one comparison with 0 in decode.                                           *)
THEOREM SpecOuterLengthExact == Spec => []OuterLengthExact
  <1>1. RInv => OuterLengthExact
    BY DEF RInv
  <1> QED
    BY RInvInit, RInvStep, <1>1, PTL DEF Spec

(* decode of what encode wrote is what was encoded, whatever bytes lie behind *)
(* it, for all types at every nesting and all their values: encode and decode *)
(* of rlp.h agree on every header, on the two headers of arrays and vectors,  *)
(* on the width of numbers and on where every component ends.                 *)
THEOREM SpecRoundTrip == Spec => []RoundTrip
  <1>1. RInv => RoundTrip
    BY DEF RInv
  <1> QED
    BY RInvInit, RInvStep, <1>1, PTL DEF Spec

(* Even where decode_item goes to the entries of a tuple without reading its  *)
(* header, decode of what encode wrote never yields other values: from there  *)
(* on it reads list headers in the wrong places, which only tuples accept.    *)
THEOREM SpecNeverMistaken == Spec => []NeverMistaken
  <1>1. RInv => NeverMistaken
    BY DEF RInv
  <1> QED
    BY RInvInit, RInvStep, <1>1, PTL DEF Spec

(* Two lists of arguments of the same types never have the same encoding, so  *)
(* generate_address hashes different bytes for every sender and nonce.        *)
THEOREM EncodingInjective ==
    ASSUME NEW a \in Args, NEW b \in Args, a[1] = b[1],
           Len(a[1]) > 1 => \A i \in DOMAIN a[1] : ~ IsTuple(a[1][i]),
           encode(a[1], a[2]) = encode(b[1], b[2])
    PROVE  a[2] = b[2]
  <1>1. Argument(a[1], a[2]) /\ Argument(b[1], b[2])
    BY ArgsAre
  <1> DEFINE Ts == a[1]
             n == Len(encode(Ts, a[2]))
  <1>2. <<>> \in Seq(Byte)
    OBVIOUS
  <1>3. decode(Ts, encode(Ts, a[2]), <<>>) = Ok(n, 0, a[2])
    BY <1>1, <1>2, DecodeOfEncode
  <1>4. decode(Ts, encode(Ts, b[2]), <<>>) = Ok(n, 0, b[2])
    <2>1. Argument(Ts, b[2]) /\ n = Len(encode(Ts, b[2]))
      BY <1>1
    <2> HIDE DEF Ts, n
    <2>2. Len(Ts) > 1 => \A i \in DOMAIN Ts : ~ IsTuple(Ts[i])
      BY DEF Ts
    <2> QED
      BY <1>2, <2>1, <2>2, DecodeOfEncode
  <1>5. Ok(n, 0, a[2]) = Ok(n, 0, b[2])
    BY <1>3, <1>4
  <1> QED
    BY <1>5 DEF Ok
=============================================================================
