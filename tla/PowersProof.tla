----------------------------- MODULE PowersProof ------------------------------
(***************************************************************************)
(* What powers satisfy: their equations, sums of exponents, growth.  What  *)
(* division satisfies, which takes numbers apart into digits.              *)
(*                                                                         *)
(* A recursive function exists because every initial part of it does and   *)
(* two of them agree; both are shown by induction over the numbers, which  *)
(* is stated here with a set in the place of the usual predicate.          *)
(***************************************************************************)
EXTENDS Powers, TLAPS, NaturalsInduction, WellFoundedInduction

(* A set of numbers that has 0 and the successor of each of its members has   *)
(* all numbers.                                                               *)
LEMMA NatSetInduction ==
    ASSUME NEW T \in SUBSET Nat, 0 \in T, \A n \in T : n + 1 \in T
    PROVE  T = Nat
  <1>1. SUFFICES ASSUME Nat \ T # {}
                 PROVE  FALSE
    OBVIOUS
  <1> DEFINE R == OpToRel(<, Nat)
  <1>2. \A x, y \in Nat : y < x => <<y, x>> \in R
    BY DEF OpToRel
  <1>3. IsWellFoundedOn(R, Nat)
    BY NatLessThanWellFounded
  <1> HIDE DEF R
  <1>4. PICK x \in Nat \ T : \A y \in Nat \ T : ~ (<<y, x>> \in R)
    <2>1. Nat \ T \subseteq Nat
      OBVIOUS
    <2> QED
      BY <1>1, <1>3, <2>1, WFMin
  <1>5. x # 0 /\ x - 1 \in Nat
    BY <1>4
  <1>6. x - 1 \in T
    <2>1. x \in Nat /\ x - 1 < x
      BY <1>5
    <2>2. <<x - 1, x>> \in R
      BY <1>2, <1>5, <2>1
    <2> QED
      BY <1>4, <1>5, <2>2
  <1>7. (x - 1) + 1 = x
    BY <1>5
  <1> QED
    BY <1>4, <1>6, <1>7

(* f is the powers of b up to the n-th. *)
IsPowers(f, b, n) ==
    /\ f \in [0 .. n -> Nat]
    /\ f[0] = 1
    /\ \A k \in 0 .. (n - 1) : f[k + 1] = b * f[k]

(* They exist, for any n. *)
LEMMA PowersExist ==
    ASSUME NEW b \in Nat
    PROVE  \A n \in Nat : \E f : IsPowers(f, b, n)
  <1> DEFINE T == {n \in Nat : \E f : IsPowers(f, b, n)}
  <1>1. 0 \in T
    <2>1. IsPowers([k \in 0 .. 0 |-> 1], b, 0)
      BY DEF IsPowers
    <2> QED
      BY <2>1
  <1>2. ASSUME NEW n \in T
        PROVE  n + 1 \in T
    <2>1. PICK f : IsPowers(f, b, n)
      OBVIOUS
    <2> DEFINE g == [k \in 0 .. (n + 1) |-> IF k = n + 1 THEN b * f[n] ELSE f[k]]
    <2>2. \A k \in 0 .. n : f[k] \in Nat /\ k \in 0 .. (n + 1) /\ g[k] = f[k]
      BY <2>1 DEF IsPowers
    <2>3. b * f[n] \in Nat /\ n \in 0 .. n
      BY <2>1 DEF IsPowers
    <2>4. g \in [0 .. (n + 1) -> Nat]
      BY <2>1, <2>3 DEF IsPowers
    <2>5. g[0] = 1
      BY <2>1, <2>2 DEF IsPowers
    <2>6. ASSUME NEW k \in 0 .. n
          PROVE  g[k + 1] = b * g[k]
      <3>1. CASE k = n
        BY <2>2, <3>1
      <3>2. CASE k < n
        <4>1. k \in 0 .. (n - 1) /\ k + 1 \in 0 .. n
          BY <3>2
        <4>2. f[k + 1] = b * f[k]
          BY <2>1, <4>1 DEF IsPowers
        <4> HIDE DEF g
        <4> QED
          BY <2>2, <4>1, <4>2
      <3> QED
        BY <3>1, <3>2
    <2> HIDE DEF g
    <2>7. IsPowers(g, b, n + 1)
      BY <2>4, <2>5, <2>6 DEF IsPowers
    <2> QED
      BY <2>7
  <1> HIDE DEF T
  <1>3. T = Nat
    <2>1. T \in SUBSET Nat
      BY DEF T
    <2> QED
      BY <1>1, <1>2, <2>1, NatSetInduction
  <1> QED
    BY <1>3 DEF T

(* Two of them agree as far as both go. *)
LEMMA PowersAgree ==
    ASSUME NEW b \in Nat, NEW m \in Nat, NEW n \in Nat, NEW f, NEW g,
           IsPowers(f, b, m), IsPowers(g, b, n)
    PROVE  \A k \in Nat : k <= m /\ k <= n => f[k] = g[k]
  <1> DEFINE T == {k \in Nat : k <= m /\ k <= n => f[k] = g[k]}
  <1>1. 0 \in T
    BY DEF IsPowers
  <1>2. ASSUME NEW k \in T
        PROVE  k + 1 \in T
    <2> SUFFICES ASSUME k + 1 <= m, k + 1 <= n
                 PROVE  f[k + 1] = g[k + 1]
      OBVIOUS
    <2>1. k \in 0 .. (m - 1) /\ k \in 0 .. (n - 1) /\ f[k] = g[k]
      OBVIOUS
    <2>2. f[k + 1] = b * f[k] /\ g[k + 1] = b * g[k]
      BY <2>1 DEF IsPowers
    <2> QED
      BY <2>1, <2>2
  <1> HIDE DEF T
  <1>3. T = Nat
    <2>1. T \in SUBSET Nat
      BY DEF T
    <2> QED
      BY <1>1, <1>2, <2>1, NatSetInduction
  <1> QED
    BY <1>3 DEF T

(* The equations of the powers. *)
LEMMA PowIs ==
    ASSUME NEW b \in Nat
    PROVE  /\ Pow(b, 0) = 1
           /\ \A n \in Nat : Pow(b, n) \in Nat /\ Pow(b, n + 1) = b * Pow(b, n)
  <1> DEFINE p(n) == CHOOSE f : IsPowers(f, b, n)
             h == [n \in Nat |-> p(n)[n]]
             power == CHOOSE f : f = [k \in Nat |-> IF k = 0 THEN 1 ELSE b * f[k - 1]]
  <1>1. ASSUME NEW n \in Nat
        PROVE  IsPowers(p(n), b, n)
    <2>1. \E f : IsPowers(f, b, n)
      BY PowersExist
    <2> QED
      BY <2>1
  <1>2. h[0] = 1
    <2>1. IsPowers(p(0), b, 0)
      BY <1>1
    <2> HIDE DEF p
    <2> QED
      BY <2>1 DEF IsPowers
  <1>3. ASSUME NEW n \in Nat
        PROVE  h[n] \in Nat /\ h[n + 1] = b * h[n]
    <2>1. IsPowers(p(n), b, n) /\ IsPowers(p(n + 1), b, n + 1)
      BY <1>1
    <2> HIDE DEF p
    <2>2. n \in 0 .. n /\ n \in 0 .. ((n + 1) - 1) /\ n + 1 \in Nat
      OBVIOUS
    <2>3. p(n)[n] \in Nat /\ p(n + 1)[n + 1] = b * p(n + 1)[n]
      BY <2>1, <2>2 DEF IsPowers
    <2>4. p(n + 1)[n] = p(n)[n]
      BY <2>1, <2>2, PowersAgree
    <2> QED
      BY <2>2, <2>3, <2>4
  <1> HIDE DEF p
  <1>4. h = [k \in Nat |-> IF k = 0 THEN 1 ELSE b * h[k - 1]]
    <2>1. ASSUME NEW k \in Nat
          PROVE  h[k] = IF k = 0 THEN 1 ELSE b * h[k - 1]
      <3>1. CASE k = 0
        BY <1>2, <3>1
      <3>2. CASE k # 0
        <4>1. k - 1 \in Nat /\ (k - 1) + 1 = k
          BY <3>2
        <4> HIDE DEF h
        <4>2. h[(k - 1) + 1] = b * h[k - 1]
          BY <1>3, <4>1
        <4> QED
          BY <3>2, <4>1, <4>2
      <3> QED
        BY <3>1, <3>2
    <2>2. h = [k \in Nat |-> h[k]]
      OBVIOUS
    <2> HIDE DEF h
    <2> QED
      BY <2>1, <2>2
  <1>5. power = [k \in Nat |-> IF k = 0 THEN 1 ELSE b * power[k - 1]]
    <2>1. \E f : f = [k \in Nat |-> IF k = 0 THEN 1 ELSE b * f[k - 1]]
      <3> HIDE DEF h
      <3> QED
        BY <1>4
    <2> QED
      BY <2>1
  <1>6. \A n : Pow(b, n) = power[n]
    BY DEF Pow
  <1> HIDE DEF power, h
  <1>7. Pow(b, 0) = 1 /\ \A n \in Nat : Pow(b, n + 1) = b * Pow(b, n)
    <2>1. power[0] = 1
      BY <1>5
    <2>2. ASSUME NEW n \in Nat
          PROVE  power[n + 1] = b * power[n]
      <3>1. n + 1 \in Nat /\ n + 1 # 0 /\ (n + 1) - 1 = n
        OBVIOUS
      <3> QED
        BY <1>5, <3>1
    <2> QED
      BY <1>6, <2>1, <2>2
  <1> DEFINE T == {n \in Nat : Pow(b, n) \in Nat}
  <1>8. 0 \in T /\ \A n \in T : n + 1 \in T
    BY <1>7
  <1> HIDE DEF T
  <1>9. T = Nat
    <2>1. T \in SUBSET Nat
      BY DEF T
    <2> QED
      BY <1>8, <2>1, NatSetInduction
  <1> QED
    BY <1>7, <1>9 DEF T

(* A sum of exponents. *)
LEMMA PowAdd ==
    ASSUME NEW b \in Nat, NEW m \in Nat
    PROVE  \A n \in Nat : Pow(b, m + n) = Pow(b, m) * Pow(b, n)
  <1> DEFINE T == {n \in Nat : Pow(b, m + n) = Pow(b, m) * Pow(b, n)}
  <1>1. 0 \in T
    BY PowIs
  <1>2. ASSUME NEW n \in T
        PROVE  n + 1 \in T
    <2>1. /\ Pow(b, m + n) = Pow(b, m) * Pow(b, n)
          /\ Pow(b, n + 1) = b * Pow(b, n)
          /\ Pow(b, (m + n) + 1) = b * Pow(b, m + n)
          /\ Pow(b, m) \in Nat /\ Pow(b, n) \in Nat
      BY PowIs
    <2>2. (m + n) + 1 = m + (n + 1)
      OBVIOUS
    <2>3. Pow(b, m + (n + 1)) = b * (Pow(b, m) * Pow(b, n))
      BY <2>1, <2>2
    <2>4. b * (Pow(b, m) * Pow(b, n)) = Pow(b, m) * (b * Pow(b, n))
      <3> DEFINE x == Pow(b, m)
                 y == Pow(b, n)
      <3>1. x \in Nat /\ y \in Nat
        BY <2>1
      <3> HIDE DEF x, y
      <3>2. b * (x * y) = x * (b * y)
        BY <3>1
      <3> QED
        BY <3>2 DEF x, y
    <2> QED
      BY <2>1, <2>3, <2>4
  <1> HIDE DEF T
  <1>3. T = Nat
    <2>1. T \in SUBSET Nat
      BY DEF T
    <2> QED
      BY <1>1, <1>2, <2>1, NatSetInduction
  <1> QED
    BY <1>3 DEF T

(* Powers of a positive number are positive. *)
LEMMA PowPositive ==
    ASSUME NEW b \in Nat \ {0}
    PROVE  \A n \in Nat : Pow(b, n) \in Nat \ {0}
  <1> DEFINE T == {n \in Nat : Pow(b, n) \in Nat \ {0}}
  <1>1. 0 \in T
    BY PowIs
  <1>2. ASSUME NEW n \in T
        PROVE  n + 1 \in T
    <2>1. Pow(b, n + 1) = b * Pow(b, n) /\ Pow(b, n) \in Nat \ {0}
      BY PowIs
    <2>2. \A x \in Nat \ {0} : b * x \in Nat \ {0}
      OBVIOUS
    <2> QED
      BY <2>1, <2>2
  <1> HIDE DEF T
  <1>3. T = Nat
    <2>1. T \in SUBSET Nat
      BY DEF T
    <2> QED
      BY <1>1, <1>2, <2>1, NatSetInduction
  <1> QED
    BY <1>3 DEF T

(* They grow with the exponent. *)
LEMMA PowMonotone ==
    ASSUME NEW b \in Nat \ {0}, NEW m \in Nat, NEW n \in Nat, m <= n
    PROVE  Pow(b, m) <= Pow(b, n)
  <1> DEFINE x == Pow(b, m)
             y == Pow(b, n - m)
  <1>1. n - m \in Nat /\ m + (n - m) = n
    OBVIOUS
  <1>2. Pow(b, n) = x * y
    BY <1>1, PowAdd
  <1>3. x \in Nat \ {0} /\ y \in Nat \ {0}
    BY <1>1, PowPositive
  <1> HIDE DEF x, y
  <1>4. x <= x * y
    BY <1>3
  <1> QED
    BY <1>2, <1>4 DEF x

(* Division of numbers. *)
LEMMA DivMod ==
    ASSUME NEW a \in Nat, NEW b \in Nat \ {0}
    PROVE  /\ a \div b \in Nat /\ a \div b <= a
           /\ a % b \in Nat /\ a % b < b /\ a % b <= a
           /\ a = b * (a \div b) + (a % b)
  <1> DEFINE q == a \div b
             r == a % b
  <1>0. q \in Int /\ r \in Nat /\ r < b /\ a = b * q + r
    OBVIOUS
  <1> HIDE DEF q, r
  <1>1. q \in Nat
    <2> SUFFICES ASSUME q <= -1
                 PROVE  FALSE
      BY <1>0
    <2>1. b * (-1 - q) \in Nat
      BY <1>0
    <2>2. b * (-1 - q) = - b - b * q
      BY <1>0
    <2> QED
      BY <1>0, <2>1, <2>2
  <1>2. ASSUME q \in Nat, r \in Nat, a = b * q + r
        PROVE  q <= a /\ r <= a
    <2>1. (b - 1) * q \in Nat
      BY <1>2
    <2>2. b * q = (b - 1) * q + q
      BY <1>2
    <2> QED
      BY <1>2, <2>1, <2>2
  <1>3. q \in Nat /\ q <= a /\ r \in Nat /\ r < b /\ r <= a /\ a = b * q + r
    BY <1>0, <1>1, <1>2
  <1> QED
    BY <1>3 DEF q, r

(* Quotient and remainder are what the equation says they are. *)
LEMMA DivModIs ==
    ASSUME NEW a \in Nat, NEW b \in Nat \ {0}, NEW q \in Nat, NEW r \in Nat,
           a = b * q + r, r < b
    PROVE  a \div b = q /\ a % b = r
  OBVIOUS

(* Division by a product is division by its factors.                          *)
LEMMA DivDiv ==
    ASSUME NEW n \in Nat, NEW p \in Nat \ {0}, NEW b \in Nat \ {0}
    PROVE  n \div (b * p) = (n \div p) \div b
  <1> DEFINE q == n \div p
             r == n % p
             h == q \div b
             d == q % b
  <1>1. q \in Nat /\ r \in Nat /\ r < p /\ n = p * q + r
    BY DivMod
  <1>2. h \in Nat /\ d \in Nat /\ d < b /\ q = b * h + d
    <2> HIDE DEF q
    <2> QED
      BY <1>1, DivMod
  <1> HIDE DEF q, r, h, d
  <1>3. d * p + r \in Nat /\ d * p + r < b * p
    <2>1. (b - 1 - d) * p \in Nat /\ d * p \in Nat
      BY <1>2
    <2>2. (b - 1 - d) * p = b * p - p - d * p
      BY <1>2
    <2> QED
      BY <1>1, <2>1, <2>2
  <1>4. n = (b * p) * h + (d * p + r)
    <2>1. p * (b * h + d) = (b * p) * h + d * p
      BY <1>2
    <2> QED
      BY <1>1, <1>2, <2>1
  <1>5. b * p \in Nat \ {0}
    OBVIOUS
  <1>6. n \div (b * p) = h
    <2> DEFINE x == b * p
               y == d * p + r
    <2>1. x \in Nat \ {0} /\ y \in Nat /\ n = x * h + y /\ y < x
      BY <1>3, <1>4, <1>5
    <2> HIDE DEF x, y
    <2>2. n \div x = h
      BY <1>2, <2>1, DivModIs
    <2> QED
      BY <2>2 DEF x
  <1> QED
    BY <1>6 DEF h, q
=============================================================================
