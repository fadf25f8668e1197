------------------------------- MODULE RlpHeader ------------------------------
(***************************************************************************)
(* The headers of RLP items in rlp.h: a first byte, and behind it the      *)
(* bytes of the payload's length when that is long.                        *)
(*                                                                         *)
(* The layout of the first byte is a parameter: Own values are their own   *)
(* encoding, Short is the longest payload whose length fits in the first   *)
(* byte, and lengths take up to LenLen bytes, which is also the width of   *)
(* size_t.  In the program Own is 128, Short 55 and LenLen 8, which gives  *)
(* the boundaries 0x80, 0xb7, 0xc0, 0xf7 and a Base of 256.                *)
(*                                                                         *)
(* The decoder's position may leave the input, because the subtractions    *)
(* on size are unsigned and unchecked.  What it reads there is undefined:  *)
(* some bytes, and then a fault.                                           *)
(***************************************************************************)
EXTENDS Integers, Sequences, Powers

CONSTANTS
    Own,       \* number of bytes that encode themselves
    Short,     \* longest payload with a one-byte header
    LenLen     \* sizeof(size_t)

ASSUME LayoutAssumption ==
    Own \in Nat \ {0} /\ Short \in Nat \ {0} /\ LenLen \in Nat \ {0}

StringHead == Own                          \* 0x80
LongString == StringHead + Short           \* 0xb7
ListHead   == LongString + LenLen + 1      \* 0xc0
LongList   == ListHead + Short             \* 0xf7
Base       == LongList + LenLen + 1        \* 0x100

Byte == 0 .. (Base - 1)

SizeMod == Pow(Base, LenLen)               \* number of values of a size_t

-----------------------------------------------------------------------------
(* Encoding. *)

(* How many bytes n takes without leading zeroes: none for 0. *)
significant_bytes(n) ==
    CHOOSE k \in 0 .. n : n < Pow(Base, k) /\ (k > 0 => Pow(Base, k - 1) <= n)

big_endian(n) ==
    LET bytes == significant_bytes(n)
    IN  [i \in 1 .. bytes |-> (n \div Pow(Base, bytes - i)) % Base]

(* Header and payload, with the length in the first byte or behind it. *)
prefix(short, long, bs) ==
    LET length_as_bytes == big_endian(Len(bs))
    IN  IF Len(bs) <= Short
          THEN <<short + Len(bs)>> \o bs
          ELSE <<long + Len(length_as_bytes)>> \o length_as_bytes \o bs

prefix_multiple_length(bs) == prefix(ListHead, LongList, bs)

-----------------------------------------------------------------------------
(* Decoding. *)

(* What big-endian bytes stand for. *)
Number(bs) ==
    LET number[k \in 0 .. Len(bs)] ==
            IF k = 0 THEN 0 ELSE number[k - 1] * Base + bs[k]
    IN  number[Len(bs)]

(* m is the memory from the begin of the input on, d the offset of the        *)
(* pointer data, s the variable size.  The operators of decoding return where *)
(* the two end and the value, or that they threw or ran into unmapped memory. *)

Ok(d, s, v)  == [is |-> "ok", data |-> d, size |-> s, val |-> v]
Fail(reason) == [is |-> reason, data |-> 0, size |-> 0, val |-> <<>>]

Then(r, Continue(_)) == IF r.is = "ok" THEN Continue(r) ELSE r

(* The n bytes at d, as F(bytes). *)
Read(m, d, n, F(_)) ==
    IF d + n > Len(m) THEN Fail("crashed") ELSE Ok(d + n, 0, F(SubSeq(m, d + 1, d + n)))

from_bytes_size(m, d, n) ==
    IF n > LenLen THEN Fail("threw") ELSE Read(m, d, n, Number)

(* The arity and length of the next item, own when its first byte is its own  *)
(* encoding.                                                                  *)
next_length(m, d, s, own) ==
    IF s = 0
      THEN Fail("threw")
      ELSE IF d >= Len(m)
        THEN Fail("crashed")
        ELSE LET b == m[d + 1]
                 behind(arity, n) ==
                     IF s - 1 < n
                       THEN Fail("threw")
                       ELSE Then(from_bytes_size(m, d + 1, n),
                                 LAMBDA r : Ok(r.data, s - 1 - n, <<arity, r.val>>))
             IN  CASE b < StringHead  -> own
                   [] b \in StringHead .. LongString ->
                          Ok(d + 1, s - 1, <<"Single", b - StringHead>>)
                   [] b \in (LongString + 1) .. (ListHead - 1) ->
                          behind("Single", b - LongString)
                   [] b \in ListHead .. LongList ->
                          Ok(d + 1, s - 1, <<"Multiple", b - ListHead>>)
                   [] b > LongList    -> behind("Multiple", b - LongList)

decode_length_eager(m, d, s) ==            \* variant: always takes the first byte
    next_length(m, d, s, Ok(d + 1, s - 1, <<"Single", 1>>))

(* A byte that is its own encoding is not consumed, a header is. *)
decode_length(m, d, s) == next_length(m, d, s, Ok(d, s, <<"Single", 1>>))
=============================================================================
