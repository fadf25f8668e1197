-------------------------------- MODULE MCRlp ---------------------------------
(* Types and values for Rlp: scalars, and the three kinds of lists in each    *)
(* other, with payloads on both sides of the limit for short headers.         *)
EXTENDS Rlp

bytes    == [k |-> "bytes", n |-> 0, of |-> <<>>]
uint     == [k |-> "uint", n |-> LenLen, of |-> <<>>]
uint8    == [k |-> "uint", n |-> 1, of |-> <<>>]
uint256  == [k |-> "uint256", n |-> 0, of |-> <<>>]
fixed(n) == [k |-> "fixed", n |-> n, of |-> <<>>]
array(T, n)  == [k |-> "array", n |-> n, of |-> <<T>>]
vector(T)    == [k |-> "vector", n |-> 0, of |-> <<T>>]
tuple(Ts)    == AsTuple(Ts)

UsedTypes ==
    {bytes, uint, uint8, uint256, fixed(1), vector(uint), array(bytes, 2),
     vector(vector(uint)), tuple(<<>>), tuple(<<uint>>), tuple(<<bytes>>),
     tuple(<<uint, tuple(<<bytes>>)>>), tuple(<<tuple(<<uint>>), uint>>),
     tuple(<<tuple(<<>>)>>)}

UsedValues(T) ==
    CASE T = bytes           -> ByteString(2)
      [] T = uint            -> 0 .. (SizeMod - 1)
      [] T = uint8 /\ T # uint -> Byte
      [] T = uint256         -> {0, 1, 9, 10, 99, 100, 999}
      [] T = fixed(1)        -> [1 .. 1 -> Byte]
      [] T = vector(uint)    -> {<<>>, <<0>>, <<1>>, <<2>>, <<10, 0>>, <<1, 9>>}
      [] T = array(bytes, 2) -> [1 .. 2 -> {<<>>, <<0>>, <<9>>, <<3, 3>>}]
      [] T = vector(vector(uint)) -> {<<>>, <<<<>>>>, <<<<>>, <<1, 9>>>>}
      [] T = tuple(<<>>)     -> {<<>>}
      [] T = tuple(<<uint>>) -> {<<n>> : n \in {0, 1}}
      [] T = tuple(<<bytes>>) -> {<<b>> : b \in ByteString(1)}
      [] T = tuple(<<uint, tuple(<<bytes>>)>>) ->
             {<<n, <<b>>>> : n \in {0, 1, 10}, b \in ByteString(1)}
      [] T = tuple(<<tuple(<<uint>>), uint>>) ->
             {<<<<m>>, n>> : m \in {0, 1}, n \in {0, 1, 11}}
      [] T = tuple(<<tuple(<<>>)>>) -> {<<<<>>>>}

RECURSIVE Depth(_)
Depth(T) ==
    IF T.of = <<>> THEN 0 ELSE 1 + Max({Depth(T.of[i]) : i \in DOMAIN T.of})

Of(Ts, values) == {<<Ts, v>> : v \in values}

(* Every value of every type on its own. *)
SingleArgs == UNION {Of(<<T>>, {<<v>> : v \in UsedValues(T)}) : T \in UsedTypes}

SmallArgs ==
    SingleArgs
    \cup Of(<<>>, {<<>>})
    \cup Of(<<uint, bytes>>, {<<n, b>> : n \in {0, 7, 10}, b \in ByteString(1)})
    \cup Of(<<tuple(<<uint>>), uint>>, {<<<<m>>, n>> : m \in {0, 1}, n \in {1, 11}})
    \cup Of(<<uint, tuple(<<>>)>>, {<<n, <<>>>> : n \in {0, 1, 11}})
    \cup Of(<<tuple(<<tuple(<<>>)>>), tuple(<<>>)>>, {<<<<<<>>>>, <<>>>>})
=============================================================================
