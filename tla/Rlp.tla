--------------------------------- MODULE Rlp ----------------------------------
(***************************************************************************)
(* The RLP encoder and decoder of rlp.h, which generate_address uses to    *)
(* derive the address of a new account and which hosts use for             *)
(* transactions.                                                           *)
(*                                                                         *)
(* A C++ type of the template parameter lists is a record: bytes stands    *)
(* for ByteString and std::string, uint for an unsigned integer of n bytes *)
(* up to size_t, uint256 for uint256_t, fixed for std::array<uint8_t, n>,  *)
(* array for std::array of any other type, vector and tuple for            *)
(* themselves; of lists the types of the components.                       *)
(*                                                                         *)
(* The compiler instantiates the templates once for every type that        *)
(* occurs, after the types it is made of.  Here encoder and decoder are    *)
(* the tables of these instances, and an operator that stands for a        *)
(* template has the instances for the components as its argument sub.      *)
(***************************************************************************)
EXTENDS RlpHeader, SequencesExt

CONSTANTS
    Types,        \* the types that the templates are instantiated with
    Nesting(_),   \* how deep a type is nested
    Values(_),    \* the values of a type that occur
    WordLen,      \* number of bytes of a uint256_t
    Args,         \* pairs of a list of types and a list of values of these types
    MaxInput,     \* bound: length of the inputs that nothing encoded
    MaxTail       \* bound: number of readable bytes behind the input

IsTuple(T) == T.k = "tuple"
IsList(T)  == T.k \in {"array", "vector", "tuple"}

(* The i-th component of a value of list type T has the type T.of[Part(T, i)]. *)
Part(T, i) == IF IsTuple(T) THEN i ELSE 1

ASSUME TypesAssumption ==
    /\ WordLen \in Nat \ {0} /\ MaxInput \in Nat /\ MaxTail \in Nat
    /\ \A T \in Types :
          /\ T.k \in {"bytes", "fixed", "uint", "uint256", "array", "vector", "tuple"}
          /\ T.n \in Nat /\ (T.k = "uint" => T.n \in 1 .. LenLen)
          /\ T.of \in Seq(Types) /\ (T.k \in {"array", "vector"} => Len(T.of) = 1)
          /\ Nesting(T) \in Nat
          /\ \A i \in DOMAIN T.of : Nesting(T.of[i]) < Nesting(T)

IsSequence(v, n) == n \in Nat /\ v = [i \in 1 .. n |-> v[i]]

ASSUME ValuesAssumption ==
    \A T \in Types : \A v \in Values(T) :
        /\ T.k = "bytes"   => v \in Seq(Byte)
        /\ T.k = "fixed"   => v \in [1 .. T.n -> Byte]
        /\ T.k = "uint"    => v \in 0 .. (Pow(Base, T.n) - 1)
        /\ T.k = "uint256" => v \in 0 .. (Pow(Base, WordLen) - 1)
        /\ IsList(T) => IsSequence(v, IF T.k = "array"  THEN T.n ELSE
                                      IF T.k = "vector" THEN Len(v) ELSE Len(T.of))
        /\ IsList(T) => \A i \in DOMAIN v : v[i] \in Values(T.of[Part(T, i)])

ASSUME ArgsAssumption ==
    \A arg \in Args :
        /\ arg[1] \in Seq(Types) /\ IsSequence(arg[2], Len(arg[1]))
        /\ \A i \in DOMAIN arg[1] : arg[2][i] \in Values(arg[1][i])

VARIABLES
    types, value,  \* what the caller of encode and decode named and passed
    data,          \* the bytes
    origin,        \* "none" yet, "encode" made them, or they are "other" bytes
    outcome        \* what decode did, once it was called

vars == <<types, value, data, origin, outcome>>

-----------------------------------------------------------------------------
(* Encoding. *)

(* The encodings of the components, one after the other. *)
flattened(T, sub, v) == FlattenSeq([i \in DOMAIN v |-> sub[Part(T, i)][v[i]]])

to_byte_string_bare(T, sub, v) ==        \* variant: elements without a header
    CASE T.k \in {"bytes", "fixed"}   -> v
      [] T.k \in {"uint", "uint256"}  -> big_endian(v)
      [] T.k \in {"array", "vector"}  -> flattened(T, sub, v)

(* Arrays and vectors become a list first, which encode_single then wraps as  *)
(* a string: they have two headers.                                           *)
to_byte_string(T, sub, v) ==
    CASE T.k \in {"bytes", "fixed"}   -> v
      [] T.k \in {"uint", "uint256"}  -> big_endian(v)
      [] T.k \in {"array", "vector"}  -> prefix_multiple_length(flattened(T, sub, v))

encode_single(T, sub, v) ==
    LET bytes == to_byte_string(T, sub, v)
    IN  IF Len(bytes) = 1 /\ bytes[1] < StringHead
          THEN bytes
          ELSE prefix(StringHead, LongString, bytes)

encode_item(T, sub, v) ==
    IF IsTuple(T)
      THEN prefix_multiple_length(flattened(T, sub, v))
      ELSE encode_single(T, sub, v)

encoder[T \in Types] ==
    LET sub == [i \in DOMAIN T.of |-> encoder[T.of[i]]]
    IN  [v \in Values(T) |-> encode_item(T, sub, v)]

(* Several arguments are encoded as if they were a tuple. *)
AsTuple(Ts) == [k |-> "tuple", n |-> 0, of |-> Ts]

(* encode(ts...) *)
encode(Ts, vs) ==
    IF Len(Ts) = 1
      THEN encoder[Ts[1]][vs[1]]
      ELSE encode_item(AsTuple(Ts), [i \in DOMAIN Ts |-> encoder[Ts[i]]], vs)

(* What is encoded has a length that is a size_t, and that of all arguments   *)
(* with one byte more, too: it is in memory.                                  *)
ASSUME SizeAssumption ==
    /\ MaxInput < SizeMod
    /\ \A T \in Types : \A v \in Values(T) : Len(encoder[T][v]) < SizeMod
    /\ \A arg \in Args : Len(encode(arg[1], arg[2])) + 1 < SizeMod

-----------------------------------------------------------------------------
(* Decoding. *)

(* size -= contained_length, unsigned *)
Minus_checked(s, n) == IF n <= s THEN s - n ELSE 0   \* variant: saturates
Minus(s, n) == (s - n) % SizeMod

(* The header, and by contents the payload of the announced length.  That     *)
(* length is taken off size whether or not so much is left, and what the      *)
(* payload leaves unread of it, or reads beyond it, is not looked at again.   *)
decode_impl(Ts, contents, m, d, s) ==
    LET item(h) ==
            LET arity  == IF Len(Ts) = 1 /\ ~ IsTuple(Ts[1]) THEN "Single" ELSE "Multiple"
                length == h.val[2]
            IN  IF h.val[1] # arity \/ (Ts = <<>> /\ length # 0)
                  THEN Fail("threw")
                  ELSE IF Ts = <<>>
                    THEN Ok(h.data, h.size, <<>>)
                    ELSE Then(contents[<<m, h.data, length>>],
                              LAMBDA r : Ok(r.data, Minus(h.size, length), r.val))
    IN  Then(decode_length(m, d, s), item)

(* After k items, the i-th of which next[<<i, data, size>>] decodes: where    *)
(* data and size are, and the values so far.                                  *)
after_items(next, d, s) ==
    LET after[k \in Nat] ==
            IF k = 0
              THEN Ok(d, s, <<>>)
              ELSE Then(after[k - 1], LAMBDA r :
                       Then(next[<<k, r.data, r.size>>], LAMBDA q :
                           Ok(q.data, q.size, Append(r.val, q.val))))
    IN  after

(* The components of a value of type T, each with a header of its own.        *)
components(T, sub, m) ==
    [c \in (Nat \ {0}) \X Nat \X Nat |->
        decode_impl(<<T.of[Part(T, c[1])]>>, sub[Part(T, c[1])], m, c[2], c[3])]

(* while (contained_length > 0) of std::vector.  Each round advances data or  *)
(* takes a byte off contained_length, so there are at most rounds of them.    *)
vector_items(T, sub, m, d, contained_length) ==
    LET after  == after_items(components(T, sub, m), d, contained_length)
        ended(k) == after[k].is # "ok" \/ after[k].size = 0
        rounds == (Len(m) + 1) * SizeMod
    IN  after[CHOOSE k \in 0 .. rounds : ended(k) /\ \A j \in 0 .. (k - 1) : ~ ended(j)]

(* from_bytes<T> on the n bytes at d.  A number is cast to its type.  Arrays  *)
(* and vectors read their second header; an array ignores what it says, a     *)
(* vector takes the length from it.                                           *)
from_bytes(T, sub, m, d, n) ==
    LET list(Items(_)) ==
            Then(Then(decode_length(m, d, n), Items), LAMBDA r : Ok(r.data, 0, r.val))
    IN  CASE T.k = "bytes"   -> Read(m, d, n, LAMBDA bs : bs)
          [] T.k = "uint"    -> Then(from_bytes_size(m, d, n),
                                     LAMBDA r : Ok(r.data, 0, r.val % Pow(Base, T.n)))
          [] T.k = "uint256" -> IF n > WordLen THEN Fail("threw") ELSE Read(m, d, n, Number)
          [] T.k = "fixed"   -> IF n # T.n THEN Fail("threw") ELSE Read(m, d, n, LAMBDA bs : bs)
          [] T.k = "array"   ->
                 list(LAMBDA h : after_items(components(T, sub, m), h.data, h.size)[T.n])
          [] T.k = "vector"  ->
                 list(LAMBDA h : vector_items(T, sub, m, h.data, h.val[2]))

decode_tuple(T, sub, m, d, s) == after_items(components(T, sub, m), d, s)[Len(T.of)]

Place == Seq(Byte) \X Nat \X Nat        \* the memory, data and a length

decoder[T \in Types] ==
    LET sub == [i \in DOMAIN T.of |-> decoder[T.of[i]]]
    IN  [c \in Place |-> IF IsTuple(T) THEN decode_tuple(T, sub, c[1], c[2], c[3])
                                      ELSE from_bytes(T, sub, c[1], c[2], c[3])]

(* decode_item of a tuple goes to its entries without reading a header: right *)
(* when the tuple is the only argument, whose header decode_impl has read.    *)
decode_item(T, m, d, s) ==
    IF IsTuple(T) THEN decoder[T][<<m, d, s>>] ELSE decode_impl(<<T>>, decoder[T], m, d, s)

decode_multiple(Ts, m, d, s) ==
    after_items([c \in (1 .. Len(Ts)) \X Nat \X Nat |-> decode_item(Ts[c[1]], m, c[2], c[3])],
                d, s)[Len(Ts)]

(* decode<Ts...>: an input that is not used up by its outermost item throws.  *)
(* The value of one type is returned in a tuple of its own.                   *)
decode(Ts, input, tail) ==
    LET contents == [c \in Place |->
                        IF Len(Ts) = 1
                          THEN Then(decoder[Ts[1]][c], LAMBDA r : Ok(r.data, r.size, <<r.val>>))
                          ELSE decode_multiple(Ts, c[1], c[2], c[3])]
        r == decode_impl(Ts, contents, input \o tail, 0, Len(input))
    IN  IF r.is = "ok" /\ r.size # 0 THEN Fail("threw") ELSE r

-----------------------------------------------------------------------------
(* The caller. *)

ByteString(n) == UNION {[1 .. k -> Byte] : k \in 0 .. n}

NotDecoded == [is |-> "none", data |-> 0, size |-> 0, val |-> <<>>]

Init ==
    /\ \E arg \in Args : types = arg[1] /\ value = arg[2]
    /\ data = <<>>
    /\ origin = "none"
    /\ outcome = NotDecoded

Encode ==
    /\ origin = "none"
    /\ data' = encode(types, value)
    /\ origin' = "encode"
    /\ UNCHANGED <<types, value, outcome>>

(* Bytes from elsewhere: any short input, and no value that it stands for. *)
Receive ==
    /\ origin = "none"
    /\ data' \in ByteString(MaxInput)
    /\ origin' = "other" /\ value' = <<>>
    /\ UNCHANGED <<types, outcome>>

(* An encoding that lost its end, got more bytes, or had a byte changed. *)
Damage ==
    /\ origin = "encode" /\ outcome = NotDecoded
    /\ data' \in {SubSeq(data, 1, k) : k \in 0 .. (Len(data) - 1)}
                 \cup {Append(data, b) : b \in Byte}
                 \cup {[data EXCEPT ![k] = b] : k \in DOMAIN data, b \in Byte}
    /\ origin' = "other" /\ value' = <<>>
    /\ UNCHANGED <<types, outcome>>

Decode ==
    /\ origin # "none" /\ outcome = NotDecoded
    /\ \E tail \in ByteString(MaxTail) : outcome' = decode(types, data, tail)
    /\ UNCHANGED <<types, value, data, origin>>

Next == Encode \/ Receive \/ Damage \/ Decode

Spec == Init /\ [][Next]_vars

-----------------------------------------------------------------------------
(* Properties. *)

(* The number of bytes the first item of bs takes by the rules of RLP, in     *)
(* numbers that do not wrap; 0 when the header is incomplete.                 *)
ItemLength(bs) ==
    LET n(head) == bs[1] - head
        long(head) == IF Len(bs) <= n(head)
                        THEN 0
                        ELSE 1 + n(head) + Number(SubSeq(bs, 2, 1 + n(head)))
    IN  CASE bs = <<>>              -> 0
          [] bs # <<>> /\ bs[1] < StringHead -> 1
          [] bs # <<>> /\ bs[1] \in StringHead .. LongString -> 1 + n(StringHead)
          [] bs # <<>> /\ bs[1] \in (LongString + 1) .. (ListHead - 1) -> long(LongString)
          [] bs # <<>> /\ bs[1] \in ListHead .. LongList -> 1 + n(ListHead)
          [] bs # <<>> /\ bs[1] > LongList -> long(LongList)

(* What decode accepts is one item and nothing else: no input that was cut    *)
(* off or continued is ever accepted, although no step compares an announced  *)
(* length with what is left, and the subtractions wrap.                       *)
OuterLengthExact ==
    outcome.is = "ok" => data # <<>> /\ ItemLength(data) = Len(data)

(* A tuple beside other arguments: decode_item does not read its header. *)
TupleAmongOthers == Len(types) > 1 /\ \E i \in DOMAIN types : IsTuple(types[i])

(* decode<Ts...>(encode(ts...)) is ts..., at every nesting of tuples, arrays  *)
(* and vectors, with every byte read once and none outside the input.  Hence  *)
(* two senders or nonces never have the same encoding in generate_address.    *)
RoundTrip ==
    (origin = "encode" /\ outcome # NotDecoded /\ ~ TupleAmongOthers)
        => outcome = Ok(Len(data), 0, value)

(* A tuple beside other arguments may make decode throw on what encode wrote, *)
(* but it never yields other values than those encoded, whatever the memory   *)
(* behind the input holds.                                                    *)
NeverMistaken ==
    (origin = "encode" /\ outcome.is = "ok") => outcome.val = value
=============================================================================
