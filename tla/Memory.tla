-------------------------------- MODULE Memory --------------------------------
(***************************************************************************)
(* The memory of a context and the storage of its account, with contents:  *)
(* the handlers that compute offsets, resize the vector of bytes and copy  *)
(* from and to it.                                                         *)
(*                                                                         *)
(* Processor knows of memory its size and of storage which keys are set.   *)
(* Here offsets have a width: uint64_t sums wrap, and each handler has its *)
(* own way to notice or not to notice.  A word is its bytes, the most      *)
(* significant first, so that to_big_endian and from_big_endian are the    *)
(* functions k |-> w[k]; its lowest byte is the last one.                  *)
(*                                                                         *)
(* Fetch is the program: it picks an opcode and the operands that the      *)
(* handler finds on the stack.  The opcodes that read memory and otherwise *)
(* differ in what they do with the bytes (SHA3, LOG, RETURN, CREATE, the   *)
(* calls for their input) are READ.  The ones that copy into it, from the  *)
(* code, another account's code, the input or the output of a call, are    *)
(* COPY.                                                                   *)
(***************************************************************************)
EXTENDS Integers, Sequences

CONSTANTS
    Byte, Key,
    WordBytes,   \* Consts::WORD_SIZE
    OffMod,      \* 2^64
    MaxMem,      \* Consts::MAX_MEM_SIZE
    Sources,     \* what is copied from: code, input, output
    StoredWords  \* bound: the words that are stored

ASSUME MemoryAssumption ==
    /\ 0 \in Byte
    /\ WordBytes \in Nat \ {0} /\ MaxMem \in Nat
    /\ OffMod \in Nat /\ MaxMem < OffMod /\ WordBytes < OffMod
    /\ Sources \subseteq Seq(Byte)
    /\ \A source \in Sources : Len(source) + MaxMem <= OffMod
    /\ StoredWords \subseteq [0 .. (WordBytes - 1) -> Byte]

VARIABLES
    mem, msize,  \* Context::mem: msize bytes, numbered from 0
    st,          \* SimpleStorage::s: keys to words
    instr, out, ex

mvars == <<mem, msize, st, instr, out, ex>>

Offset == 0 .. (OffMod - 1)

Word == [0 .. (WordBytes - 1) -> Byte]

Zero == [k \in 0 .. (WordBytes - 1) |-> 0]

Nothing == [k \in {} |-> 0]

Idle == [op |-> "idle"]

Fetched ==
    {[op |-> "MLOAD", off |-> o] : o \in Offset}
    \cup {[op |-> "READ", off |-> o, size |-> n] : o \in Offset, n \in Offset}
    \cup {[op |-> i, off |-> o, word |-> w] :
              i \in {"MSTORE", "MSTORE8"}, o \in Offset, w \in StoredWords}
    \cup {[op |-> "COPY", off |-> d, from |-> o, size |-> n, source |-> b] :
              d \in Offset, o \in Offset, n \in Offset, b \in Sources}
    \cup {[op |-> "CALLDATALOAD", off |-> o, source |-> b] : o \in Offset, b \in Sources}
    \cup {[op |-> "SLOAD", key |-> k] : k \in Key}
    \cup {[op |-> "SSTORE", key |-> k, word |-> w] : k \in Key, w \in StoredWords}

MemTypeOK ==
    /\ msize \in 0 .. MaxMem
    /\ mem \in [0 .. (msize - 1) -> Byte]
    /\ \E keys \in SUBSET Key : st \in [keys -> Word]
    /\ instr \in Fetched \cup {Idle}
    /\ ex \in {"none", "outOfBounds", "overflow_error"}

-----------------------------------------------------------------------------
(* Sums of offsets, and the checks on them. *)

Sum(x, y) == (x + y) % OffMod

Lesser(a, b) == IF a <= b THEN a ELSE b

Larger(a, b) == IF a >= b THEN a ELSE b

access_error_unlimited(offset, size) ==  \* variant: no check of the limit
    Sum(offset, size) < offset

access_error(offset, size) ==
    \/ Sum(offset, size) < offset
    \/ Sum(offset, size) > MaxMem

Throw(e) ==
    /\ ex' = e /\ out' = Nothing
    /\ UNCHANGED <<mem, msize, st>>

(* mem.resize(end) where mem is shorter. *)
Resized(end) ==
    [k \in 0 .. (Larger(msize, end) - 1) |-> IF k < msize THEN mem[k] ELSE 0]

Resize(end) == msize' = Larger(msize, end)

(* prepare_mem_access, and the bytes from offset on. *)
copy_from_mem(offset, size) ==
    IF access_error(offset, size) THEN Throw("outOfBounds")
    ELSE LET end == Sum(offset, size)
         IN  /\ Resize(end) /\ mem' = Resized(end)
             /\ out' = [k \in 0 .. (size - 1) |-> Resized(end)[offset + k]]
             /\ ex' = "none"
             /\ UNCHANGED st

(* prepare_mem_access, and a write of size bytes at offset. *)
Put(offset, size, b(_)) ==
    IF access_error(offset, size) THEN Throw("outOfBounds")
    ELSE LET end == Sum(offset, size)
         IN  /\ Resize(end)
             /\ mem' = [k \in 0 .. (Larger(msize, end) - 1) |->
                           IF offset <= k /\ k < end THEN b(k - offset) ELSE Resized(end)[k]]
             /\ out' = Nothing /\ ex' = "none"
             /\ UNCHANGED st

(* How many of the size bytes to be copied the source does not have. *)
remaining(offSrc, size, length) ==
    LET lastSrc == Sum(offSrc, size)
        endSrc  == Lesser(lastSrc, length)
    IN  IF endSrc > offSrc THEN lastSrc - endSrc ELSE size

copy_mem_raw(offDst, offSrc, size, src) ==
    IF size = 0
    THEN ex' = "none" /\ out' = Nothing /\ UNCHANGED <<mem, msize, st>>
    ELSE IF access_error(offDst, size) THEN Throw("outOfBounds")
    ELSE LET lastDst == Sum(offDst, size)
             padding == lastDst - remaining(offSrc, size, Len(src))
         IN  /\ Resize(lastDst)
             /\ mem' = [k \in 0 .. (Larger(msize, lastDst) - 1) |->
                           IF k >= lastDst \/ k < offDst THEN Resized(lastDst)[k]
                           ELSE IF k >= padding THEN 0
                           ELSE src[offSrc + (k - offDst) + 1]]
             /\ out' = Nothing /\ ex' = "none"
             /\ UNCHANGED st

-----------------------------------------------------------------------------
(* The handlers. *)

mload == copy_from_mem(instr.off, WordBytes)

mstore ==
    LET b(k) == instr.word[k]
    IN  Put(instr.off, WordBytes, b)

mstore8_highest ==                       \* variant: the other end of the word
    LET b(k) == instr.word[0]
    IN  Put(instr.off, 1, b)

mstore8 ==
    LET b(k) == instr.word[WordBytes - 1]
    IN  Put(instr.off, 1, b)

(* safeAdd, and a loop that shifts bytes of the input in until it is over,    *)
(* and zeros instead of the others.                                           *)
calldataload ==
    IF Sum(instr.off, WordBytes) < instr.off THEN Throw("overflow_error")
    ELSE LET sizeInput == Len(instr.source)
             i == IF instr.off < sizeInput THEN Lesser(sizeInput - instr.off, WordBytes)
                  ELSE 0
         IN  /\ out' = [k \in 0 .. (WordBytes - 1) |->
                           IF k < i THEN instr.source[instr.off + k + 1] ELSE 0]
             /\ ex' = "none"
             /\ UNCHANGED <<mem, msize, st>>

sload ==
    /\ out' = IF instr.key \in DOMAIN st THEN st[instr.key] ELSE Zero
    /\ ex' = "none"
    /\ UNCHANGED <<mem, msize, st>>

st_store(map, key, w) == [k \in DOMAIN map \cup {key} |-> IF k = key THEN w ELSE map[k]]

st_remove(map, key) == [k \in DOMAIN map \ {key} |-> map[k]]

sstore_plain ==                          \* variant: a zero is stored like other words
    /\ st' = st_store(st, instr.key, instr.word)
    /\ out' = Nothing /\ ex' = "none"
    /\ UNCHANGED <<mem, msize>>

sstore ==
    /\ st' = IF instr.word = Zero THEN st_remove(st, instr.key)
             ELSE st_store(st, instr.key, instr.word)
    /\ out' = Nothing /\ ex' = "none"
    /\ UNCHANGED <<mem, msize>>

Fetch ==
    /\ instr = Idle
    /\ instr' \in Fetched
    /\ out' = Nothing /\ ex' = "none"
    /\ UNCHANGED <<mem, msize, st>>

Execute ==
    /\ instr # Idle /\ instr' = Idle
    /\ \/ instr.op = "MLOAD" /\ mload
       \/ instr.op = "READ" /\ copy_from_mem(instr.off, instr.size)
       \/ instr.op = "MSTORE" /\ mstore
       \/ instr.op = "MSTORE8" /\ mstore8
       \/ instr.op = "COPY" /\ copy_mem_raw(instr.off, instr.from, instr.size, instr.source)
       \/ instr.op = "CALLDATALOAD" /\ calldataload
       \/ instr.op = "SLOAD" /\ sload
       \/ instr.op = "SSTORE" /\ sstore

MemInit ==
    /\ msize = 0 /\ mem = Nothing
    /\ st = Nothing
    /\ instr = Idle /\ out = Nothing /\ ex = "none"

MemNext == Fetch \/ Execute

MemSpec == MemInit /\ [][MemNext]_mvars

-----------------------------------------------------------------------------
(* Memory and storage behave as an array and a map of unbounded numbers do:   *)
(* no access at an offset that wraps, beyond the end of a source or beyond    *)
(* the end of memory reads or writes other bytes than it should, and one that *)
(* throws does nothing.                                                       *)
BA == INSTANCE ByteArray WITH
          Limit <- MaxMem,
          bytes <- [k \in 0 .. (MaxMem - 1) |-> IF k < msize THEN mem[k] ELSE 0],
          high <- msize,
          store <- [k \in Key |-> IF k \in DOMAIN st THEN st[k] ELSE Zero]

RefinesByteArray == BA!Spec

(* Storage holds no zeros, whatever is stored: two storages in which every    *)
(* key loads the same word are equal to SimpleStorage::operator==, which      *)
(* compares the maps.                                                         *)
NoZeroStored == \A k \in DOMAIN st : st[k] # Zero
=============================================================================
