----------------------------- MODULE MemoryProof ------------------------------
(***************************************************************************)
(* Memory implements ByteArray, for offsets of any width, any limit of     *)
(* memory and any sources.                                                 *)
(*                                                                         *)
(* The argument is about sums that wrap.  access_error rejects exactly the *)
(* accesses that end beyond the limit, so the sum behind an access that is *)
(* done did not wrap.  The end of the source in copy_mem_raw is not        *)
(* checked: when that sum wraps, all bytes to be copied lie behind the     *)
(* source, and the code's minimum happens to say so.                       *)
(***************************************************************************)
EXTENDS Memory, TLAPS

(* A sum of two offsets wraps at most once. *)
LEMMA SumIs ==
    ASSUME NEW x \in Offset, NEW y \in Offset
    PROVE  Sum(x, y) = IF x + y < OffMod THEN x + y ELSE x + y - OffMod
  <1>1. CASE x + y < OffMod
    BY <1>1, MemoryAssumption DEF Sum, Offset
  <1>2. CASE x + y >= OffMod
    <2>1. x + y = OffMod + (x + y - OffMod) /\ x + y - OffMod \in 0 .. (OffMod - 1)
      BY <1>2, MemoryAssumption DEF Offset
    <2> QED
      BY <2>1, <1>2, MemoryAssumption DEF Sum, Offset
  <1> QED
    BY <1>1, <1>2, MemoryAssumption DEF Offset

(* The check rejects exactly what ends beyond the limit; what it lets pass    *)
(* did not wrap.                                                              *)
LEMMA AccessIs ==
    ASSUME NEW x \in Offset, NEW y \in Offset
    PROVE  /\ access_error(x, y) <=> x + y > MaxMem
           /\ ~ access_error(x, y) => Sum(x, y) = x + y
  BY SumIs, MemoryAssumption DEF access_error, Offset

(* The operands of each opcode that Fetch can pick. *)
LEMMA Operands ==
    ASSUME instr \in Fetched
    PROVE  /\ instr.op \in {"MLOAD", "READ", "MSTORE", "MSTORE8", "COPY", "CALLDATALOAD"}
                  => instr.off \in Offset
           /\ instr.op \in {"READ", "COPY"} => instr.size \in Offset
           /\ instr.op \in {"MSTORE", "MSTORE8", "SSTORE"} => instr.word \in StoredWords
           /\ instr.op = "COPY" => instr.from \in Offset
           /\ instr.op \in {"COPY", "CALLDATALOAD"} => instr.source \in Sources
           /\ instr.op \in {"SLOAD", "SSTORE"} => instr.key \in Key
  BY DEF Fetched

-----------------------------------------------------------------------------
(* Functions on the first so many numbers.  f stands for a memory of m bytes. *)

(* f, extended to e bytes by zeros. *)
Grow(m, f, e) == [k \in 0 .. (e - 1) |-> IF k < m THEN f[k] ELSE 0]

(* f as the array of ByteArray. *)
View(m, f) == Grow(m, f, MaxMem)

(* g of e bytes, with the n bytes of b from position x on. *)
Patch(g, e, x, n, b) ==
    [k \in 0 .. (e - 1) |-> IF x <= k /\ k < x + n THEN b[k - x] ELSE g[k]]

(* The n bytes of g from position x on. *)
Cut(g, x, n) == [k \in 0 .. (n - 1) |-> g[x + k]]

(* An extension has bytes. *)
LEMMA GrowType ==
    ASSUME NEW m \in Nat, NEW e \in Nat, NEW f \in [0 .. (m - 1) -> Byte]
    PROVE  Grow(m, f, e) \in [0 .. (e - 1) -> Byte]
  <1> SUFFICES ASSUME NEW k \in 0 .. (e - 1), k < m
               PROVE  f[k] \in Byte
    BY MemoryAssumption DEF Grow
  <1>1. k \in 0 .. (m - 1)
    OBVIOUS
  <1> QED
    BY <1>1

(* What is added to a memory was there in the array. *)
LEMMA ViewGrow ==
    ASSUME NEW m \in Nat, NEW e \in Nat, m <= e, e <= MaxMem,
           NEW f \in [0 .. (m - 1) -> Byte]
    PROVE  View(e, Grow(m, f, e)) = View(m, f)
  <1> SUFFICES ASSUME NEW k \in 0 .. (MaxMem - 1)
               PROVE  (IF k < e THEN Grow(m, f, e)[k] ELSE 0) = (IF k < m THEN f[k] ELSE 0)
    BY DEF View, Grow
  <1>1. CASE k < e
    <2>1. k \in 0 .. (e - 1)
      BY <1>1, MemoryAssumption
    <2> QED
      BY <1>1, <2>1 DEF Grow
  <1>2. CASE ~ (k < e)
    BY <1>2, MemoryAssumption
  <1> QED
    BY <1>1, <1>2

(* Bytes read from an extension that is long enough are those of the array.  *)
LEMMA GrowSlice ==
    ASSUME NEW m \in Nat, NEW e \in Nat, e <= MaxMem, NEW f \in [0 .. (m - 1) -> Byte],
           NEW x \in Nat, NEW n \in Nat, x + n <= e
    PROVE  Cut(Grow(m, f, e), x, n) = Cut(View(m, f), x, n)
  <1> SUFFICES ASSUME NEW k \in 0 .. (n - 1)
               PROVE  Grow(m, f, e)[x + k] = View(m, f)[x + k]
    BY DEF Cut
  <1>1. x + k \in 0 .. (e - 1) /\ x + k \in 0 .. (MaxMem - 1)
    BY MemoryAssumption
  <1> QED
    BY <1>1 DEF View, Grow

(* A patch of bytes has bytes. *)
LEMMA PatchType ==
    ASSUME NEW e \in Nat, NEW g \in [0 .. (e - 1) -> Byte], NEW x \in Nat, NEW n \in Nat,
           NEW b \in [0 .. (n - 1) -> Byte]
    PROVE  Patch(g, e, x, n, b) \in [0 .. (e - 1) -> Byte]
  <1> SUFFICES ASSUME NEW k \in 0 .. (e - 1), x <= k, k < x + n
               PROVE  b[k - x] \in Byte
    BY DEF Patch
  <1>1. k - x \in 0 .. (n - 1)
    OBVIOUS
  <1> QED
    BY <1>1

(* Writing to the extended memory is writing to the array. *)
LEMMA ViewPatch ==
    ASSUME NEW m \in Nat, NEW e \in Nat, m <= e, e <= MaxMem,
           NEW f \in [0 .. (m - 1) -> Byte],
           NEW x \in Nat, NEW n \in Nat, x + n <= e, NEW b
    PROVE  View(e, Patch(Grow(m, f, e), e, x, n, b)) = Patch(View(m, f), MaxMem, x, n, b)
  <1> DEFINE g == Patch(Grow(m, f, e), e, x, n, b)
  <1> SUFFICES ASSUME NEW k \in 0 .. (MaxMem - 1)
               PROVE  (IF k < e THEN g[k] ELSE 0)
                         = (IF x <= k /\ k < x + n THEN b[k - x] ELSE View(m, f)[k])
    BY DEF View, Grow, Patch
  <1>1. CASE k < e
    <2>1. k \in 0 .. (e - 1)
      BY <1>1, MemoryAssumption
    <2>2. g[k] = IF x <= k /\ k < x + n THEN b[k - x] ELSE Grow(m, f, e)[k]
      BY <2>1 DEF Patch
    <2>3. Grow(m, f, e)[k] = View(m, f)[k]
      BY <2>1 DEF View, Grow
    <2> QED
      BY <1>1, <2>2, <2>3
  <1>2. CASE ~ (k < e)
    <2>1. ~ (k < x + n) /\ ~ (k < m)
      BY <1>2, MemoryAssumption
    <2>2. View(m, f)[k] = 0
      BY <2>1 DEF View, Grow
    <2> QED
      BY <1>2, <2>1, <2>2
  <1> QED
    BY <1>1, <1>2

-----------------------------------------------------------------------------
(* Every action. *)

(* What an action does to the memory's type. *)
MemoryTyped ==
    /\ msize' \in 0 .. MaxMem
    /\ mem' \in [0 .. (msize' - 1) -> Byte]
    /\ ex' \in {"none", "outOfBounds", "overflow_error"}

(* Memory is within the limit. *)
LEMMA MemoryForm ==
    ASSUME MemTypeOK
    PROVE  msize \in Nat /\ msize <= MaxMem /\ mem \in [0 .. (msize - 1) -> Byte]
  BY MemoryAssumption DEF MemTypeOK

(* Throwing an exception is what ByteArray does, too. *)
LEMMA ThrowStep ==
    ASSUME MemTypeOK, NEW e \in {"outOfBounds", "overflow_error"}, Throw(e)
    PROVE  MemoryTyped /\ BA!Throw(e) /\ UNCHANGED st
  <1>1. UNCHANGED <<mem, msize, st>> /\ ex' = e /\ out' = Nothing
    BY DEF Throw
  <1>2. BA!Throw(e)
    BY <1>1 DEF BA!Throw, BA!Nothing, Nothing
  <1> QED
    BY <1>1, <1>2 DEF MemTypeOK, MemoryTyped

(* The size of memory after an access up to end. *)
LEMMA ResizeStep ==
    ASSUME MemTypeOK, NEW end \in Nat, end <= MaxMem, Resize(end)
    PROVE  /\ msize' \in Nat /\ msize <= msize' /\ end <= msize' /\ msize' <= MaxMem
           /\ msize' \in 0 .. MaxMem
           /\ msize' = Larger(msize, end) /\ BA!Higher(msize, end) = msize'
           /\ Resized(end) = Grow(msize, mem, msize')
  <1>1. msize' = Larger(msize, end) /\ msize \in Nat /\ msize <= MaxMem
    BY MemoryForm DEF Resize
  <1>2. Resized(end) = Grow(msize, mem, msize')
    BY <1>1 DEF Resized, Grow
  <1>3. BA!Higher(msize, end) = msize'
    BY <1>1 DEF BA!Higher, Larger
  <1>4. \A a \in Nat, b \in Nat :
           (a <= MaxMem /\ b <= MaxMem) =>
               /\ Larger(a, b) \in Nat /\ a <= Larger(a, b) /\ b <= Larger(a, b)
               /\ Larger(a, b) <= MaxMem /\ Larger(a, b) \in 0 .. MaxMem
    BY MemoryAssumption DEF Larger
  <1> QED
    BY <1>1, <1>2, <1>3, <1>4

(* Reading n bytes at x. *)
LEMMA ReadStep ==
    ASSUME MemTypeOK, NEW x \in Offset, NEW n \in Offset, copy_from_mem(x, n)
    PROVE  MemoryTyped /\ BA!Read(x, n) /\ UNCHANGED st
  <1>1. CASE access_error(x, n)
    <2>1. x + n > MaxMem /\ Throw("outOfBounds")
      BY <1>1, AccessIs DEF copy_from_mem
    <2> QED
      BY <2>1, ThrowStep DEF BA!Read
  <1>2. CASE ~ access_error(x, n)
    <2>1. /\ Sum(x, n) = x + n /\ x + n <= MaxMem /\ ~ (x + n > MaxMem)
          /\ x + n \in Nat /\ x \in Nat /\ n \in Nat
      BY <1>2, AccessIs, MemoryAssumption DEF Offset
    <2>2. /\ Resize(x + n) /\ mem' = Resized(x + n)
          /\ out' = [k \in 0 .. (n - 1) |-> Resized(x + n)[x + k]]
          /\ ex' = "none" /\ st' = st
      BY <1>2, <2>1 DEF copy_from_mem
    <2>3. /\ msize' \in Nat /\ msize <= msize' /\ x + n <= msize' /\ msize' <= MaxMem
          /\ msize' \in 0 .. MaxMem
          /\ BA!Higher(msize, x + n) = msize'
          /\ Resized(x + n) = Grow(msize, mem, msize')
      BY <2>1, <2>2, ResizeStep
    <2>4. mem' = Grow(msize, mem, msize')
      BY <2>2, <2>3
    <2>5. mem' \in [0 .. (msize' - 1) -> Byte]
      BY <2>3, <2>4, MemoryForm, GrowType
    <2>6. View(msize', mem') = View(msize, mem)
      BY <2>3, <2>4, MemoryForm, ViewGrow
    <2>7. out' = Cut(View(msize, mem), x, n)
      <3>1. out' = Cut(Grow(msize, mem, msize'), x, n)
        BY <2>2, <2>3 DEF Cut
      <3> QED
        BY <3>1, <2>1, <2>3, MemoryForm, GrowSlice
    <2>8. BA!Read(x, n)
      BY <2>1, <2>2, <2>3, <2>6, <2>7 DEF BA!Read, BA!Slice, View, Grow, Cut
    <2> QED
      BY <2>2, <2>3, <2>5, <2>8 DEF MemoryTyped
  <1> QED
    BY <1>1, <1>2

(* Writing the n bytes of b at x, once the access is allowed. *)
LEMMA WriteStep ==
    ASSUME MemTypeOK, NEW x \in Nat, NEW n \in Nat, x + n <= MaxMem,
           NEW b \in [0 .. (n - 1) -> Byte],
           Resize(x + n), mem' = Patch(Resized(x + n), msize', x, n, b), ex' = "none"
    PROVE  /\ MemoryTyped
           /\ View(msize', mem') = Patch(View(msize, mem), MaxMem, x, n, b)
           /\ msize' = BA!Higher(msize, x + n)
  <1>1. /\ msize' \in Nat /\ msize <= msize' /\ x + n <= msize' /\ msize' <= MaxMem
        /\ msize' \in 0 .. MaxMem
        /\ BA!Higher(msize, x + n) = msize'
        /\ Resized(x + n) = Grow(msize, mem, msize')
    BY ResizeStep
  <1>2. mem' = Patch(Grow(msize, mem, msize'), msize', x, n, b)
    BY <1>1
  <1>3. Grow(msize, mem, msize') \in [0 .. (msize' - 1) -> Byte]
    BY <1>1, MemoryForm, GrowType
  <1>4. mem' \in [0 .. (msize' - 1) -> Byte]
    <2>1. Patch(Grow(msize, mem, msize'), msize', x, n, b) \in [0 .. (msize' - 1) -> Byte]
      BY <1>1, <1>3, PatchType
    <2> QED
      BY <1>2, <2>1
  <1>5. View(msize', mem') = Patch(View(msize, mem), MaxMem, x, n, b)
    <2>1. msize \in Nat /\ mem \in [0 .. (msize - 1) -> Byte]
      BY MemoryForm
    <2>2. View(msize', Patch(Grow(msize, mem, msize'), msize', x, n, b))
             = Patch(View(msize, mem), MaxMem, x, n, b)
      BY <1>1, <2>1, ViewPatch
    <2> QED
      BY <1>2, <2>2
  <1> QED
    BY <1>1, <1>4, <1>5 DEF MemoryTyped

(* MSTORE. *)
LEMMA MstoreStep ==
    ASSUME MemTypeOK, instr \in Fetched, instr.op = "MSTORE", mstore
    PROVE  MemoryTyped /\ BA!StoreWord /\ UNCHANGED st
  <1> DEFINE x == instr.off
             w == instr.word
  <1>1. /\ x \in Offset /\ WordBytes \in Offset /\ WordBytes \in Nat /\ x \in Nat
        /\ w \in [0 .. (WordBytes - 1) -> Byte]
    BY Operands, MemoryAssumption DEF Offset
  <1>2. CASE access_error(x, WordBytes)
    <2>1. x + WordBytes > MaxMem /\ Throw("outOfBounds")
      BY <1>1, <1>2, AccessIs DEF mstore, Put
    <2> QED
      BY <2>1, ThrowStep DEF BA!StoreWord, BA!Write
  <1>3. CASE ~ access_error(x, WordBytes)
    <2>1. /\ Sum(x, WordBytes) = x + WordBytes /\ x + WordBytes <= MaxMem
          /\ ~ (x + WordBytes > MaxMem) /\ x + WordBytes \in Nat
      BY <1>1, <1>3, AccessIs, MemoryAssumption DEF Offset
    <2>2. /\ Resize(x + WordBytes) /\ out' = Nothing /\ ex' = "none" /\ st' = st
          /\ mem' = [k \in 0 .. (Larger(msize, x + WordBytes) - 1) |->
                        IF x <= k /\ k < x + WordBytes
                        THEN w[k - x] ELSE Resized(x + WordBytes)[k]]
      BY <1>3, <2>1 DEF mstore, Put
    <2>3. mem' = Patch(Resized(x + WordBytes), msize', x, WordBytes, w)
      BY <2>1, <2>2, ResizeStep DEF Patch
    <2> HIDE DEF x, w
    <2>4. /\ MemoryTyped /\ msize' = BA!Higher(msize, x + WordBytes)
          /\ View(msize', mem') = Patch(View(msize, mem), MaxMem, x, WordBytes, w)
      BY <1>1, <2>1, <2>2, <2>3, WriteStep
    <2>5. BA!StoreWord
      BY <2>1, <2>2, <2>4
      DEF BA!StoreWord, BA!Write, View, Grow, Patch, Nothing, BA!Nothing, x, w
    <2> QED
      BY <2>2, <2>4, <2>5
  <1> QED
    BY <1>2, <1>3

(* MSTORE8 writes the lowest byte of its word. *)
LEMMA Mstore8Step ==
    ASSUME MemTypeOK, instr \in Fetched, instr.op = "MSTORE8", mstore8
    PROVE  MemoryTyped /\ BA!StoreByte /\ UNCHANGED st
  <1> DEFINE x == instr.off
             b == [k \in 0 .. (1 - 1) |-> instr.word[WordBytes - 1]]
  <1>1. x \in Offset /\ 1 \in Offset /\ x \in Nat /\ b \in [0 .. (1 - 1) -> Byte]
    <2>1. x \in Offset /\ 1 \in Offset /\ x \in Nat
      BY Operands, MemoryAssumption DEF Offset
    <2>2. instr.word \in [0 .. (WordBytes - 1) -> Byte] /\ WordBytes - 1 \in 0 .. (WordBytes - 1)
      BY Operands, MemoryAssumption
    <2>3. instr.word[WordBytes - 1] \in Byte
      BY <2>2
    <2> QED
      BY <2>1, <2>3
  <1>2. CASE access_error(x, 1)
    <2>1. x + 1 > MaxMem /\ Throw("outOfBounds")
      BY <1>1, <1>2, AccessIs DEF mstore8, Put
    <2> QED
      BY <2>1, ThrowStep DEF BA!StoreByte, BA!Write
  <1>3. CASE ~ access_error(x, 1)
    <2>1. /\ Sum(x, 1) = x + 1 /\ x + 1 <= MaxMem
          /\ ~ (x + 1 > MaxMem) /\ x + 1 \in Nat
      BY <1>1, <1>3, AccessIs, MemoryAssumption DEF Offset
    <2>2. /\ Resize(x + 1) /\ out' = Nothing /\ ex' = "none" /\ st' = st
          /\ mem' = [k \in 0 .. (Larger(msize, x + 1) - 1) |->
                        IF x <= k /\ k < x + 1
                        THEN instr.word[WordBytes - 1] ELSE Resized(x + 1)[k]]
      BY <1>3, <2>1 DEF mstore8, Put
    <2>3. mem' = Patch(Resized(x + 1), msize', x, 1, b)
      <3>1. \A k \in Nat : (x <= k /\ k < x + 1) => b[k - x] = instr.word[WordBytes - 1]
        BY <1>1
      <3>2. msize' = Larger(msize, x + 1) /\ msize' \in Nat
        BY <2>1, <2>2, ResizeStep
      <3> QED
        BY <2>2, <3>1, <3>2 DEF Patch
    <2>4. /\ MemoryTyped /\ msize' = BA!Higher(msize, x + 1)
          /\ View(msize', mem') = Patch(View(msize, mem), MaxMem, x, 1, b)
      <3> HIDE DEF x, b
      <3> QED
        BY <1>1, <2>1, <2>2, <2>3, WriteStep
    <2>5. Patch(View(msize, mem), MaxMem, x, 1, b)
             = [k \in 0 .. (MaxMem - 1) |-> IF x <= k /\ k < x + 1
                   THEN instr.word[WordBytes - 1] ELSE View(msize, mem)[k]]
      <3>1. \A k \in 0 .. (MaxMem - 1) :
               (x <= k /\ k < x + 1) => b[k - x] = instr.word[WordBytes - 1]
        BY <1>1, MemoryAssumption
      <3> QED
        BY <3>1 DEF Patch
    <2>6. BA!StoreByte
      BY <2>1, <2>2, <2>4, <2>5
      DEF BA!StoreByte, BA!Write, View, Grow, Nothing, BA!Nothing
    <2> QED
      BY <2>2, <2>4, <2>6
  <1> QED
    BY <1>2, <1>3

(* Of n bytes from position y on, the last r are those that lie behind a      *)
(* source of so many bytes.                                                   *)
Behind(r, y, n, len) ==
    r \in 0 .. n /\ \A j \in 0 .. (n - 1) : (j >= n - r) <=> (y + j >= len)

(* b has the n bytes that ByteArray takes from position y of the source.      *)
IsTaken(b, src, y, n) == \A j \in 0 .. (n - 1) : b[j] = BA!At(src, y + j)

(* The padding of copy_mem_raw covers exactly what lies behind the source:    *)
(* also when offSrc + size wraps.                                             *)
LEMMA RemainingIs ==
    ASSUME NEW x \in Offset, NEW n \in Offset, n <= MaxMem, n # 0,
           NEW len \in Nat, len + MaxMem <= OffMod
    PROVE  Behind(remaining(x, n, len), x, n, len)
  <1>1. x \in Nat /\ n \in Nat /\ OffMod \in Nat /\ MaxMem \in Nat
    BY MemoryAssumption DEF Offset
  <1>2. CASE x + n < OffMod
    <2>1. Sum(x, n) = x + n
      BY <1>2, SumIs
    <2> QED
      BY <1>1, <2>1 DEF remaining, Lesser, Behind
  <1>3. CASE ~ (x + n < OffMod)
    <2>1. Sum(x, n) = x + n - OffMod /\ n < OffMod
      BY <1>3, SumIs, MemoryAssumption DEF Offset
    <2>2. x >= len
      BY <1>1, <1>3
    <2>3. remaining(x, n, len) = n
      BY <1>1, <2>1 DEF remaining, Lesser
    <2> QED
      BY <1>1, <2>2, <2>3 DEF Behind
  <1> QED
    BY <1>2, <1>3

(* What copy_mem_raw makes of e bytes of g: from x to last, r zeros at the    *)
(* end and the source before them.                                            *)
Copied(g, e, last, x, y, r, src) ==
    [k \in 0 .. (e - 1) |-> IF k >= last \/ k < x THEN g[k]
                            ELSE IF k >= last - r THEN 0
                            ELSE src[y + (k - x) + 1]]

(* The arguments of a copy whose padding is right. *)
CopyArguments(e, last, x, y, n, r, src, b) ==
    /\ e \in Nat /\ x \in Nat /\ y \in Nat /\ n \in Nat /\ r \in Nat /\ Len(src) \in Nat
    /\ last = x + n
    /\ Behind(r, y, n, Len(src)) /\ IsTaken(b, src, y, n)

(* That is a patch of the bytes that ByteArray takes from the source.         *)
LEMMA CopiedIsPatch ==
    ASSUME NEW g, NEW e, NEW last, NEW x, NEW y, NEW n, NEW r, NEW src, NEW b,
           CopyArguments(e, last, x, y, n, r, src, b)
    PROVE  Copied(g, e, last, x, y, r, src) = Patch(g, e, x, n, b)
  <1>9. /\ e \in Nat /\ x \in Nat /\ y \in Nat /\ n \in Nat /\ r \in Nat /\ Len(src) \in Nat
        /\ last = x + n
        /\ Behind(r, y, n, Len(src)) /\ IsTaken(b, src, y, n)
    BY DEF CopyArguments
  <1> SUFFICES ASSUME NEW k \in 0 .. (e - 1)
               PROVE  (IF k >= x + n \/ k < x THEN g[k]
                       ELSE IF k >= x + n - r THEN 0
                       ELSE src[y + (k - x) + 1])
                         = (IF x <= k /\ k < x + n THEN b[k - x] ELSE g[k])
    BY <1>9 DEF Copied, Patch
  <1>0. r \in 0 .. n
    BY <1>9 DEF Behind
  <1>1. CASE x <= k /\ k < x + n
    <2>1. k - x \in 0 .. (n - 1) /\ ~ (k >= x + n \/ k < x)
      BY <1>9, <1>1
    <2>2. (k >= x + n - r) <=> ~ (y + (k - x) < Len(src))
      <3>1. (k - x >= n - r) <=> (y + (k - x) >= Len(src))
        BY <1>9, <2>1 DEF Behind
      <3> QED
        BY <1>9, <1>0, <2>1, <3>1
    <2>3. b[k - x] = IF y + (k - x) < Len(src) THEN src[y + (k - x) + 1] ELSE 0
      BY <1>9, <2>1 DEF BA!At, IsTaken
    <2> QED
      BY <1>1, <2>1, <2>2, <2>3
  <1>2. CASE ~ (x <= k /\ k < x + n)
    BY <1>9, <1>2
  <1> QED
    BY <1>1, <1>2

(* The opcodes that copy into memory. *)
LEMMA CopyStep ==
    ASSUME MemTypeOK, instr \in Fetched, instr.op = "COPY",
           copy_mem_raw(instr.off, instr.from, instr.size, instr.source)
    PROVE  MemoryTyped /\ BA!Copy /\ UNCHANGED st
  <1> DEFINE x == instr.off
             y == instr.from
             n == instr.size
             src == instr.source
             b == [j \in 0 .. (n - 1) |-> BA!At(src, y + j)]
  <1>1. /\ x \in Offset /\ y \in Offset /\ n \in Offset
        /\ x \in Nat /\ y \in Nat /\ n \in Nat
        /\ src \in Seq(Byte) /\ Len(src) \in Nat /\ Len(src) + MaxMem <= OffMod
    BY Operands, MemoryAssumption DEF Offset
  <1>2. b \in [0 .. (n - 1) -> Byte]
    <2> SUFFICES ASSUME NEW j \in 0 .. (n - 1)
                 PROVE  BA!At(src, y + j) \in Byte
      OBVIOUS
    <2>1. y + j < Len(src) => y + j + 1 \in 1 .. Len(src)
      BY <1>1
    <2> QED
      BY <1>1, <2>1, MemoryAssumption DEF BA!At
  <1>3. CASE n = 0
    <2>1. UNCHANGED <<mem, msize, st>> /\ ex' = "none" /\ out' = Nothing
      BY <1>3 DEF copy_mem_raw
    <2>2. BA!Copy
      BY <1>3, <2>1 DEF BA!Copy, Nothing, BA!Nothing
    <2> QED
      BY <2>1, <2>2 DEF MemTypeOK, MemoryTyped
  <1>4. CASE n # 0 /\ access_error(x, n)
    <2>1. x + n > MaxMem /\ Throw("outOfBounds")
      BY <1>1, <1>4, AccessIs DEF copy_mem_raw
    <2> QED
      BY <1>4, <2>1, ThrowStep DEF BA!Copy, BA!Write
  <1>5. CASE n # 0 /\ ~ access_error(x, n)
    <2>1. /\ Sum(x, n) = x + n /\ x + n <= MaxMem /\ n <= MaxMem
          /\ ~ (x + n > MaxMem) /\ x + n \in Nat
      BY <1>1, <1>5, AccessIs, MemoryAssumption DEF Offset
    <2> DEFINE r == remaining(y, n, Len(src))
    <2>2. /\ Resize(x + n) /\ out' = Nothing /\ ex' = "none" /\ st' = st
          /\ mem' = Copied(Resized(x + n), Larger(msize, x + n), x + n, x, y, r, src)
      <3>1. /\ Resize(Sum(x, n)) /\ out' = Nothing /\ ex' = "none" /\ st' = st
            /\ mem' = Copied(Resized(Sum(x, n)), Larger(msize, Sum(x, n)), Sum(x, n),
                             x, y, r, src)
        BY <1>5 DEF copy_mem_raw, Copied
      <3> HIDE DEF x, y, n, r, src
      <3> QED
        BY <3>1, <2>1
    <2>3. Behind(r, y, n, Len(src))
      BY <1>1, <1>5, <2>1, RemainingIs
    <2> HIDE DEF r
    <2>5. msize' = Larger(msize, x + n) /\ msize' \in Nat
      BY <2>1, <2>2, ResizeStep
    <2>6. mem' = Patch(Resized(x + n), msize', x, n, b)
      <3> HIDE DEF x, y, n, src
      <3>0. r \in Nat
        BY <1>1, <2>3 DEF Behind
      <3>1. mem' = Copied(Resized(x + n), msize', x + n, x, y, r, src)
        BY <2>2, <2>5
      <3>2. Copied(Resized(x + n), msize', x + n, x, y, r, src)
               = Patch(Resized(x + n), msize', x, n, b)
        <4>1. IsTaken(b, src, y, n)
          BY DEF IsTaken
        <4>2. x \in Nat /\ y \in Nat /\ n \in Nat /\ Len(src) \in Nat /\ msize' \in Nat
          BY <1>1, <2>5
        <4>3. CopyArguments(msize', x + n, x, y, n, r, src, b)
          BY <2>3, <3>0, <4>1, <4>2 DEF CopyArguments
        <4> QED
          BY <4>3, CopiedIsPatch
      <3> QED
        BY <3>1, <3>2
    <2>7. /\ MemoryTyped /\ msize' = BA!Higher(msize, x + n)
          /\ View(msize', mem') = Patch(View(msize, mem), MaxMem, x, n, b)
      <3> HIDE DEF x, n, b
      <3> QED
        BY <1>1, <1>2, <2>1, <2>2, <2>6, WriteStep
    <2>8. Patch(View(msize, mem), MaxMem, x, n, b)
             = [k \in 0 .. (MaxMem - 1) |-> IF x <= k /\ k < x + n
                   THEN BA!At(src, y + (k - x)) ELSE View(msize, mem)[k]]
      <3>1. \A k \in 0 .. (MaxMem - 1) :
               (x <= k /\ k < x + n) => b[k - x] = BA!At(src, y + (k - x))
        <4> TAKE k \in 0 .. (MaxMem - 1)
        <4> HAVE x <= k /\ k < x + n
        <4>1. k - x \in 0 .. (n - 1)
          BY <1>1, MemoryAssumption
        <4> QED
          BY <4>1
      <3> QED
        BY <3>1 DEF Patch
    <2>9. BA!Copy
      BY <1>5, <2>1, <2>2, <2>7, <2>8
      DEF BA!Copy, BA!Write, View, Grow, Nothing, BA!Nothing
    <2> QED
      BY <2>2, <2>7, <2>9
  <1> QED
    BY <1>3, <1>4, <1>5

(* CALLDATALOAD leaves memory alone, and safeAdd throws exactly when the end  *)
(* of the word does not fit in an offset.                                     *)
LEMMA CalldataloadStep ==
    ASSUME MemTypeOK, instr \in Fetched, instr.op = "CALLDATALOAD", calldataload
    PROVE  MemoryTyped /\ BA!LoadInput /\ UNCHANGED st
  <1> DEFINE x == instr.off
             src == instr.source
  <1>1. /\ x \in Offset /\ x \in Nat /\ WordBytes \in Offset /\ WordBytes \in Nat
        /\ src \in Seq(Byte) /\ Len(src) \in Nat
    BY Operands, MemoryAssumption DEF Offset
  <1>2. (Sum(x, WordBytes) < x) <=> (x + WordBytes >= OffMod)
    BY <1>1, SumIs, MemoryAssumption DEF Offset
  <1>3. CASE x + WordBytes >= OffMod
    <2>1. Throw("overflow_error")
      BY <1>2, <1>3 DEF calldataload
    <2> QED
      BY <1>3, <2>1, ThrowStep DEF BA!LoadInput
  <1>4. CASE ~ (x + WordBytes >= OffMod)
    <2> DEFINE i == IF x < Len(src) THEN Lesser(Len(src) - x, WordBytes) ELSE 0
    <2>1. /\ out' = [k \in 0 .. (WordBytes - 1) |-> IF k < i THEN src[x + k + 1] ELSE 0]
          /\ ex' = "none" /\ UNCHANGED <<mem, msize, st>>
      BY <1>2, <1>4 DEF calldataload
    <2>2. \A k \in 0 .. (WordBytes - 1) : (k < i) <=> (x + k < Len(src))
      BY <1>1 DEF Lesser
    <2> HIDE DEF i
    <2>3. out' = [k \in 0 .. (WordBytes - 1) |-> BA!At(src, x + k)]
      BY <2>1, <2>2 DEF BA!At
    <2>4. BA!LoadInput
      BY <1>4, <2>1, <2>3 DEF BA!LoadInput
    <2> QED
      BY <2>1, <2>4 DEF MemTypeOK, MemoryTyped
  <1> QED
    BY <1>3, <1>4

-----------------------------------------------------------------------------
(* Storage. *)

(* Storage as the map of ByteArray. *)
StoreView(map) == [k \in Key |-> IF k \in DOMAIN map THEN map[k] ELSE Zero]

(* A storage has words at some of the keys. *)
IsStorage(map) == DOMAIN map \subseteq Key /\ map \in [DOMAIN map -> Word]

(* The type invariant says so of the current one. *)
LEMMA StorageForm ==
    (\E keys \in SUBSET Key : st \in [keys -> Word]) <=> IsStorage(st)
  BY DEF IsStorage

(* Storing and removing keep the type, and do to the map what Store does.     *)
LEMMA StoreExact ==
    ASSUME NEW map, IsStorage(map), NEW key \in Key, NEW w \in Word
    PROVE  /\ IsStorage(st_store(map, key, w)) /\ IsStorage(st_remove(map, key))
           /\ StoreView(st_store(map, key, w)) = [StoreView(map) EXCEPT ![key] = w]
           /\ w = Zero => StoreView(st_remove(map, key)) = [StoreView(map) EXCEPT ![key] = w]
  <1>1. IsStorage(st_store(map, key, w)) /\ IsStorage(st_remove(map, key))
    BY DEF IsStorage, st_store, st_remove
  <1>2. StoreView(st_store(map, key, w)) = [StoreView(map) EXCEPT ![key] = w]
    BY DEF StoreView, st_store
  <1>3. w = Zero => StoreView(st_remove(map, key)) = [StoreView(map) EXCEPT ![key] = w]
    BY DEF StoreView, st_remove
  <1> QED
    BY <1>1, <1>2, <1>3

(* SSTORE. *)
LEMMA SstoreStep ==
    ASSUME MemTypeOK, instr \in Fetched, instr.op = "SSTORE", sstore
    PROVE  MemoryTyped /\ IsStorage(st') /\ BA!Store
  <1>1. instr.key \in Key /\ instr.word \in Word /\ IsStorage(st)
    BY Operands, MemoryAssumption, StorageForm DEF MemTypeOK, Word
  <1>2. /\ st' = IF instr.word = Zero THEN st_remove(st, instr.key)
                 ELSE st_store(st, instr.key, instr.word)
        /\ out' = Nothing /\ ex' = "none" /\ UNCHANGED <<mem, msize>>
    BY DEF sstore
  <1>3. IsStorage(st') /\ StoreView(st') = [StoreView(st) EXCEPT ![instr.key] = instr.word]
    BY <1>1, <1>2, StoreExact
  <1>4. BA!Store
    BY <1>2, <1>3 DEF BA!Store, StoreView, Nothing, BA!Nothing, Zero
  <1> QED
    BY <1>2, <1>3, <1>4 DEF MemTypeOK, MemoryTyped

(* SLOAD. *)
LEMMA SloadStep ==
    ASSUME MemTypeOK, instr \in Fetched, instr.op = "SLOAD", sload
    PROVE  MemoryTyped /\ BA!Load /\ UNCHANGED st
  <1>1. instr.key \in Key
    BY Operands
  <1>2. /\ out' = IF instr.key \in DOMAIN st THEN st[instr.key] ELSE Zero
        /\ ex' = "none" /\ UNCHANGED <<mem, msize, st>>
    BY DEF sload
  <1>3. BA!Load
    BY <1>1, <1>2 DEF BA!Load
  <1> QED
    BY <1>2, <1>3 DEF MemTypeOK, MemoryTyped

-----------------------------------------------------------------------------
(* The specification. *)

(* A step keeps the types and is a step of ByteArray. *)
LEMMA StepRefines ==
    ASSUME MemTypeOK, MemNext
    PROVE  MemTypeOK' /\ BA!Next
  <1>1. CASE Fetch
    <2>1. /\ instr = Idle /\ instr' \in Fetched /\ out' = Nothing /\ ex' = "none"
          /\ UNCHANGED <<mem, msize, st>>
      BY <1>1 DEF Fetch
    <2>2. BA!Fetch
      BY <2>1 DEF BA!Fetch, Idle, BA!Idle, Nothing, BA!Nothing
    <2> QED
      BY <2>1, <2>2 DEF MemTypeOK, BA!Next
  <1>2. CASE Execute
    <2>1. instr # Idle /\ instr' = Idle /\ instr \in Fetched
      BY <1>2 DEF Execute, MemTypeOK
    <2>2. IsStorage(st)
      BY StorageForm DEF MemTypeOK
    <2>3. MemoryTyped /\ IsStorage(st') /\ BA!Execute
      <3>1. instr # BA!Idle /\ instr' = BA!Idle
        BY <2>1 DEF Idle, BA!Idle
      <3>2. CASE instr.op = "MLOAD" /\ mload
        <4>1. instr.off \in Offset /\ WordBytes \in Offset
          BY <2>1, <3>2, Operands, MemoryAssumption DEF Offset
        <4> QED
          BY <2>2, <3>1, <3>2, <4>1, ReadStep DEF mload, BA!Execute
      <3>3. CASE instr.op = "READ" /\ copy_from_mem(instr.off, instr.size)
        <4>1. instr.off \in Offset /\ instr.size \in Offset
          BY <2>1, <3>3, Operands
        <4> QED
          BY <2>2, <3>1, <3>3, <4>1, ReadStep DEF BA!Execute
      <3>4. CASE instr.op = "MSTORE" /\ mstore
        BY <2>1, <2>2, <3>1, <3>4, MstoreStep DEF BA!Execute
      <3>5. CASE instr.op = "MSTORE8" /\ mstore8
        BY <2>1, <2>2, <3>1, <3>5, Mstore8Step DEF BA!Execute
      <3>6. CASE /\ instr.op = "COPY"
                 /\ copy_mem_raw(instr.off, instr.from, instr.size, instr.source)
        BY <2>1, <2>2, <3>1, <3>6, CopyStep DEF BA!Execute
      <3>7. CASE instr.op = "CALLDATALOAD" /\ calldataload
        BY <2>1, <2>2, <3>1, <3>7, CalldataloadStep DEF BA!Execute
      <3>8. CASE instr.op = "SLOAD" /\ sload
        BY <2>1, <2>2, <3>1, <3>8, SloadStep DEF BA!Execute
      <3>9. CASE instr.op = "SSTORE" /\ sstore
        BY <2>1, <3>1, <3>9, SstoreStep DEF BA!Execute
      <3> QED
        BY <1>2, <3>2, <3>3, <3>4, <3>5, <3>6, <3>7, <3>8, <3>9 DEF Execute
    <2>4. MemTypeOK'
      BY <2>1, <2>3 DEF MemTypeOK, MemoryTyped, IsStorage
    <2> QED
      BY <2>3, <2>4 DEF BA!Next
  <1> QED
    BY <1>1, <1>2 DEF MemNext

(* The initial state has the types, and is one of ByteArray. *)
LEMMA InitRefines ==
    ASSUME MemInit
    PROVE  MemTypeOK /\ BA!Init
  <1>1. /\ msize = 0 /\ mem = Nothing /\ st = Nothing
        /\ instr = Idle /\ out = Nothing /\ ex = "none"
    BY DEF MemInit
  <1>2. Nothing \in [0 .. (0 - 1) -> Byte] /\ Nothing \in [{} -> Word] /\ DOMAIN Nothing = {}
    BY DEF Nothing
  <1>3. MemTypeOK
    <2>1. msize \in 0 .. MaxMem
      BY <1>1, MemoryAssumption
    <2>2. mem \in [0 .. (msize - 1) -> Byte]
      BY <1>1, <1>2
    <2>3. \E keys \in SUBSET Key : st \in [keys -> Word]
      BY <1>1, <1>2
    <2>4. instr \in Fetched \cup {Idle} /\ ex \in {"none", "outOfBounds", "overflow_error"}
      BY <1>1
    <2> QED
      BY <2>1, <2>2, <2>3, <2>4 DEF MemTypeOK
  <1>4. BA!Init
    <2>1. [k \in 0 .. (MaxMem - 1) |-> IF k < msize THEN mem[k] ELSE 0]
             = [k \in 0 .. (MaxMem - 1) |-> 0]
      BY <1>1, MemoryAssumption
    <2>2. [k \in Key |-> IF k \in DOMAIN st THEN st[k] ELSE Zero] = [k \in Key |-> Zero]
      BY <1>1, <1>2
    <2> QED
      BY <1>1, <2>1, <2>2 DEF BA!Init, Idle, BA!Idle, Nothing, BA!Nothing, Zero, BA!Zero
  <1> QED
    BY <1>3, <1>4

(* The types of memory hold: in particular memory is within the limit.        *)
THEOREM SpecMemTypeOK == MemSpec => []MemTypeOK
  <1>1. MemInit => MemTypeOK
    BY InitRefines
  <1>2. MemTypeOK /\ [MemNext]_mvars => MemTypeOK'
    <2>1. MemTypeOK /\ UNCHANGED mvars => MemTypeOK'
      BY DEF MemTypeOK, mvars
    <2> QED
      BY <2>1, StepRefines
  <1> QED
    BY <1>1, <1>2, PTL DEF MemSpec

(* Memory and storage behave as an array and a map of unbounded numbers do.   *)
THEOREM SpecRefinesByteArray == MemSpec => RefinesByteArray
  <1>1. MemInit => BA!Init
    BY InitRefines
  <1>2. MemTypeOK /\ [MemNext]_mvars => [BA!Next]_(BA!avars)
    <2>1. UNCHANGED mvars => UNCHANGED BA!avars
      BY DEF mvars, BA!avars
    <2> QED
      BY <2>1, StepRefines
  <1> QED
    BY <1>1, <1>2, SpecMemTypeOK, PTL DEF MemSpec, RefinesByteArray, BA!Spec

(* Storage never holds a zero.                                                *)
THEOREM SpecNoZeroStored == MemSpec => []NoZeroStored
  <1>1. MemInit => NoZeroStored
    BY DEF MemInit, NoZeroStored, Nothing
  <1>2. NoZeroStored /\ [MemNext]_mvars => NoZeroStored'
    <2> SUFFICES ASSUME NoZeroStored, [MemNext]_mvars
                 PROVE  NoZeroStored'
      OBVIOUS
    <2>1. CASE UNCHANGED st
      BY <2>1 DEF NoZeroStored
    <2>2. CASE sstore
      BY <2>2 DEF sstore, st_store, st_remove, NoZeroStored
    <2>3. UNCHANGED st \/ sstore
      BY DEF MemNext, Fetch, Execute, mvars, mload, mstore, mstore8, calldataload, sload,
             copy_from_mem, copy_mem_raw, Put, Throw
    <2> QED
      BY <2>1, <2>2, <2>3
  <1> QED
    BY <1>1, <1>2, PTL DEF MemSpec
=============================================================================
