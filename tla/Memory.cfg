\* Memory of at most 4 bytes, words of 2, offsets of 3 bits, and every access;
\* signed arithmetic on words of 3 bytes of 2 bits.
CONSTANTS
  Byte <- Bits
  Key = {"k"}
  WordBytes = 2
  OffMod = 8
  MaxMem = 4
  Sources <- SomeSources
  StoredWords <- AllWords
  ByteBits = 2
  Bytes = 3
  LimbBits = 2
SPECIFICATION MCSpec
\* An opcode of Words has been executed.
CHECK_DEADLOCK FALSE
INVARIANTS
  MemTypeOK
  NoZeroStored
PROPERTIES
  RefinesByteArray
  WordOpsExact
