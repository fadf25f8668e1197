\* Every program of at most 5 bytes: immediates that look like JUMPDEST or
\* PUSH, truncated immediates, jumps in and out of loops, jumps that follow a
\* PUSH of a position, of no position and of more than 64 bits.
CONSTANTS
  Byte <- Bytes
  Immediate <- ImmediateBytes
  JUMPDEST = 1
  JUMP = 2
  JUMPI = 3
  MaxSize = 5
  ops <- Table
  Mod64 = 6
  from_big_endian <- BigEndian
  NoWord = NoWord
SPECIFICATION DisSpec
\* A program may be over.
CHECK_DEADLOCK FALSE
INVARIANTS
  DisTypeOK
  PcAtInstruction
  JumpDestsExact
  ListingExact
  CommentsTrue
