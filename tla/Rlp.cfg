\* Bytes 0 .. 9: 0 and 1 encode themselves, payloads longer than one byte need
\* a separate length of up to two bytes, so a size_t is below 100.  Every
\* short input, and every encoding of the arguments, whole or damaged.
CONSTANTS
  Own = 2
  Short = 1
  LenLen = 2
  WordLen = 3
  Args <- SmallArgs
  MaxInput = 3
  MaxTail = 1
  Types <- UsedTypes
  Values <- UsedValues
  Nesting <- Depth
SPECIFICATION Spec
\* One call of decode ends a behaviour.
CHECK_DEADLOCK FALSE
INVARIANTS
  RoundTrip
  NeverMistaken
  OuterLengthExact
