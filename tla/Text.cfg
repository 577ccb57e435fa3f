\* Base 3 for numbers and 4 for keys, an int of 4 bits, a long of 6: texts of up
\* to five characters reach beyond each limit.
CONSTANTS
  Base = 3
  IntMax = 7
  LongMax = 31
  NameMax = 3
  PinLength = 3
  SecretSize = 2
  MaxLength = 5
SPECIFICATION Spec
INVARIANTS
  SplitFindsTheWords
  AmountIsExact
  NumbersTravel
  KeysDecode
  RequestsAreUnderstood
CHECK_DEADLOCK FALSE
