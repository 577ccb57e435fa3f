\* Five additions of four keys, three of which share a bin, with or without a value.
CONSTANTS
  Cell = {c1, c2, c3, c4, c5}
  NULL = NULL
  k1 = k1
  k2 = k2
  k3 = k3
  k4 = k4
  Key = {k1, k2, k3, k4}
  Value = {v, NULL}
  Bin = {0, 1}
  Hash <- MCHash
  Word = 16
SPECIFICATION Spec
INVARIANTS
  KeysAreUnique
  WellLinked
