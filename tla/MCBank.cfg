\* One user, three nonces on a ring of two slots: the ring wraps, and the bank
\* may be restarted at any point.
CONSTANTS
  Name = {alice}
  Pin = {p1}
  Secret = {s1, s2}
  IntMax = 1
  MaxRequests = 3
  RingSize = 2
  MaxUsers = 1
  Garbage = {1}
  NoCard = NoCard
  BlankCard = BlankCard
  MaxAccepted = 4
SYMMETRY MCSymmetry
SPECIFICATION BankSpec
INVARIANTS
  BankTypeOK
  FilterExact
  DebitWindow
  OneAccountPerName
  CardIsOwn
