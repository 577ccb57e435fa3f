\* Any timing: the answer to a withdrawal may come too late.
CONSTANTS
  Name = {alice}
  Pin = {p1}
  Secret = {s1}
  IntMax = 1
  MaxRequests = 4
  RingSize = 2
  MaxUsers = 1
  Garbage = {0}
  NoCard = NoCard
  BlankCard = BlankCard
  MaxAccepted = 4
  RecvAttempts = 2
  NoUser = NoUser
  Closed = Closed
SPECIFICATION Spec
INVARIANT
  RefusedNotDebited
