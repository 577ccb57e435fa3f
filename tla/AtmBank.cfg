\* One user, two pins, and a ring with room for every request: four requests
\* are two to log in and two commands that can get each other's answers.
CONSTANTS
  Name = {alice}
  Pin = {p1, p2}
  Secret = {s1}
  IntMax = 1
  MaxRequests = 4
  RingSize = 4
  MaxUsers = 1
  Garbage = {0}
  NoCard = NoCard
  BlankCard = BlankCard
  MaxAccepted = 4
  RecvAttempts = 2
  NoUser = NoUser
  Closed = Closed
SYMMETRY MCSymmetry
SPECIFICATION Spec
INVARIANTS
  SessionAuthentic
  DispenseBacked
  BalanceCurrent
PROPERTIES
  KeepsPromise
