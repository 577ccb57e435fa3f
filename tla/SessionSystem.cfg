\* Two logins of one user, with two requests each; one of the two pins is wrong.
CONSTANTS
  Name = {alice}
  Pin = {p1, p2}
  Secret = {s1}
  IntMax = 1
  MaxNonces = 4
  MaxSessions = 2
  MaxCounter = 2
  NoKey = NoKey
  NoCard = NoCard
  BlankCard = BlankCard
  NoUser = NoUser
  NoSecret = NoSecret
  NoSessionKey = NoSessionKey
  Closed = Closed
SYMMETRY MCSymmetry
SPECIFICATION Spec
INVARIANTS
  SessionTypeOK
  CountersAgree
  LoginIsAuthentic
  CardOpensAccount
  BalanceWasCurrent
PROPERTIES
  PaidAsAsked
  SessionKeepsPromise
