\* One user, one failure, and two nonces to recover from it.
CONSTANTS
  Name = {alice}
  Pin = {p1}
  Secret = {s1}
  IntMax = 0
  MaxNonces = 4
  MaxSessions = 2
  MaxCounter = 1
  NoKey = NoKey
  NoCard = NoCard
  BlankCard = BlankCard
  NoUser = NoUser
  NoSecret = NoSecret
  NoSessionKey = NoSessionKey
  Closed = Closed
  MaxFailures = 1
  Grace = 2
SPECIFICATION RoutedSpec
PROPERTIES
  CatchesUp
CHECK_DEADLOCK FALSE
