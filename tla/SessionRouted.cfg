\* Two users and two logins, with a failure at any point.
CONSTANTS
  Name = {alice, bob}
  Pin = {p1}
  Secret = {s1, s2}
  IntMax = 1
  MaxNonces = 4
  MaxSessions = 2
  MaxCounter = 1
  NoKey = NoKey
  NoCard = NoCard
  BlankCard = BlankCard
  NoUser = NoUser
  NoSecret = NoSecret
  NoSessionKey = NoSessionKey
  Closed = Closed
  MaxFailures = 1
  Grace = 4
SPECIFICATION RoutedSpec
INVARIANTS
  OneSession
  BacklogIsBounded
  HonestRequestsAreServed
PROPERTIES
  LoginSucceeds
  CoveredCashIsPaid
CHECK_DEADLOCK FALSE
