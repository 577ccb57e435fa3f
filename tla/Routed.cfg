CONSTANTS
  Name = {alice}
  Pin = {p1}
  Secret = {s1}
  IntMax = 1
  MaxRequests = 4
  RingSize = 1
  MaxUsers = 1
  Garbage = {0}
  NoCard = NoCard
  BlankCard = BlankCard
  MaxAccepted = 4
  RecvAttempts = 2
  NoUser = NoUser
  Closed = Closed
  MaxFailures = 2
SPECIFICATION RoutedSpec
INVARIANTS
  OutcomeWasAnswered
  FailureMessagesAreTrue
PROPERTIES
  KeepsPromise
  BankSpec
  BankRequestReturns
  CoveredWithdrawalIsPaid
