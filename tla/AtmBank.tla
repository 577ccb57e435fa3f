------------------------------ MODULE AtmBank -------------------------------
(***************************************************************************)
(* The whole system: one ATM and one bank joined by the network of Wire.   *)
(* Every step is a step of one of the two processes; they share nothing    *)
(* but the datagrams.  The card a user inserts is whatever secret its file *)
(* holds, so the two processes need not share the card directory.          *)
(***************************************************************************)
EXTENDS Bank, Atm

CONSTANT Closed          \* balance of a name without an account

ASSUME AtmBankAssumption == Closed \notin Amount

VARIABLES
  witnessed,     \* history: the states the account of the pending request
                 \* was in while the ATM waited for the answer
  dispensed      \* history: the withdrawals paid out, in order

vars == <<bankVars, atmState, witnessed, dispensed>>

\* The balance of u's account as a singleton, or {} when there is no account.
Snapshot(accounts, u) ==
  {accounts[i].balance : i \in {j \in DOMAIN accounts : accounts[j].name = u}}

Watch ==
  witnessed' =
    IF issued' # issued THEN {Snapshot(users', pending'.body.user)}
    ELSE IF pc = "waiting" THEN witnessed \cup {Snapshot(users', pending.body.user)}
    ELSE witnessed

Withdrawal(nonce, u, amount) == [id |-> nonce, user |-> u, amount |-> amount]

Pay ==
  dispensed' =
    IF pc = "waiting" /\ printed'.msg = "dispensed"
      THEN Append(dispensed, Withdrawal(printed'.nonce, currentUser, printed'.amount))
      ELSE dispensed

Init == BankInit /\ AtmInit /\ witnessed = {} /\ dispensed = <<>>

Next ==
  \/ BankStep /\ UNCHANGED <<atmState, dispensed>> /\ Watch
  \/ AtmStep /\ UNCHANGED bankState /\ Watch /\ Pay

Spec == Init /\ [][Next]_vars

-----------------------------------------------------------------------------
(* Properties.                                                             *)

\* A user is logged in only on the pin and the card secret of the account of
\* that name: neither factor alone, nor any interleaving of lost, late and
\* duplicated answers, nor a restart of the bank, opens a session.
SessionAuthentic ==
  loggedIn =>
    [name |-> currentUser, pin |-> credentials.pin, secret |-> credentials.secret] \in opened

\* Cash leaves the ATM only against a debit of the same amount on the account
\* of the user in session, made for this very command.
DispenseBacked ==
  printed.msg = "dispensed" =>
    \E k \in DOMAIN debits :
      /\ debits[k].nonce = printed.nonce
      /\ debits[k].amount = printed.amount
      /\ debits[k].user = currentUser

\* The balance on the screen is one the account had while the user waited for
\* it, even when console deposits, restarts or old answers interfere.
BalanceCurrent ==
  printed.msg = "balance" => {printed.amount} \in witnessed

\* "Insufficient funds" means that the account is not charged for the command
\* (atm.md: the money is subtracted when, and only when, it is dispensed).
RefusedNotDebited ==
  printed.msg = "Insufficient funds" =>
    \A k \in DOMAIN debits : debits[k].nonce = printed.nonce => debits[k].amount = 0

\* "No such user" means that at some moment of the command the bank had no
\* such user (atm.md).
NoSuchUserIsTrue ==
  printed.msg = "No such user" /\ printed.nonce > 0 => {} \in witnessed

\* "No user logged in" is printed only when nobody is (atm.md).
NoUserLoggedInIsTrue ==
  printed.msg = "No user logged in" /\ printed.nonce > 0 => ~loggedIn

-----------------------------------------------------------------------------
(* The promise to the user.                                                *)

\* The accounts by name, and the withdrawals performed, as Teller sees them.
Balances ==
  [u \in Name |-> IF Known(u) THEN users[FindUser(u)].balance ELSE Closed]

Debited ==
  {Withdrawal(debits[k].nonce, debits[k].user, debits[k].amount) : k \in DOMAIN debits}

Promise == INSTANCE Teller WITH
  Ids     <- 1 .. MaxRequests,
  balance <- Balances,
  named   <- {u \in Name : \E a \in opened : a.name = u},
  debited <- Debited,
  paid    <- dispensed

\* While the ring is long enough for all the requests, the ATM and the bank
\* together keep the promise of Teller: every command is debited once at most
\* and paid once at most, and paid only if debited.
KeepsPromise == Promise!Spec

=============================================================================
