--------------------------- MODULE SessionSystem ----------------------------
(***************************************************************************)
(* The archived submission as a whole: its ATM and its bank, joined by the *)
(* network of SessionWire.                                                 *)
(***************************************************************************)
EXTENDS SessionBank, SessionAtm

CONSTANT Closed          \* balance of an account that is not open

ASSUME SessionSystemAssumption == Closed \notin Amount

VARIABLES
  witnessed,     \* history: balances the account of the session had while the
                 \* ATM waited for the last balance
  dispensed      \* history: the withdrawals paid out, in order

vars == <<wireVars, bankState, atmState, witnessed, dispensed>>

\* The balance of the account the ATM's session is about, as a set.
Snapshot(table, u) == IF u \in DOMAIN table THEN {table[u].balance} ELSE {}

Watch ==
  witnessed' =
    CASE pending'.kind = "BALANCE" ->
           Snapshot(accounts', session'.user) \cup (IF pc = "waiting" THEN witnessed ELSE {})
      [] printed'.msg = "balance" -> witnessed
      [] OTHER -> {}

\* A withdrawal is known by its session and counter; an account by the name and
\* the card secret, since a name may be opened again after a restart.
Withdrawal(key, counter, u, s, amount) ==
  [id |-> <<key.server, counter>>, user |-> <<u, s>>, amount |-> amount]

Pay ==
  dispensed' =
    IF pc = "waiting" /\ printed'.msg = "dispensed"
      THEN Append(dispensed, Withdrawal(pending.key, pending.counter,
                                        session.user, session.secret, printed'.amount))
      ELSE dispensed

Init == WireInit /\ BankInit /\ AtmInit /\ witnessed = {} /\ dispensed = <<>>

Next ==
  \/ BankStep /\ UNCHANGED <<atmState, dispensed>> /\ Watch
  \/ AtmStep /\ UNCHANGED bankState /\ Watch /\ Pay

Spec == Init /\ [][Next]_vars

-----------------------------------------------------------------------------
(* Properties.                                                             *)

\* Balances stay in 0 .. INT_MAX, a session key is held exactly while its session
\* is active, and the ATM's session is cleared as a whole or not at all.
SessionTypeOK ==
  /\ \A u \in DOMAIN accounts :
       /\ accounts[u].balance \in Amount
       /\ accounts[u].active <=> accounts[u].key # NoKey
  /\ ~loggedIn => session = NoSession
  /\ pc = "command" <=> pending = NoRequest

\* The card of an account opens it: when creating the card fails, so does creating
\* the account.
CardOpensAccount == \A u \in DOMAIN accounts : cards[u] = accounts[u].secret

\* The bank keeps one session at a time, for whichever user logged in last; with a
\* second one, a request would be checked against the wrong user's key.
OneSession == \A u, v \in ActiveUsers : u = v

\* While the two sides share a session key their counters stay in step: the bank
\* is never ahead of a request that is still to be sent, so that it can refuse no
\* honest request of the session, and it is ahead only of the answer under way.
CountersAgree ==
  \A u \in ActiveUsers :
    loggedIn /\ accounts[u].key = session.key =>
      /\ u = session.user
      /\ accounts[u].lastCounter \in {session.nextCounter - 1, session.nextCounter}
      /\ accounts[u].lastCounter = session.nextCounter =>
           pc = "waiting" /\ pending.counter = session.nextCounter

\* A user is logged in only on the pin and card secret of an account of that name,
\* whatever becomes of the datagrams and however often an AUTH is repeated.
LoginIsAuthentic ==
  loggedIn =>
    \E a \in opened :
      /\ a.name = session.user /\ a.secret = session.secret
      /\ a.pin = session.key.pin

\* The ATM pays the amount of the answer without comparing it with the amount
\* asked for; the two are nevertheless always the same.
PaidAsAsked ==
  [][pc = "waiting" /\ printed'.msg = "dispensed" => printed'.amount = pending.amount]_vars

\* The balance shown is one the account had while the user waited for it.
BalanceWasCurrent ==
  printed.msg = "balance" => printed.amount \in witnessed

\* The accounts and withdrawals as Teller sees them.
AccountId == Name \X Secret

Balances ==
  [id \in AccountId |->
     IF Known(id[1]) /\ accounts[id[1]].secret = id[2] THEN accounts[id[1]].balance ELSE Closed]

Debited ==
  {Withdrawal(debits[k].key, debits[k].counter, debits[k].user, debits[k].secret,
              debits[k].amount) : k \in DOMAIN debits}

Promise == INSTANCE Teller WITH
  Name    <- AccountId,
  Ids     <- (1 .. MaxSessions) \X (1 .. MaxCounter),
  balance <- Balances,
  named   <- {<<a.name, a.secret>> : a \in opened},
  debited <- Debited,
  paid    <- dispensed

\* Counters and session keys keep the promise of Teller without remembering any
\* nonce: each withdrawal is debited once at most, paid once at most, and paid
\* only if debited, on a network that loses, repeats and reorders, and across
\* repeated logins and restarts of either side.
SessionKeepsPromise == Promise!Spec

=============================================================================
