---------------------------- MODULE SessionBank -----------------------------
(***************************************************************************)
(* The bank of the archived submission (break-it/6825f15e/bank/bank.c):    *)
(* accounts in memory, card files on disk, and per account the session it  *)
(* last granted, with the counter accepted last.  Input the code rejects   *)
(* without touching state is a stuttering step.                            *)
(***************************************************************************)
EXTENDS SessionWire, Sequences

CONSTANTS
  NoKey,         \* a session key that was cleared
  NoCard,        \* there is no <user>.card file
  BlankCard      \* the file was truncated and not written

ASSUME SessionBankAssumption ==
  /\ NoCard \notin Secret /\ BlankCard \notin Secret /\ NoCard # BlankCard
  /\ NoKey \notin [user : Name, pin : Pin, secret : Secret, client : Nat, server : Nat]

VARIABLES
  accounts,      \* bank->users: the list, as a function on the names in it
  cards,         \* the card files; they survive the process
  opened,        \* history: name, pin and card secret of every account ever added
  debits         \* history: withdrawals performed, over all runs

bankState == <<accounts, cards, opened, debits>>

Known(u) == u \in DOMAIN accounts

With(u, account) ==
  [v \in DOMAIN accounts \cup {u} |-> IF v = u THEN account ELSE accounts[v]]

NewAccount(p, s, b) ==
  [pin |-> p, secret |-> s, balance |-> b,
   active |-> FALSE, key |-> NoKey, lastCounter |-> 0]

-----------------------------------------------------------------------------
(* Console commands.                                                       *)

\* RAND_bytes never repeats a card secret.
FreshSecret(s) == \A a \in opened : a.secret # s

\* create-user: the account is added, then its card is written, over one that an
\* earlier run of the bank may have left.
CreateUser(u, p, s, b) ==
  /\ ~Known(u) /\ FreshSecret(s)
  /\ accounts' = With(u, NewAccount(p, s, b))
  /\ cards' = [cards EXCEPT ![u] = s]
  /\ opened' = opened \cup {[name |-> u, pin |-> p, secret |-> s]}
  /\ UNCHANGED <<wireVars, debits>>

\* Faulty variant: the account is not removed again.
CreateUserFailsKeeping(u) ==
  /\ ~Known(u)
  /\ cards' = [cards EXCEPT ![u] = BlankCard]
  /\ \E p \in Pin, s \in Secret :
       /\ FreshSecret(s)
       /\ accounts' = With(u, NewAccount(p, s, 0))
       /\ opened' = opened \cup {[name |-> u, pin |-> p, secret |-> s]}
  /\ UNCHANGED <<wireVars, debits>>

\* create-user when writing the card fails after it was opened: the account is
\* removed again, the card stays truncated.
CreateUserFails(u) ==
  /\ ~Known(u)
  /\ cards' = [cards EXCEPT ![u] = BlankCard]
  /\ UNCHANGED <<wireVars, accounts, opened, debits>>

\* Faulty variant: the sum is compared after a wrap-around, that is never refused.
DepositUnguarded(u, amount) ==
  /\ Known(u)
  /\ accounts' = [accounts EXCEPT ![u].balance = @ + amount]
  /\ UNCHANGED <<wireVars, cards, opened, debits>>

Deposit(u, amount) ==
  /\ Known(u)
  /\ accounts[u].balance <= IntMax - amount
  /\ accounts' = [accounts EXCEPT ![u].balance = @ + amount]
  /\ UNCHANGED <<wireVars, cards, opened, debits>>

-----------------------------------------------------------------------------
(* Logging in.                                                             *)

ServeExists(d) ==
  /\ d.kind = "EXISTS"
  /\ Send(IF Known(d.user) THEN ExistsOk(d.user, d.nonce) ELSE ExistsNo(d.user, d.nonce))
  /\ UNCHANGED <<clientNonces, serverNonces, bankState>>

\* clear_all_sessions
Cleared(account) == [account EXCEPT !.active = FALSE, !.key = NoKey, !.lastCounter = 0]

\* Faulty variant: the sessions of other users are left alone.
GrantKeepingOthers(u, key) ==
  accounts' = [accounts EXCEPT ![u].active = TRUE, ![u].key = key, ![u].lastCounter = 0]

\* Faulty variant: the counter of an earlier session is kept.
GrantKeepingCounter(u, key) ==
  LET granted == [accounts[u] EXCEPT !.active = TRUE, !.key = key]
  IN  accounts' = [v \in DOMAIN accounts |->
                     IF v = u THEN granted
                     ELSE [Cleared(accounts[v]) EXCEPT !.lastCounter = accounts[v].lastCounter]]

Grant(u, key) ==
  LET granted == [accounts[u] EXCEPT !.active = TRUE, !.key = key, !.lastCounter = 0]
  IN  accounts' = [v \in DOMAIN accounts |->
                     IF v = u THEN granted ELSE Cleared(accounts[v])]

\* The HMAC recomputed from the account's own pin and card secret is the one sent.
ProvesIdentity(d) ==
  /\ Known(d.user)
  /\ accounts[d.user].pin = d.pin
  /\ accounts[d.user].secret = d.secret

\* Every authentic AUTH, a repeated one too, starts a new session under a new key.
ServeAuth(d) ==
  /\ d.kind = "AUTH" /\ ProvesIdentity(d)
  /\ serverNonces < MaxSessions
  /\ serverNonces' = serverNonces + 1
  /\ LET key == SessionKey(d.user, d.pin, d.secret, d.nonce, serverNonces + 1)
     IN  Grant(d.user, key) /\ Send(AuthOk(key))
  /\ UNCHANGED <<clientNonces, cards, opened, debits>>

-----------------------------------------------------------------------------
(* Commands within a session.                                              *)

ActiveUsers == {u \in DOMAIN accounts : accounts[u].active}

\* find_active_user: the first of the list; there is never a second one.
ActiveUser == CHOOSE u \in ActiveUsers : TRUE

\* Faulty variant: the counter accepted last is accepted again.
AcceptableAgain(d) ==
  /\ ActiveUsers # {}
  /\ d.counter >= accounts[ActiveUser].lastCounter
  /\ d.key = accounts[ActiveUser].key

\* Faulty variant: the counter is compared with the one that comes next.
AcceptableOffByOne(d) ==
  /\ ActiveUsers # {}
  /\ d.counter > accounts[ActiveUser].lastCounter + 1
  /\ d.key = accounts[ActiveUser].key

\* The counter is above the last one and the HMAC is right under the session key.
Acceptable(d) ==
  /\ ActiveUsers # {}
  /\ d.counter > accounts[ActiveUser].lastCounter
  /\ d.key = accounts[ActiveUser].key

ServeBalance(d) ==
  /\ d.kind = "BALANCE" /\ Acceptable(d)
  /\ accounts' = [accounts EXCEPT ![ActiveUser].lastCounter = d.counter]
  /\ Send(BalanceIs(accounts[ActiveUser].balance, d.counter, d.key))
  /\ UNCHANGED <<clientNonces, serverNonces, cards, opened, debits>>

ServeWithdraw(d) ==
  /\ d.kind = "WITHDRAW" /\ Acceptable(d)
  /\ accounts[ActiveUser].balance >= d.amount
  /\ accounts' = [accounts EXCEPT ![ActiveUser].lastCounter = d.counter,
                                  ![ActiveUser].balance = @ - d.amount]
  /\ debits' = Append(debits, [key |-> d.key, counter |-> d.counter, amount |-> d.amount,
                               user |-> ActiveUser, secret |-> accounts[ActiveUser].secret])
  /\ Send(Dispense(d.amount, d.counter, d.key))
  /\ UNCHANGED <<clientNonces, serverNonces, cards, opened>>

RefuseWithdraw(d) ==
  /\ d.kind = "WITHDRAW" /\ Acceptable(d)
  /\ accounts[ActiveUser].balance < d.amount
  /\ accounts' = [accounts EXCEPT ![ActiveUser].lastCounter = d.counter]
  /\ Send(Insufficient(d.counter, d.key))
  /\ UNCHANGED <<clientNonces, serverNonces, cards, opened, debits>>

ServeEnd(d) ==
  /\ d.kind = "END" /\ Acceptable(d)
  /\ accounts' = [accounts EXCEPT ![ActiveUser].lastCounter = d.counter,
                                  ![ActiveUser].active = FALSE, ![ActiveUser].key = NoKey]
  /\ Send(EndOk(d.counter, d.key))
  /\ UNCHANGED <<clientNonces, serverNonces, cards, opened, debits>>

-----------------------------------------------------------------------------

\* Killed and started again, perhaps within create-user.  (A card written for an
\* account that was lost opens nothing: it counts as blank.)
Restart ==
  /\ accounts' = <<>>
  /\ \/ cards' = cards
     \/ \E u \in Name \ DOMAIN accounts : cards' = [cards EXCEPT ![u] = BlankCard]
  /\ UNCHANGED <<wireVars, opened, debits>>

BankInit ==
  /\ accounts = <<>>
  /\ cards = [u \in Name |-> NoCard]
  /\ opened = {} /\ debits = <<>>

BankStep ==
  \/ \E u \in Name, p \in Pin, s \in Secret, b \in Amount : CreateUser(u, p, s, b)
  \/ \E u \in Name : CreateUserFails(u)
  \/ \E u \in Name, a \in Amount : Deposit(u, a)
  \/ \E d \in net :
       \/ ServeExists(d) \/ ServeAuth(d)
       \/ ServeBalance(d) \/ ServeWithdraw(d) \/ RefuseWithdraw(d) \/ ServeEnd(d)
  \/ Restart

=============================================================================
