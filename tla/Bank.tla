-------------------------------- MODULE Bank --------------------------------
(***************************************************************************)
(* The bank process (bank/bank.c, bank/bank-main.c): accounts in memory,   *)
(* card files on disk, the replay filter, the commands of its console and  *)
(* the requests of the ATM.  The process is single-threaded; it may be     *)
(* killed between any two steps and started again with empty memory.       *)
(*                                                                         *)
(* Commands and requests the code rejects without touching state (usage    *)
(* errors, unknown users, "Too rich", datagrams that are junk, replayed or *)
(* mistagged) are stuttering steps and are the guards below.               *)
(***************************************************************************)
EXTENDS Wire, NonceRing, Sequences

CONSTANTS
  MaxUsers,      \* BANK_MAX_USERS
  Garbage,       \* nonces that uninitialised ring slots may happen to hold
  NoCard,        \* there is no <user>.card file
  BlankCard,     \* the file exists but its contents were not written
  MaxAccepted    \* bound of the model: requests accepted in a behaviour

ASSUME BankAssumption ==
  /\ MaxUsers \in Nat
  /\ Garbage \subseteq Nat /\ Garbage # {}
  /\ MaxAccepted \in Nat
  /\ NoCard \notin Secret /\ BlankCard \notin Secret /\ NoCard # BlankCard

VARIABLES
  users,         \* bank->users[0 .. num_users-1], as a sequence
  ring,          \* bank->nonces, nonce_used, nonce_idx
  cards,         \* the card files; they survive the process
  creating,      \* <<>>, or the one account create-user is about to add
  opened,        \* history: identities of the accounts ever added
  accepted,      \* history: nonces accepted, over all runs of the process
  bootAt,        \* history: Len(accepted) when the process last started
  debits         \* history: withdrawals performed, over all runs

bankState == <<users, ring, cards, creating, opened, accepted, bootAt, debits>>
bankVars  == <<wireVars, bankState>>

Account  == [name : Name, pin : Pin, secret : Secret, balance : Amount]
Identity == [name : Name, pin : Pin, secret : Secret]
IdentityOf(account) ==
  [name |-> account.name, pin |-> account.pin, secret |-> account.secret]

\* Faulty variant: the search begins at the second account.
KnownButTheFirst(u) == \E i \in DOMAIN users : i > 1 /\ users[i].name = u

Known(u) == \E i \in DOMAIN users : users[i].name = u

\* The first account of that name in the array.
FindUser(u) ==
  CHOOSE i \in DOMAIN users :
    /\ users[i].name = u
    /\ \A j \in DOMAIN users : users[j].name = u => i <= j

-----------------------------------------------------------------------------
(* Console commands.                                                       *)

Idle == creating = <<>>

\* Faulty variant: create-user does not look for an existing card file.
CreateCardOverwriting(u, p, s, b) ==
  /\ Idle
  /\ ~Known(u) /\ Len(users) < MaxUsers
  /\ \E content \in {s, BlankCard} : cards' = [cards EXCEPT ![u] = content]
  /\ creating' = <<[name |-> u, pin |-> p, secret |-> s, balance |-> b]>>
  /\ UNCHANGED <<wireVars, users, ring, opened, accepted, bootAt, debits>>

\* create-user, up to fclose(card).  The results of fprintf and fclose are not
\* looked at, so the file may stay blank and the account is added all the same.
CreateCard(u, p, s, b) ==
  /\ Idle
  /\ ~Known(u) /\ Len(users) < MaxUsers
  /\ cards[u] = NoCard
  /\ \E content \in {s, BlankCard} : cards' = [cards EXCEPT ![u] = content]
  /\ creating' = <<[name |-> u, pin |-> p, secret |-> s, balance |-> b]>>
  /\ UNCHANGED <<wireVars, users, ring, opened, accepted, bootAt, debits>>

\* The rest of create-user: the account is appended to the array.
AddAccount ==
  /\ ~Idle
  /\ users' = Append(users, creating[1])
  /\ opened' = opened \cup {IdentityOf(creating[1])}
  /\ creating' = <<>>
  /\ UNCHANGED <<wireVars, ring, cards, accepted, bootAt, debits>>

\* Faulty variant: the guard against overflow compares the deposit alone.
DepositUnguarded(u, amount) ==
  /\ Idle /\ Known(u)
  /\ amount <= IntMax
  /\ users' = [users EXCEPT ![FindUser(u)].balance = @ + amount]
  /\ UNCHANGED <<wireVars, ring, cards, creating, opened, accepted, bootAt, debits>>

Deposit(u, amount) ==
  /\ Idle /\ Known(u)
  /\ amount <= IntMax - users[FindUser(u)].balance
  /\ users' = [users EXCEPT ![FindUser(u)].balance = @ + amount]
  /\ UNCHANGED <<wireVars, ring, cards, creating, opened, accepted, bootAt, debits>>

-----------------------------------------------------------------------------
(* Requests of the ATM.                                                    *)

\* The prologue of bank_process_remote_command: an authentic request whose
\* nonce is not in the ring is remembered before it is served.
Accept(d) ==
  /\ Idle /\ Len(accepted) < MaxAccepted
  /\ d.tag = "R"
  /\ ~NonceSeen(ring, d.nonce)
  /\ ring' = NonceRemember(ring, d.nonce)
  /\ accepted' = Append(accepted, d.nonce)

\* Its epilogue.  A send that fails is a datagram that never arrives.
Answer(d, reply) == Send(AnswerDatagram(d.nonce, reply))

ServeExists(d) ==
  /\ Accept(d) /\ d.body.op = "exists"
  /\ Answer(d, IF Known(d.body.user) THEN Ok ELSE No)
  /\ UNCHANGED <<issued, users, cards, creating, opened, bootAt, debits>>

\* Faulty variant: the card alone authenticates.
AuthenticByCard(request) ==
  /\ Known(request.user)
  /\ users[FindUser(request.user)].secret = request.secret

\* Both the pin and the card secret must be the account's.
Authentic(request) ==
  /\ Known(request.user)
  /\ users[FindUser(request.user)].pin = request.pin
  /\ users[FindUser(request.user)].secret = request.secret

ServeAuth(d) ==
  /\ Accept(d) /\ d.body.op = "auth"
  /\ Answer(d, IF Authentic(d.body) THEN Ok ELSE No)
  /\ UNCHANGED <<issued, users, cards, creating, opened, bootAt, debits>>

\* Faulty variant: the balance is not written over the initial "NO".
ServeBalanceAnsweringNo(d) ==
  /\ Accept(d) /\ d.body.op = "balance"
  /\ Answer(d, No)
  /\ UNCHANGED <<issued, users, cards, creating, opened, bootAt, debits>>

ServeBalance(d) ==
  /\ Accept(d) /\ d.body.op = "balance"
  /\ Answer(d, IF Known(d.body.user)
                 THEN Bal(users[FindUser(d.body.user)].balance)
                 ELSE No)
  /\ UNCHANGED <<issued, users, cards, creating, opened, bootAt, debits>>

CanDebit(request) ==
  /\ Known(request.user)
  /\ request.amount <= users[FindUser(request.user)].balance

\* Faulty variant: the reply of a debit is left at its initial "NO".
DebitAnsweringNo(d) ==
  /\ Accept(d) /\ d.body.op = "withdraw"
  /\ CanDebit(d.body)
  /\ users' = [users EXCEPT ![FindUser(d.body.user)].balance = @ - d.body.amount]
  /\ debits' = Append(debits, [nonce |-> d.nonce, user |-> d.body.user,
                               amount |-> d.body.amount, at |-> Len(accepted) + 1])
  /\ Answer(d, No)
  /\ UNCHANGED <<issued, cards, creating, opened, bootAt>>

Debit(d) ==
  /\ Accept(d) /\ d.body.op = "withdraw"
  /\ CanDebit(d.body)
  /\ users' = [users EXCEPT ![FindUser(d.body.user)].balance = @ - d.body.amount]
  /\ debits' = Append(debits, [nonce |-> d.nonce, user |-> d.body.user,
                               amount |-> d.body.amount, at |-> Len(accepted) + 1])
  /\ Answer(d, Ok)
  /\ UNCHANGED <<issued, cards, creating, opened, bootAt>>

RefuseDebit(d) ==
  /\ Accept(d) /\ d.body.op = "withdraw"
  /\ ~CanDebit(d.body)
  /\ Answer(d, IF Known(d.body.user) THEN Nsf ELSE No)
  /\ UNCHANGED <<issued, users, cards, creating, opened, bootAt, debits>>

Serve(d) ==
  ServeExists(d) \/ ServeAuth(d) \/ ServeBalance(d) \/ Debit(d) \/ RefuseDebit(d)

-----------------------------------------------------------------------------
(* The process and its environment.                                        *)

\* Killed and started again: memory is lost, the card files and the datagrams
\* in the network are not.
Restart ==
  /\ users' = <<>> /\ creating' = <<>>
  /\ \E garbage \in [Slots -> Garbage] : ring' = EmptyRing(garbage)
  /\ bootAt' = Len(accepted)
  /\ UNCHANGED <<wireVars, cards, opened, accepted, debits>>

BankInit ==
  /\ WireInit
  /\ users = <<>> /\ creating = <<>>
  /\ \E garbage \in [Slots -> Garbage] : ring = EmptyRing(garbage)
  /\ cards = [u \in Name |-> NoCard]
  /\ opened = {} /\ accepted = <<>> /\ bootAt = 0 /\ debits = <<>>

BankStep ==
  \/ \E u \in Name, p \in Pin, s \in Secret, b \in Amount : CreateCard(u, p, s, b)
  \/ AddAccount
  \/ \E u \in Name, a \in Amount : Deposit(u, a)
  \/ \E d \in net : Serve(d)
  \/ Restart

\* The most general client: any request, at any time, under a fresh nonce.
ClientRequest ==
  /\ \E request \in Request : SendRequest(request)
  /\ UNCHANGED bankState

BankNext == BankStep \/ ClientRequest

BankSpec == BankInit /\ [][BankNext]_bankVars

-----------------------------------------------------------------------------
(* Properties.                                                             *)

DebitRecord == [nonce : 1 .. MaxRequests, user : Name, amount : Amount, at : Nat \ {0}]

\* Every variable has its type; in particular a balance never leaves
\* 0 .. INT_MAX, whatever deposits and withdrawals do to it.
BankTypeOK ==
  /\ WireTypeOK
  /\ users \in Seq(Account) /\ Len(users) <= MaxUsers
  /\ creating \in Seq(Account) /\ Len(creating) <= 1
  /\ ring \in [nonces : [Slots -> Nat], used : [Slots -> BOOLEAN], idx : Slots]
  /\ cards \in [Name -> Secret \cup {NoCard, BlankCard}]
  /\ opened \subseteq Identity
  /\ accepted \in Seq(1 .. MaxRequests)
  /\ bootAt \in 0 .. Len(accepted)
  /\ debits \in Seq(DebitRecord)

\* The replay filter is exact: the ring holds precisely the nonces of the last
\* RingSize requests accepted since the process started.  Nothing older is
\* remembered, nothing recent is forgotten, and the uninitialised slots never
\* cause a fresh request to be dropped.
FilterExact ==
  \A n \in 1 .. MaxRequests :
    NonceSeen(ring, n) <=>
      \E k \in bootAt + 1 .. Len(accepted) :
        k > Len(accepted) - RingSize /\ accepted[k] = n

\* A request debits its account again only after RingSize other requests were
\* accepted in between, however often it is delivered, and however often the
\* bank is restarted with an empty ring in the meantime.
DebitWindow ==
  \A j, k \in DOMAIN debits :
    j < k /\ debits[j].nonce = debits[k].nonce
      => debits[k].at - debits[j].at > RingSize

\* A name belongs to one account, for ever: no two accounts in memory, no two
\* accounts of different runs of the bank, and no account about to be added
\* share a name.
OneAccountPerName ==
  /\ \A i, j \in DOMAIN users : users[i].name = users[j].name => i = j
  /\ \A a, b \in opened : a.name = b.name => a = b
  /\ \A i \in DOMAIN users : IdentityOf(users[i]) \in opened
  /\ \A i \in DOMAIN creating : \A a \in opened : a.name # creating[i].name

\* The card of an account that was ever opened holds that account's secret and
\* no other, or is blank because writing it failed: a card is never rewritten
\* for somebody else, not even after a restart.
CardIsOwn ==
  \A a \in opened : cards[a.name] \in {a.secret, BlankCard}

=============================================================================
