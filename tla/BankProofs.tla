----------------------------- MODULE BankProofs -----------------------------
(***************************************************************************)
(* Theorems about the bank, for every size of the ring, of the account     *)
(* table and of the other constants.                                       *)
(***************************************************************************)
EXTENDS Bank, TLAPS, SequenceTheorems

-----------------------------------------------------------------------------
(* The inductive invariant.  BankTypeOK is its first part.                 *)

\* Names: OneAccountPerName and CardIsOwn hold together, and the account
\* create-user is about to add already has its card and no namesake.
NamesInv ==
  /\ OneAccountPerName
  /\ CardIsOwn
  /\ creating # <<>> => Len(users) < MaxUsers
  /\ \A i \in DOMAIN creating :
       /\ ~Known(creating[i].name)
       /\ cards[creating[i].name] \in {creating[i].secret, BlankCard}

\* Requests: nonces are drawn once.
RequestsInv ==
  /\ \A d \in net : d.nonce <= issued
  /\ \A d, e \in net : d.tag = "R" /\ e.tag = "R" /\ d.nonce = e.nonce => d = e

\* The position in accepted of the nonce that slot i of the ring holds: the
\* slots below idx were written in the current round, the others in the last.
Written(i) ==
  Len(accepted) - ring.idx + 1 + i - (IF i < ring.idx THEN 0 ELSE RingSize)

\* The ring: every slot in use holds the nonce written there last; and either
\* the first round since the start of the process is not over and only the
\* slots below idx are in use, or all of them are.
RingHolds ==
  \A i \in Slots : ring.used[i] => ring.nonces[i] = accepted[Written(i)]

RingFirstRound ==
  /\ Len(accepted) - bootAt < RingSize
  /\ ring.idx = Len(accepted) - bootAt
  /\ \A i \in Slots : ring.used[i] <=> i < ring.idx

RingFull ==
  /\ Len(accepted) - bootAt >= RingSize
  /\ \A i \in Slots : ring.used[i]

RingInv == RingHolds /\ (RingFirstRound \/ RingFull)

\* The debits: each was made for a request in the network, when its nonce was
\* accepted, on an account that has a card; and the accounts debited before
\* the process last started do not exist any more.
DebitsInv ==
  \A k \in DOMAIN debits :
    /\ debits[k].at \in 1 .. Len(accepted)
    /\ accepted[debits[k].at] = debits[k].nonce
    /\ \E d \in net : /\ d.tag = "R" /\ d.nonce = debits[k].nonce
                      /\ d.body.user = debits[k].user
    /\ cards[debits[k].user] # NoCard
    /\ debits[k].at <= bootAt =>
         /\ ~Known(debits[k].user)
         /\ \A i \in DOMAIN creating : creating[i].name # debits[k].user

-----------------------------------------------------------------------------
(* Lemmas about the operators of the model.                                *)

\* The ring index advances by one, modulo the size of the ring.
LEMMA NextSlot ==
  ASSUME NEW i \in Slots
  PROVE  (i + 1) % RingSize = IF i + 1 = RingSize THEN 0 ELSE i + 1
BY RingSizeAssumption, SMTT(30) DEF Slots

\* What an R datagram is made of.
LEMMA RequestShape ==
  ASSUME WireTypeOK, NEW d \in net, d.tag = "R"
  PROVE  /\ d.nonce \in 1 .. MaxRequests
         /\ d.body \in Request
BY DEF WireTypeOK, Datagram, AnswerDatagram, RequestDatagram

\* Every request names a user, and a withdrawal an amount.
LEMMA RequestFields ==
  ASSUME NEW request \in Request
  PROVE  /\ request.user \in Name
         /\ request.op = "withdraw" => request.amount \in Amount
BY DEF Request, ExistsRequest, AuthRequest, BalanceRequest, WithdrawRequest

\* While names are unique, find_user returns the account of that name.
LEMMA FindUserFinds ==
  ASSUME BankTypeOK, OneAccountPerName, NEW u, Known(u)
  PROVE  /\ FindUser(u) \in 1 .. Len(users)
         /\ users[FindUser(u)] \in Account
         /\ users[FindUser(u)].name = u
<1>1. users \in Seq(Account)
  BY DEF BankTypeOK
<1>2. PICK i \in DOMAIN users : users[i].name = u
  BY DEF Known
<1>3. /\ i \in 1 .. Len(users)
      /\ \A j \in DOMAIN users : users[j].name = u => i <= j
  BY <1>1, <1>2 DEF OneAccountPerName
<1>4. /\ FindUser(u) \in DOMAIN users
      /\ users[FindUser(u)].name = u
  BY <1>2, <1>3 DEF FindUser
<1>. QED
  BY <1>1, <1>4, ElementOfSeq

\* Sending an answer keeps the network well typed, adds no request, and
\* carries no nonce that was not there.
LEMMA AnswerKeepsWire ==
  ASSUME WireTypeOK, NEW d \in net, d.tag = "R", NEW reply \in Reply,
         Answer(d, reply), UNCHANGED issued
  PROVE  /\ WireTypeOK'
         /\ \A e \in net' : e.tag = "R" => e \in net
         /\ net \subseteq net'
         /\ RequestsInv => RequestsInv'
BY RequestShape
DEF Answer, Send, WireTypeOK, Datagram, AnswerDatagram, RequestDatagram, RequestsInv

\* The ring of a fresh process is well typed and empty.
LEMMA EmptyRingType ==
  ASSUME NEW garbage \in [Slots -> Garbage]
  PROVE  EmptyRing(garbage) \in
           [nonces : [Slots -> Nat], used : [Slots -> BOOLEAN], idx : Slots]
<1>1. garbage \in [Slots -> Nat]
  BY BankAssumption
<1>2. 0 \in Slots
  BY RingSizeAssumption DEF Slots
<1>. QED
  BY <1>1, <1>2 DEF EmptyRing

\* Remembering a nonce keeps the ring well typed.
LEMMA RememberType ==
  ASSUME NEW n \in Nat,
         ring \in [nonces : [Slots -> Nat], used : [Slots -> BOOLEAN], idx : Slots]
  PROVE  NonceRemember(ring, n) \in
           [nonces : [Slots -> Nat], used : [Slots -> BOOLEAN], idx : Slots]
<1>1. (ring.idx + 1) % RingSize \in Slots
  BY NextSlot, RingSizeAssumption DEF Slots
<1>2. [ring.nonces EXCEPT ![ring.idx] = n] \in [Slots -> Nat]
  OBVIOUS
<1>3. [ring.used EXCEPT ![ring.idx] = TRUE] \in [Slots -> BOOLEAN]
  OBVIOUS
<1>. QED
  BY <1>1, <1>2, <1>3 DEF NonceRemember

\* What accepting a request does to the ring and to accepted.
LEMMA AcceptEffect ==
  ASSUME BankTypeOK, NEW d \in net, Accept(d)
  PROVE  /\ ring' \in [nonces : [Slots -> Nat], used : [Slots -> BOOLEAN], idx : Slots]
         /\ accepted' \in Seq(1 .. MaxRequests)
         /\ Len(accepted') = Len(accepted) + 1
         /\ \A k \in 1 .. Len(accepted) : accepted'[k] = accepted[k]
         /\ accepted'[Len(accepted) + 1] = d.nonce
<1>1. d.nonce \in 1 .. MaxRequests
  BY RequestShape DEF Accept, BankTypeOK
<1>2. ring' \in [nonces : [Slots -> Nat], used : [Slots -> BOOLEAN], idx : Slots]
  <2>1. d.nonce \in Nat
    BY <1>1, WireAssumption
  <2>2. ring \in [nonces : [Slots -> Nat], used : [Slots -> BOOLEAN], idx : Slots]
    BY DEF BankTypeOK
  <2>3. NonceRemember(ring, d.nonce) \in
          [nonces : [Slots -> Nat], used : [Slots -> BOOLEAN], idx : Slots]
    BY <2>1, <2>2, RememberType
  <2>. QED
    BY <2>3 DEF Accept
<1>3. accepted \in Seq(1 .. MaxRequests) /\ accepted' = Append(accepted, d.nonce)
  BY DEF Accept, BankTypeOK
<1>. QED
  BY <1>1, <1>2, <1>3

\* An update of one account's balance keeps the table well typed, and with it
\* every name and identity.
LEMMA BalanceUpdate ==
  ASSUME BankTypeOK, NEW i \in 1 .. Len(users), NEW b \in Amount,
         users' = [users EXCEPT ![i].balance = b]
  PROVE  /\ users' \in Seq(Account)
         /\ Len(users') = Len(users)
         /\ DOMAIN users' = DOMAIN users
         /\ \A j \in DOMAIN users : /\ users'[j].name = users[j].name
                                    /\ IdentityOf(users'[j]) = IdentityOf(users[j])
<1>1. users \in Seq(Account) /\ users[i] \in Account
  BY DEF BankTypeOK
<1>2. [users[i] EXCEPT !.balance = b] \in Account
  BY <1>1 DEF Account
<1>3. users' = [users EXCEPT ![i] = [users[i] EXCEPT !.balance = b]]
  BY <1>1
<1>4. /\ users' \in Seq(Account)
      /\ Len(users') = Len(users)
      /\ \A j \in 1 .. Len(users) :
           users'[j] = IF j = i THEN [users[i] EXCEPT !.balance = b] ELSE users[j]
  BY <1>1, <1>2, <1>3, ExceptSeq
<1>5. DOMAIN users' = DOMAIN users
  BY <1>1, <1>4
<1>. QED
  BY <1>1, <1>4, <1>5 DEF IdentityOf, Account

\* A step that serves a request is one of five, and none of them touches the
\* cards, the names in the table, or the history of accounts.
LEMMA ServeEffect ==
  ASSUME BankTypeOK, OneAccountPerName, NEW d \in net, Serve(d)
  PROVE  /\ Accept(d)
         /\ UNCHANGED <<issued, cards, creating, opened, bootAt>>
         /\ \E reply \in Reply : Answer(d, reply)
         /\ \/ UNCHANGED <<users, debits>>
            \/ Debit(d)
<1>0. Accept(d) /\ d.tag = "R" /\ d.body \in Request /\ WireTypeOK
  BY RequestShape DEF Serve, ServeExists, ServeAuth, ServeBalance, Debit, RefuseDebit,
                      Accept, BankTypeOK
<1>1. CASE ServeExists(d)
  BY <1>0, <1>1 DEF ServeExists, Reply
<1>2. CASE ServeAuth(d)
  BY <1>0, <1>2 DEF ServeAuth, Reply
<1>3. CASE ServeBalance(d)
  <2>1. Known(d.body.user) => users[FindUser(d.body.user)].balance \in Amount
    BY FindUserFinds DEF Account
  <2>. QED
    BY <1>0, <1>3, <2>1 DEF ServeBalance, Reply
<1>4. CASE Debit(d)
  BY <1>0, <1>4 DEF Debit, Reply
<1>5. CASE RefuseDebit(d)
  BY <1>0, <1>5 DEF RefuseDebit, Reply
<1>. QED
  BY <1>1, <1>2, <1>3, <1>4, <1>5 DEF Serve

\* What a debit does: the account exists, and pays.
LEMMA DebitEffect ==
  ASSUME BankTypeOK, OneAccountPerName, NEW d \in net, Debit(d)
  PROVE  /\ Known(d.body.user)
         /\ d.body.user \in Name
         /\ FindUser(d.body.user) \in 1 .. Len(users)
         /\ users[FindUser(d.body.user)].balance - d.body.amount \in Amount
         /\ users' = [users EXCEPT ![FindUser(d.body.user)].balance =
                         users[FindUser(d.body.user)].balance - d.body.amount]
         /\ \E record \in DebitRecord :
              /\ debits' = Append(debits, record)
              /\ record.nonce = d.nonce /\ record.user = d.body.user
              /\ record.amount = d.body.amount
              /\ record.at = Len(accepted) + 1
<1>1. d.nonce \in 1 .. MaxRequests /\ d.body \in Request
  BY RequestShape DEF Debit, Accept, BankTypeOK
<1>2. d.body.user \in Name /\ d.body.amount \in Amount
  BY <1>1, RequestFields DEF Debit
<1>3. /\ Known(d.body.user)
      /\ d.body.amount <= users[FindUser(d.body.user)].balance
  BY DEF Debit, CanDebit
<1>4. /\ FindUser(d.body.user) \in 1 .. Len(users)
      /\ users[FindUser(d.body.user)] \in Account
  BY <1>3, FindUserFinds
<1>5. users[FindUser(d.body.user)].balance - d.body.amount \in Amount
  BY <1>2, <1>3, <1>4, WireAssumption DEF Account, Amount
<1>6. /\ users' = [users EXCEPT ![FindUser(d.body.user)].balance =
                      users[FindUser(d.body.user)].balance - d.body.amount]
      /\ debits' = Append(debits, [nonce |-> d.nonce, user |-> d.body.user,
                                   amount |-> d.body.amount, at |-> Len(accepted) + 1])
  BY <1>4 DEF Debit, BankTypeOK
<1>7. Len(accepted) + 1 \in Nat \ {0}
  BY DEF BankTypeOK
<1>8. [nonce |-> d.nonce, user |-> d.body.user,
       amount |-> d.body.amount, at |-> Len(accepted) + 1] \in DebitRecord
  BY <1>1, <1>2, <1>7 DEF DebitRecord
<1>. QED
  BY <1>2, <1>3, <1>4, <1>5, <1>6, <1>8

\* What a deposit does: the account exists, and its balance stays an amount.
LEMMA DepositEffect ==
  ASSUME BankTypeOK, OneAccountPerName, NEW u \in Name, NEW a \in Amount, Deposit(u, a)
  PROVE  /\ FindUser(u) \in 1 .. Len(users)
         /\ users[FindUser(u)].balance + a \in Amount
         /\ users' = [users EXCEPT ![FindUser(u)].balance = users[FindUser(u)].balance + a]
<1>1. FindUser(u) \in 1 .. Len(users) /\ users[FindUser(u)] \in Account
  BY FindUserFinds DEF Deposit
<1>2. users[FindUser(u)].balance + a \in Amount
  BY <1>1, WireAssumption DEF Deposit, Account, Amount
<1>3. users' = [users EXCEPT ![FindUser(u)].balance = users[FindUser(u)].balance + a]
  BY <1>1 DEF Deposit, BankTypeOK
<1>. QED
  BY <1>1, <1>2, <1>3

\* What a request of the general client does to the network.
LEMMA ClientEffect ==
  ASSUME BankTypeOK, ClientRequest
  PROVE  /\ WireTypeOK'
         /\ issued' = issued + 1
         /\ \E request \in Request :
              net' = net \cup {RequestDatagram(issued + 1, request)}
         /\ UNCHANGED bankState
<1>1. PICK request \in Request : SendRequest(request)
  BY DEF ClientRequest
<1>2. /\ issued \in 0 .. MaxRequests /\ issued < MaxRequests
      /\ issued' = issued + 1
      /\ net' = net \cup {RequestDatagram(issued + 1, request)}
  BY <1>1 DEF SendRequest, Send, BankTypeOK, WireTypeOK
<1>3. issued + 1 \in 1 .. MaxRequests /\ issued' \in 0 .. MaxRequests
  BY <1>2, WireAssumption
<1>4. RequestDatagram(issued + 1, request) \in Datagram
  BY <1>1, <1>3 DEF Datagram
<1>. QED
  BY <1>2, <1>3, <1>4 DEF BankTypeOK, WireTypeOK, RequestDatagram, ClientRequest

-----------------------------------------------------------------------------
(* BankTypeOK.                                                             *)

LEMMA TypeInit == BankInit => BankTypeOK
<1>. SUFFICES ASSUME BankInit PROVE BankTypeOK
  OBVIOUS
<1>1. WireTypeOK
  BY WireAssumption DEF BankInit, WireInit, WireTypeOK
<1>2. ring \in [nonces : [Slots -> Nat], used : [Slots -> BOOLEAN], idx : Slots]
  BY EmptyRingType DEF BankInit
<1>3. cards \in [Name -> Secret \cup {NoCard, BlankCard}]
  BY DEF BankInit
<1>. QED
  BY <1>1, <1>2, <1>3, BankAssumption, EmptySeq DEF BankInit, BankTypeOK

LEMMA TypeStep ==
  ASSUME BankTypeOK, NamesInv, [BankNext]_bankVars
  PROVE  BankTypeOK'
<1>0. OneAccountPerName
  BY DEF NamesInv
<1>1. ASSUME NEW u \in Name, NEW p \in Pin, NEW s \in Secret, NEW b \in Amount,
             CreateCard(u, p, s, b)
      PROVE  BankTypeOK'
  <2>1. [name |-> u, pin |-> p, secret |-> s, balance |-> b] \in Account
    BY DEF Account
  <2>2. creating' \in Seq(Account) /\ Len(creating') = 1
    BY <1>1, <2>1 DEF CreateCard
  <2>3. cards' \in [Name -> Secret \cup {NoCard, BlankCard}]
    BY <1>1 DEF CreateCard, BankTypeOK
  <2>. QED
    BY <1>1, <2>2, <2>3 DEF CreateCard, BankTypeOK, wireVars, WireTypeOK
<1>2. CASE AddAccount
  <2>1. creating[1] \in Account
    BY <1>2, ElementOfSeq, EmptySeq DEF AddAccount, Idle, BankTypeOK
  <2>2. users' \in Seq(Account) /\ Len(users') = Len(users) + 1
    BY <1>2, <2>1 DEF AddAccount, BankTypeOK
  <2>3. opened' \subseteq Identity
    BY <1>2, <2>1 DEF AddAccount, BankTypeOK, IdentityOf, Identity, Account
  <2>4. Len(users) < MaxUsers
    BY <1>2 DEF AddAccount, Idle, NamesInv
  <2>. QED
    BY <1>2, <2>2, <2>3, <2>4, EmptySeq, BankAssumption
    DEF AddAccount, BankTypeOK, wireVars, WireTypeOK
<1>3. ASSUME NEW u \in Name, NEW a \in Amount, Deposit(u, a)
      PROVE  BankTypeOK'
  <2>1. PICK i \in 1 .. Len(users), b \in Amount : users' = [users EXCEPT ![i].balance = b]
    BY <1>0, <1>3, DepositEffect
  <2>2. users' \in Seq(Account) /\ Len(users') = Len(users)
    BY <2>1, BalanceUpdate
  <2>. QED
    BY <1>3, <2>2 DEF Deposit, BankTypeOK, wireVars, WireTypeOK
<1>4. ASSUME NEW d \in net, Serve(d)
      PROVE  BankTypeOK'
  <2>1. Accept(d) /\ UNCHANGED <<issued, cards, creating, opened, bootAt>>
    BY <1>0, <1>4, ServeEffect
  <2>2. WireTypeOK'
    BY <1>0, <1>4, ServeEffect, AnswerKeepsWire DEF Accept, BankTypeOK
  <2>3. users' \in Seq(Account) /\ Len(users') = Len(users) /\ debits' \in Seq(DebitRecord)
    <3>1. CASE UNCHANGED <<users, debits>>
      BY <3>1 DEF BankTypeOK
    <3>2. CASE Debit(d)
      <4>1. PICK b \in Amount, record \in DebitRecord :
              /\ FindUser(d.body.user) \in 1 .. Len(users)
              /\ users' = [users EXCEPT ![FindUser(d.body.user)].balance = b]
              /\ debits' = Append(debits, record)
        BY <1>0, <3>2, DebitEffect
      <4>2. users' \in Seq(Account) /\ Len(users') = Len(users)
        BY <4>1, BalanceUpdate
      <4>. QED
        BY <4>1, <4>2 DEF BankTypeOK
    <3>. QED
      BY <1>0, <1>4, <3>1, <3>2, ServeEffect
  <2>4. /\ ring' \in [nonces : [Slots -> Nat], used : [Slots -> BOOLEAN], idx : Slots]
        /\ accepted' \in Seq(1 .. MaxRequests)
        /\ Len(accepted') = Len(accepted) + 1
    BY <2>1, AcceptEffect
  <2>5. bootAt' \in 0 .. Len(accepted')
    BY <2>1, <2>4 DEF BankTypeOK
  <2>. QED
    BY <2>1, <2>2, <2>3, <2>4, <2>5 DEF BankTypeOK
<1>5. CASE Restart
  <2>1. ring' \in [nonces : [Slots -> Nat], used : [Slots -> BOOLEAN], idx : Slots]
    BY <1>5, EmptyRingType DEF Restart
  <2>2. bootAt' \in 0 .. Len(accepted')
    BY <1>5 DEF Restart, BankTypeOK
  <2>. QED
    BY <1>5, <2>1, <2>2, EmptySeq, BankAssumption
    DEF Restart, BankTypeOK, wireVars, WireTypeOK
<1>6. CASE ClientRequest
  BY <1>6, ClientEffect DEF BankTypeOK, bankState
<1>7. CASE UNCHANGED bankVars
  BY <1>7 DEF BankTypeOK, bankVars, bankState, wireVars, WireTypeOK
<1>. QED
  BY <1>1, <1>2, <1>3, <1>4, <1>5, <1>6, <1>7 DEF BankNext, BankStep

-----------------------------------------------------------------------------
(* The other parts of the invariant.                                       *)

\* An update of a balance disturbs nothing that is said about names.
LEMMA BalanceKeepsNames ==
  ASSUME BankTypeOK, NamesInv, NEW i \in 1 .. Len(users), NEW b \in Amount,
         users' = [users EXCEPT ![i].balance = b],
         UNCHANGED <<cards, creating, opened>>
  PROVE  NamesInv' /\ \A u : Known(u)' <=> Known(u)
<1>1. /\ Len(users') = Len(users)
      /\ DOMAIN users' = DOMAIN users
      /\ \A j \in DOMAIN users : /\ users'[j].name = users[j].name
                                 /\ IdentityOf(users'[j]) = IdentityOf(users[j])
  BY BalanceUpdate
<1>2. \A u : Known(u)' <=> Known(u)
  BY <1>1 DEF Known
<1>3. OneAccountPerName' /\ CardIsOwn'
  BY <1>1 DEF NamesInv, OneAccountPerName, CardIsOwn
<1>. QED
  BY <1>1, <1>2, <1>3 DEF NamesInv

LEMMA NamesStep ==
  ASSUME BankTypeOK, NamesInv, [BankNext]_bankVars
  PROVE  NamesInv'
<1>0. OneAccountPerName
  BY DEF NamesInv
<1>1. ASSUME NEW u \in Name, NEW p \in Pin, NEW s \in Secret, NEW b \in Amount,
             CreateCard(u, p, s, b)
      PROVE  NamesInv'
  <2>1. /\ \A a \in opened : a.name # u
        /\ \A v : v # u => cards'[v] = cards[v]
        /\ cards'[u] \in {s, BlankCard}
    BY <1>1, BankAssumption
    DEF CreateCard, NamesInv, CardIsOwn, BankTypeOK, Identity
  <2>2. \A i \in DOMAIN creating' :
          creating'[i] = [name |-> u, pin |-> p, secret |-> s, balance |-> b]
    BY <1>1 DEF CreateCard
  <2>3. OneAccountPerName'
    BY <1>1, <2>1, <2>2 DEF CreateCard, NamesInv, OneAccountPerName
  <2>4. CardIsOwn'
    BY <1>1, <2>1 DEF CreateCard, NamesInv, CardIsOwn
  <2>. QED
    BY <1>1, <2>1, <2>2, <2>3, <2>4 DEF CreateCard, NamesInv, Known
<1>2. CASE AddAccount
  <2>. DEFINE new == creating[1]
  <2>1. 1 \in DOMAIN creating
    BY <1>2, EmptySeq DEF AddAccount, Idle, BankTypeOK
  <2>2. /\ \A a \in opened : a.name # new.name
        /\ ~Known(new.name)
        /\ cards[new.name] \in {new.secret, BlankCard}
    BY <2>1 DEF NamesInv, OneAccountPerName
  <2>3. /\ opened' = opened \cup {IdentityOf(new)}
        /\ IdentityOf(new).name = new.name
        /\ IdentityOf(new).secret = new.secret
        /\ creating' = <<>> /\ cards' = cards
    BY <1>2 DEF AddAccount, IdentityOf
  <2>4. /\ DOMAIN users' = DOMAIN users \cup {Len(users) + 1}
        /\ \A i \in DOMAIN users : users'[i] = users[i]
        /\ users'[Len(users) + 1] = new
    BY <1>2 DEF AddAccount, BankTypeOK
  <2>5. \A i, j \in DOMAIN users' : users'[i].name = users'[j].name => i = j
    BY <2>2, <2>4, <1>0 DEF OneAccountPerName, Known
  <2>6. \A a, b \in opened' : a.name = b.name => a = b
    BY <2>2, <2>3, <1>0 DEF OneAccountPerName
  <2>7. \A i \in DOMAIN users' : IdentityOf(users'[i]) \in opened'
    BY <2>3, <2>4, <1>0 DEF OneAccountPerName
  <2>8. CardIsOwn'
    BY <2>2, <2>3 DEF NamesInv, CardIsOwn
  <2>9. DOMAIN creating' = {}
    BY <2>3
  <2>. QED
    BY <2>3, <2>5, <2>6, <2>7, <2>8, <2>9 DEF NamesInv, OneAccountPerName
<1>3. ASSUME NEW u \in Name, NEW a \in Amount, Deposit(u, a)
      PROVE  NamesInv'
  <2>1. PICK i \in 1 .. Len(users), b \in Amount : users' = [users EXCEPT ![i].balance = b]
    BY <1>0, <1>3, DepositEffect
  <2>. QED
    BY <1>3, <2>1, BalanceKeepsNames DEF Deposit
<1>4. ASSUME NEW d \in net, Serve(d)
      PROVE  NamesInv'
  <2>1. UNCHANGED <<cards, creating, opened>>
    BY <1>0, <1>4, ServeEffect
  <2>2. CASE UNCHANGED users
    BY <2>1, <2>2 DEF NamesInv, OneAccountPerName, CardIsOwn, Known
  <2>3. CASE Debit(d)
    <3>1. PICK b \in Amount :
            /\ FindUser(d.body.user) \in 1 .. Len(users)
            /\ users' = [users EXCEPT ![FindUser(d.body.user)].balance = b]
      BY <1>0, <2>3, DebitEffect
    <3>. QED
      BY <2>1, <3>1, BalanceKeepsNames
  <2>. QED
    BY <1>0, <1>4, <2>2, <2>3, ServeEffect
<1>5. CASE Restart
  <2>1. DOMAIN users' = {} /\ DOMAIN creating' = {} /\ creating' = <<>>
    BY <1>5 DEF Restart
  <2>. QED
    BY <1>5, <2>1 DEF Restart, NamesInv, OneAccountPerName, CardIsOwn
<1>6. CASE ClientRequest \/ UNCHANGED bankVars
  BY <1>6 DEF ClientRequest, bankVars, bankState, NamesInv, OneAccountPerName, CardIsOwn, Known
<1>. QED
  BY <1>1, <1>2, <1>3, <1>4, <1>5, <1>6 DEF BankNext, BankStep

LEMMA RequestsStep ==
  ASSUME BankTypeOK, NamesInv, RequestsInv, [BankNext]_bankVars
  PROVE  RequestsInv'
<1>1. CASE ClientRequest
  <2>1. /\ issued \in Nat
        /\ issued' = issued + 1
    BY <1>1, ClientEffect, WireAssumption DEF BankTypeOK, WireTypeOK
  <2>2. PICK request \in Request : net' = net \cup {RequestDatagram(issued + 1, request)}
    BY <1>1, ClientEffect
  <2>3. RequestDatagram(issued + 1, request).nonce = issued + 1
    BY DEF RequestDatagram
  <2>4. \A d \in net : d.nonce <= issued
    BY DEF RequestsInv
  <2>5. \A d \in net' : d.nonce <= issued'
    <3>1. \A d \in net : d.nonce \in Nat
      BY WireAssumption
      DEF BankTypeOK, WireTypeOK, Datagram, RequestDatagram, AnswerDatagram
    <3>. QED
      BY <2>1, <2>2, <2>3, <2>4, <3>1
  <2>. QED
    BY <2>1, <2>2, <2>3, <2>4, <2>5 DEF RequestsInv
<1>2. ASSUME NEW d \in net, Serve(d)
      PROVE  RequestsInv'
  <2>1. /\ d.tag = "R" /\ UNCHANGED issued
        /\ \E reply \in Reply : Answer(d, reply)
    BY <1>2, ServeEffect DEF Accept, NamesInv
  <2>. QED
    BY <2>1, AnswerKeepsWire DEF BankTypeOK
<1>3. CASE UNCHANGED wireVars
  BY <1>3 DEF wireVars, RequestsInv
<1>. QED
  BY <1>1, <1>2, <1>3
  DEF BankNext, BankStep, CreateCard, AddAccount, Deposit, Restart, bankVars

\* What remembering a nonce does to each slot.
LEMMA RememberEffect ==
  ASSUME BankTypeOK, NEW n, ring' = NonceRemember(ring, n)
  PROVE  /\ ring'.idx = IF ring.idx + 1 = RingSize THEN 0 ELSE ring.idx + 1
         /\ \A i \in Slots :
              /\ ring'.used[i] <=> (ring.used[i] \/ i = ring.idx)
              /\ ring'.nonces[i] = IF i = ring.idx THEN n ELSE ring.nonces[i]
<1>1. ring \in [nonces : [Slots -> Nat], used : [Slots -> BOOLEAN], idx : Slots]
  BY DEF BankTypeOK
<1>2. /\ ring'.nonces = [ring.nonces EXCEPT ![ring.idx] = n]
      /\ ring'.used = [ring.used EXCEPT ![ring.idx] = TRUE]
      /\ ring'.idx = (ring.idx + 1) % RingSize
  BY DEF NonceRemember
<1>3. ring.idx \in Slots
  BY <1>1
<1>4. ring'.idx = IF ring.idx + 1 = RingSize THEN 0 ELSE ring.idx + 1
  BY <1>2, <1>3, NextSlot
<1>. QED
  BY <1>1, <1>2, <1>4

\* Accepting a request keeps the ring in step with accepted.
LEMMA AcceptKeepsRing ==
  ASSUME BankTypeOK, RingInv, NEW d \in net, Accept(d), bootAt' = bootAt
  PROVE  RingInv'
<1>. DEFINE len == Len(accepted)
<1>1. /\ len \in Nat /\ bootAt \in 0 .. len /\ RingSize \in Nat \ {0}
      /\ ring.idx \in 0 .. RingSize - 1
  BY RingSizeAssumption DEF BankTypeOK, Slots
<1>2. /\ Len(accepted') = len + 1
      /\ \A k \in 1 .. len : accepted'[k] = accepted[k]
      /\ accepted'[len + 1] = d.nonce
  BY AcceptEffect
<1>3. /\ ring'.idx = IF ring.idx + 1 = RingSize THEN 0 ELSE ring.idx + 1
      /\ \A i \in Slots :
           /\ ring'.used[i] <=> (ring.used[i] \/ i = ring.idx)
           /\ ring'.nonces[i] = IF i = ring.idx THEN d.nonce ELSE ring.nonces[i]
  BY RememberEffect DEF Accept
<1>4. \A i \in Slots : Written(i)' = IF i = ring.idx THEN len + 1 ELSE Written(i)
  BY <1>1, <1>2, <1>3 DEF Written, Slots
<1>5. ASSUME NEW i \in Slots, ring.used[i]
      PROVE  Written(i) \in 1 .. len
  <2>1. CASE i < ring.idx /\ ring.idx <= len
    BY <1>1, <2>1 DEF Written, Slots
  <2>2. CASE ~(i < ring.idx) /\ len - bootAt >= RingSize
    BY <1>1, <2>2 DEF Written, Slots
  <2>3. ring.idx <= len /\ (i < ring.idx \/ len - bootAt >= RingSize)
    BY <1>1, <1>5 DEF RingInv, RingFirstRound, RingFull
  <2>. QED
    BY <2>1, <2>2, <2>3
<1>6. ASSUME NEW i \in Slots, ring'.used[i]
      PROVE  ring'.nonces[i] = accepted'[Written(i)']
  <2>1. CASE i = ring.idx
    BY <1>2, <1>3, <1>4, <2>1
  <2>2. CASE i # ring.idx
    <3>1. ring.used[i]
      BY <1>3, <1>6, <2>2
    <3>2. ring.nonces[i] = accepted[Written(i)]
      BY <3>1 DEF RingInv, RingHolds
    <3>3. accepted'[Written(i)] = accepted[Written(i)]
      BY <1>2, <1>5, <3>1
    <3>. QED
      BY <1>3, <1>4, <2>2, <3>2, <3>3
  <2>. QED
    BY <2>1, <2>2
<1>7. CASE len + 1 - bootAt < RingSize
  <2>1. ring.idx = len - bootAt /\ \A i \in Slots : ring.used[i] <=> i < ring.idx
    BY <1>1, <1>7 DEF RingInv, RingFirstRound, RingFull
  <2>2. ring'.idx = len + 1 - bootAt
    BY <1>1, <1>3, <1>7, <2>1
  <2>3. \A i \in Slots : ring'.used[i] <=> i < ring'.idx
    BY <1>1, <1>3, <2>1, <2>2 DEF Slots
  <2>4. RingFirstRound'
    BY <1>1, <1>2, <1>7, <2>2, <2>3 DEF RingFirstRound
  <2>. QED
    BY <1>6, <2>4 DEF RingInv, RingHolds
<1>8. CASE len + 1 - bootAt >= RingSize
  <2>1. \A i \in Slots : ring.used[i] \/ i = ring.idx
    BY <1>1, <1>8 DEF RingInv, RingFirstRound, RingFull, Slots
  <2>2. \A i \in Slots : ring'.used[i]
    BY <1>3, <2>1
  <2>3. RingFull'
    BY <1>1, <1>2, <1>8, <2>2 DEF RingFull
  <2>. QED
    BY <1>6, <2>3 DEF RingInv, RingHolds
<1>. QED
  BY <1>1, <1>7, <1>8

LEMMA RingStep ==
  ASSUME BankTypeOK, NamesInv, RingInv, [BankNext]_bankVars
  PROVE  RingInv'
<1>1. ASSUME NEW d \in net, Serve(d)
      PROVE  RingInv'
  BY <1>1, ServeEffect, AcceptKeepsRing DEF NamesInv
<1>2. CASE Restart
  <2>1. Len(accepted') \in Nat /\ bootAt' = Len(accepted')
    BY <1>2 DEF Restart, BankTypeOK
  <2>2. PICK garbage \in [Slots -> Garbage] : ring' = EmptyRing(garbage)
    BY <1>2 DEF Restart
  <2>3. ring'.idx = 0 /\ \A i \in Slots : ~ring'.used[i]
    BY <2>2 DEF EmptyRing
  <2>. QED
    BY <2>1, <2>3, RingSizeAssumption DEF RingInv, RingHolds, RingFirstRound, Slots
<1>3. CASE UNCHANGED <<ring, accepted, bootAt>>
  BY <1>3 DEF RingInv, RingHolds, RingFirstRound, RingFull, Written
<1>. QED
  BY <1>1, <1>2, <1>3
  DEF BankNext, BankStep, CreateCard, AddAccount, Deposit, ClientRequest, bankVars, bankState

\* The invariant of the ring says what the filter remembers.
LEMMA RingIsFilter ==
  ASSUME BankTypeOK, RingInv, NEW n
  PROVE  NonceSeen(ring, n) <=>
           \E k \in bootAt + 1 .. Len(accepted) :
             k > Len(accepted) - RingSize /\ accepted[k] = n
<1>. DEFINE len == Len(accepted)
<1>1. /\ len \in Nat /\ bootAt \in 0 .. len /\ RingSize \in Nat \ {0}
      /\ ring.idx \in 0 .. RingSize - 1
  BY RingSizeAssumption DEF BankTypeOK, Slots
<1>2. ASSUME NEW i \in Slots, ring.used[i]
      PROVE  Written(i) \in bootAt + 1 .. len /\ Written(i) > len - RingSize
  <2>1. CASE i < ring.idx /\ (ring.idx = len - bootAt \/ len - bootAt >= RingSize)
    BY <1>1, <2>1 DEF Written, Slots
  <2>2. CASE ~(i < ring.idx) /\ len - bootAt >= RingSize
    BY <1>1, <2>2 DEF Written, Slots
  <2>3. \/ i < ring.idx /\ ring.idx = len - bootAt
        \/ len - bootAt >= RingSize
    BY <1>2 DEF RingInv, RingFirstRound, RingFull
  <2>. QED
    BY <2>1, <2>2, <2>3
<1>3. ASSUME NEW k \in bootAt + 1 .. len, k > len - RingSize
      PROVE  \E i \in Slots : ring.used[i] /\ Written(i) = k
  <2>. DEFINE below == k - len + ring.idx - 1
              above == below + RingSize
  <2>1. CASE below >= 0
    <3>1. below \in Slots /\ below < ring.idx /\ Written(below) = k
      BY <1>1, <1>3, <2>1 DEF Written, Slots
    <3>2. ring.used[below]
      BY <3>1 DEF RingInv, RingFirstRound, RingFull
    <3>. QED
      BY <3>1, <3>2
  <2>2. CASE below < 0
    <3>1. above \in Slots /\ above >= ring.idx /\ Written(above) = k
      BY <1>1, <1>3, <2>2 DEF Written, Slots
    <3>2. ring.idx # len - bootAt
      BY <1>1, <1>3, <2>2
    <3>3. ring.used[above]
      BY <3>1, <3>2 DEF RingInv, RingFirstRound, RingFull
    <3>. QED
      BY <3>1, <3>3
  <2>. QED
    BY <1>1, <1>3, <2>1, <2>2
<1>4. ASSUME NonceSeen(ring, n)
      PROVE  \E k \in bootAt + 1 .. len : k > len - RingSize /\ accepted[k] = n
  <2>1. PICK i \in Slots : ring.used[i] /\ ring.nonces[i] = n
    BY <1>4 DEF NonceSeen
  <2>2. accepted[Written(i)] = n
    BY <2>1 DEF RingInv, RingHolds
  <2>. QED
    BY <1>2, <2>1, <2>2
<1>5. ASSUME NEW k \in bootAt + 1 .. len, k > len - RingSize, accepted[k] = n
      PROVE  NonceSeen(ring, n)
  <2>1. PICK i \in Slots : ring.used[i] /\ Written(i) = k
    BY <1>3, <1>5
  <2>2. ring.nonces[i] = n
    BY <1>5, <2>1 DEF RingInv, RingHolds
  <2>. QED
    BY <2>1, <2>2 DEF NonceSeen
<1>. QED
  BY <1>4, <1>5

LEMMA DebitsStep ==
  ASSUME BankTypeOK, NamesInv, RequestsInv, RingInv, DebitsInv, [BankNext]_bankVars
  PROVE  DebitsInv'
<1>0. /\ OneAccountPerName
      /\ debits \in Seq(DebitRecord) /\ Len(accepted) \in Nat /\ bootAt \in 0 .. Len(accepted)
  BY DEF NamesInv, BankTypeOK
<1>1. ASSUME NEW u \in Name, NEW p \in Pin, NEW s \in Secret, NEW b \in Amount,
             CreateCard(u, p, s, b)
      PROVE  DebitsInv'
  <2>1. \A k \in DOMAIN debits : debits[k].user # u
    BY <1>1 DEF CreateCard, DebitsInv
  <2>2. \A v : v # u => cards'[v] = cards[v]
    BY <1>1 DEF CreateCard, BankTypeOK
  <2>3. \A i \in DOMAIN creating' : creating'[i].name = u
    BY <1>1 DEF CreateCard
  <2>. QED
    BY <1>1, <2>1, <2>2, <2>3 DEF CreateCard, DebitsInv, Known, wireVars
<1>2. CASE AddAccount
  <2>1. 1 \in DOMAIN creating
    BY <1>2, EmptySeq DEF AddAccount, Idle, BankTypeOK
  <2>2. \A v : Known(v)' => Known(v) \/ v = creating[1].name
    BY <1>2 DEF AddAccount, Known, BankTypeOK
  <2>3. DOMAIN creating' = {}
    BY <1>2 DEF AddAccount
  <2>. QED
    BY <1>2, <2>1, <2>2, <2>3 DEF AddAccount, DebitsInv, wireVars
<1>3. ASSUME NEW u \in Name, NEW a \in Amount, Deposit(u, a)
      PROVE  DebitsInv'
  <2>1. PICK i \in 1 .. Len(users), b \in Amount : users' = [users EXCEPT ![i].balance = b]
    BY <1>0, <1>3, DepositEffect
  <2>2. \A v : Known(v)' <=> Known(v)
    BY <1>3, <2>1, BalanceKeepsNames DEF Deposit
  <2>. QED
    BY <1>3, <2>2 DEF Deposit, DebitsInv, wireVars
<1>4. ASSUME NEW d \in net, Serve(d)
      PROVE  DebitsInv'
  <2>1. /\ Accept(d) /\ d.tag = "R"
        /\ UNCHANGED <<cards, creating, opened, bootAt>>
    BY <1>0, <1>4, ServeEffect DEF Accept
  <2>2. net \subseteq net'
    BY <1>0, <1>4, <2>1, ServeEffect, AnswerKeepsWire DEF BankTypeOK
  <2>3. /\ Len(accepted') = Len(accepted) + 1
        /\ \A k \in 1 .. Len(accepted) : accepted'[k] = accepted[k]
        /\ accepted'[Len(accepted) + 1] = d.nonce
    BY <2>1, AcceptEffect
  <2>4. CASE UNCHANGED <<users, debits>>
    BY <1>0, <2>1, <2>2, <2>3, <2>4 DEF DebitsInv, Known
  <2>5. CASE Debit(d)
    <3>1. PICK b \in Amount, record \in DebitRecord :
            /\ FindUser(d.body.user) \in 1 .. Len(users)
            /\ users' = [users EXCEPT ![FindUser(d.body.user)].balance = b]
            /\ debits' = Append(debits, record)
            /\ record.nonce = d.nonce /\ record.user = d.body.user
            /\ record.at = Len(accepted) + 1
      BY <1>0, <2>5, DebitEffect
    <3>2. \A v : Known(v)' <=> Known(v)
      BY <2>1, <3>1, BalanceKeepsNames
    <3>3. cards[d.body.user] # NoCard
      <4>1. PICK i \in DOMAIN users : users[i].name = d.body.user
        BY <1>0, <2>5, DebitEffect DEF Known
      <4>2. IdentityOf(users[i]) \in opened /\ IdentityOf(users[i]).name = d.body.user
        BY <1>0, <4>1 DEF OneAccountPerName, IdentityOf
      <4>3. \A a \in opened : a.secret \in Secret
        BY DEF BankTypeOK, Identity
      <4>. QED
        BY <4>2, <4>3, BankAssumption DEF NamesInv, CardIsOwn
    <3>4. /\ DOMAIN debits' = DOMAIN debits \cup {Len(debits) + 1}
          /\ \A k \in DOMAIN debits : debits'[k] = debits[k]
          /\ debits'[Len(debits) + 1] = record
      BY <1>0, <3>1
    <3>5. ASSUME NEW k \in DOMAIN debits
          PROVE  /\ debits'[k].at \in 1 .. Len(accepted')
                 /\ accepted'[debits'[k].at] = debits'[k].nonce
                 /\ \E e \in net' : /\ e.tag = "R" /\ e.nonce = debits'[k].nonce
                                    /\ e.body.user = debits'[k].user
                 /\ cards'[debits'[k].user] # NoCard
                 /\ debits'[k].at <= bootAt' =>
                      /\ ~\E i \in DOMAIN users' : users'[i].name = debits'[k].user
                      /\ \A i \in DOMAIN creating' : creating'[i].name # debits'[k].user
      <4>1. debits'[k] = debits[k] /\ cards' = cards /\ bootAt' = bootAt /\ creating' = creating
        BY <2>1, <3>4
      <4>2. /\ debits[k].at \in 1 .. Len(accepted)
            /\ accepted[debits[k].at] = debits[k].nonce
            /\ \E e \in net : /\ e.tag = "R" /\ e.nonce = debits[k].nonce
                              /\ e.body.user = debits[k].user
            /\ cards[debits[k].user] # NoCard
            /\ debits[k].at <= bootAt =>
                 /\ ~Known(debits[k].user)
                 /\ \A i \in DOMAIN creating : creating[i].name # debits[k].user
        BY DEF DebitsInv
      <4>3. ~Known(debits[k].user) =>
              ~\E i \in DOMAIN users' : users'[i].name = debits[k].user
        BY <3>2 DEF Known
      <4>. QED
        BY <1>0, <2>2, <2>3, <4>1, <4>2, <4>3
    <3>6. /\ record.at \in 1 .. Len(accepted')
          /\ accepted'[record.at] = record.nonce
          /\ ~(record.at <= bootAt')
      BY <1>0, <2>1, <2>3, <3>1
    <3>. QED
      BY <2>1, <2>2, <3>1, <3>3, <3>4, <3>5, <3>6 DEF DebitsInv, Known
  <2>. QED
    BY <1>0, <1>4, <2>4, <2>5, ServeEffect
<1>5. CASE Restart
  <2>1. DOMAIN users' = {} /\ DOMAIN creating' = {}
    BY <1>5 DEF Restart
  <2>. QED
    BY <1>5, <2>1 DEF Restart, DebitsInv, Known, wireVars
<1>6. CASE ClientRequest
  <2>1. net \subseteq net' /\ UNCHANGED bankState
    BY <1>6, ClientEffect
  <2>. QED
    BY <2>1 DEF DebitsInv, Known, bankState
<1>7. CASE UNCHANGED bankVars
  BY <1>7 DEF bankVars, bankState, wireVars, DebitsInv, Known
<1>. QED
  BY <1>1, <1>2, <1>3, <1>4, <1>5, <1>6, <1>7 DEF BankNext, BankStep

\* A debit never comes too early: what was debited under the nonce since the
\* process started is out of the ring, and what was debited before it started
\* was debited from an account that is gone.
LEMMA WindowStep ==
  ASSUME BankTypeOK, NamesInv, RequestsInv, RingInv, DebitsInv, DebitWindow,
         [BankNext]_bankVars
  PROVE  DebitWindow'
<1>0. /\ OneAccountPerName
      /\ debits \in Seq(DebitRecord) /\ Len(accepted) \in Nat /\ bootAt \in 0 .. Len(accepted)
  BY DEF NamesInv, BankTypeOK
<1>1. ASSUME NEW d \in net, Serve(d), Debit(d)
      PROVE  DebitWindow'
  <2>1. PICK record \in DebitRecord :
          /\ debits' = Append(debits, record)
          /\ record.nonce = d.nonce /\ record.user = d.body.user
          /\ record.at = Len(accepted) + 1
    BY <1>0, <1>1, DebitEffect
  <2>2. /\ DOMAIN debits = 1 .. Len(debits)
        /\ DOMAIN debits' = 1 .. Len(debits) + 1
        /\ \A k \in DOMAIN debits : debits'[k] = debits[k]
        /\ debits'[Len(debits) + 1] = record
    BY <1>0, <2>1
  <2>3. d.tag = "R" /\ ~NonceSeen(ring, d.nonce) /\ Known(d.body.user)
    BY <1>0, <1>1, DebitEffect DEF Debit, Accept
  <2>4. ASSUME NEW j \in DOMAIN debits, debits[j].nonce = d.nonce
        PROVE  Len(accepted) + 1 - debits[j].at > RingSize
    <3>1. PICK e \in net : /\ e.tag = "R" /\ e.nonce = debits[j].nonce
                           /\ e.body.user = debits[j].user
      BY DEF DebitsInv
    <3>2. e = d
      BY <2>3, <2>4, <3>1 DEF RequestsInv
    <3>3. debits[j].at \in 1 .. Len(accepted) /\ ~(debits[j].at <= bootAt)
      BY <2>3, <3>1, <3>2 DEF DebitsInv
    <3>4. debits[j].at \in bootAt + 1 .. Len(accepted)
      BY <1>0, <3>3
    <3>5. accepted[debits[j].at] = d.nonce
      BY <2>4 DEF DebitsInv
    <3>6. ~(debits[j].at > Len(accepted) - RingSize)
      BY <2>3, <3>4, <3>5, RingIsFilter
    <3>. QED
      BY <1>0, <3>4, <3>6, RingSizeAssumption
  <2>5. ASSUME NEW j \in DOMAIN debits', NEW k \in DOMAIN debits',
               j < k, debits'[j].nonce = debits'[k].nonce
        PROVE  debits'[k].at - debits'[j].at > RingSize
    <3>1. CASE k \in DOMAIN debits
      <4>1. j \in DOMAIN debits
        BY <1>0, <2>2, <2>5, <3>1
      <4>2. debits'[j] = debits[j] /\ debits'[k] = debits[k]
        BY <2>2, <3>1, <4>1
      <4>3. debits[k].at - debits[j].at > RingSize
        BY <2>5, <3>1, <4>1, <4>2 DEF DebitWindow
      <4>. QED
        BY <4>2, <4>3
    <3>2. CASE k = Len(debits) + 1
      <4>1. j \in DOMAIN debits
        BY <1>0, <2>2, <2>5, <3>2
      <4>2. debits'[j] = debits[j] /\ debits'[k] = record
        BY <2>2, <3>2, <4>1
      <4>3. Len(accepted) + 1 - debits[j].at > RingSize
        BY <2>1, <2>4, <2>5, <4>1, <4>2
      <4>4. debits'[k].at = Len(accepted) + 1 /\ debits'[j].at = debits[j].at
        BY <2>1, <4>2
      <4>5. debits[j].at \in Nat /\ Len(accepted) \in Nat /\ RingSize \in Nat
        BY <1>0, <4>1, RingSizeAssumption DEF DebitsInv
      <4>. QED
        BY <4>3, <4>4, <4>5
    <3>. QED
      BY <1>0, <2>2, <3>1, <3>2
  <2>. QED
    BY <2>5 DEF DebitWindow
<1>2. CASE UNCHANGED debits
  BY <1>2 DEF DebitWindow
<1>3. ASSUME NEW d \in net, Serve(d)
      PROVE  DebitWindow'
  BY <1>0, <1>1, <1>2, <1>3, ServeEffect
<1>. QED
  BY <1>2, <1>3
  DEF BankNext, BankStep, CreateCard, AddAccount, Deposit, Restart, ClientRequest,
      bankVars, bankState

BankInv ==
  /\ BankTypeOK /\ NamesInv /\ RequestsInv /\ RingInv /\ DebitsInv /\ DebitWindow

LEMMA InvInit == BankInit => BankInv
<1>. SUFFICES ASSUME BankInit PROVE BankInv
  OBVIOUS
<1>1. BankTypeOK
  BY TypeInit
<1>2. /\ users = <<>> /\ creating = <<>> /\ opened = {} /\ net = {}
      /\ accepted = <<>> /\ bootAt = 0 /\ debits = <<>>
  BY DEF BankInit, WireInit
<1>3. DOMAIN users = {} /\ DOMAIN creating = {} /\ DOMAIN debits = {} /\ Len(accepted) = 0
  BY <1>2
<1>4. NamesInv
  BY <1>2, <1>3 DEF NamesInv, OneAccountPerName, CardIsOwn
<1>5. RequestsInv /\ DebitsInv /\ DebitWindow
  BY <1>2, <1>3 DEF RequestsInv, DebitsInv, DebitWindow
<1>6. RingInv
  <2>1. ring.idx = 0 /\ \A i \in Slots : ~ring.used[i]
    BY DEF BankInit, EmptyRing
  <2>. QED
    BY <1>2, <1>3, <2>1, RingSizeAssumption DEF RingInv, RingHolds, RingFirstRound, Slots
<1>. QED
  BY <1>1, <1>4, <1>5, <1>6 DEF BankInv

LEMMA InvStep == BankInv /\ [BankNext]_bankVars => BankInv'
BY TypeStep, NamesStep, RequestsStep, RingStep, DebitsStep, WindowStep DEF BankInv

\* The parts of the invariant hold in every state the bank reaches.
LEMMA InvHolds == BankSpec => []BankInv
BY InvInit, InvStep, PTL DEF BankSpec

-----------------------------------------------------------------------------
(* What an "OK" is worth.                                                  *)

\* An OK to a login was given on the pin and card secret of an account, and an OK
\* to a withdrawal on a debit of that account by that amount.
AnswersBacked ==
  \A d, e \in net :
    d.tag = "A" /\ e.tag = "R" /\ d.nonce = e.nonce /\ d.body = Ok =>
      /\ e.body.op = "auth" =>
           [name |-> e.body.user, pin |-> e.body.pin, secret |-> e.body.secret] \in opened
      /\ e.body.op = "withdraw" =>
           \E k \in DOMAIN debits : /\ debits[k].nonce = e.nonce
                                    /\ debits[k].user = e.body.user
                                    /\ debits[k].amount = e.body.amount

\* It is about the network, the accounts ever opened and the debits alone.
LEMMA BackedKept ==
  ASSUME AnswersBacked, net' = net, opened \subseteq opened',
         debits' = debits
  PROVE  AnswersBacked'
BY DEF AnswersBacked

\* A request is sent under a nonce no answer carries yet.
LEMMA BackedAfterRequest ==
  ASSUME BankTypeOK, RequestsInv, AnswersBacked, ClientRequest
  PROVE  AnswersBacked'
<1>1. /\ issued \in Nat
      /\ opened' = opened /\ debits' = debits
  BY ClientEffect DEF BankTypeOK, WireTypeOK, bankState
<1>2. PICK request \in Request : net' = net \cup {RequestDatagram(issued + 1, request)}
  BY ClientEffect
<1>3. /\ RequestDatagram(issued + 1, request).tag = "R"
      /\ RequestDatagram(issued + 1, request).nonce = issued + 1
  BY DEF RequestDatagram
<1>4. \A d \in net : d.nonce # issued + 1
  BY <1>1 DEF RequestsInv, BankTypeOK, WireTypeOK
<1>5. ASSUME NEW d \in net', NEW e \in net', d.tag = "A", e.tag = "R", d.nonce = e.nonce
      PROVE  d \in net /\ e \in net
  BY <1>2, <1>3, <1>4, <1>5
<1>. QED
  BY <1>1, <1>5 DEF AnswersBacked

\* A request served is answered by the one reply Serve writes; the other answers
\* keep what backs them.
LEMMA BackedAfterServe ==
  ASSUME BankTypeOK, NamesInv, RequestsInv, AnswersBacked, NEW d \in net, Serve(d)
  PROVE  AnswersBacked'
<1>0. OneAccountPerName /\ WireTypeOK /\ d.tag = "R" /\ opened' = opened
  BY ServeEffect DEF NamesInv, Accept, BankTypeOK
<1>1. /\ DOMAIN debits \subseteq DOMAIN debits'
      /\ \A k \in DOMAIN debits : debits'[k] = debits[k]
  <2>1. CASE Debit(d)
    <3>1. PICK record \in DebitRecord : debits' = Append(debits, record)
      BY <1>0, <2>1, DebitEffect
    <3>. QED
      BY <3>1 DEF BankTypeOK
  <2>. QED
    BY <1>0, <2>1, ServeEffect
<1>. DEFINE Backed == /\ d.body.op = "auth" =>
                           [name |-> d.body.user, pin |-> d.body.pin,
                            secret |-> d.body.secret] \in opened
                      /\ d.body.op = "withdraw" =>
                           \E k \in DOMAIN debits' : /\ debits'[k].nonce = d.nonce
                                                     /\ debits'[k].user = d.body.user
                                                     /\ debits'[k].amount = d.body.amount
<1>2. ASSUME NEW reply, Answer(d, reply), reply = Ok => Backed
      PROVE  AnswersBacked'
  <2>1. net' = net \cup {AnswerDatagram(d.nonce, reply)}
    BY <1>2 DEF Answer, Send
  <2>2. /\ AnswerDatagram(d.nonce, reply).tag = "A"
        /\ AnswerDatagram(d.nonce, reply).nonce = d.nonce
        /\ AnswerDatagram(d.nonce, reply).body = reply
    BY DEF AnswerDatagram
  <2>3. ASSUME NEW a \in net', NEW e \in net',
               a.tag = "A", e.tag = "R", a.nonce = e.nonce, a.body = Ok
        PROVE  /\ e.body.op = "auth" =>
                    [name |-> e.body.user, pin |-> e.body.pin,
                     secret |-> e.body.secret] \in opened
               /\ e.body.op = "withdraw" =>
                    \E k \in DOMAIN debits' : /\ debits'[k].nonce = e.nonce
                                              /\ debits'[k].user = e.body.user
                                              /\ debits'[k].amount = e.body.amount
    <3>1. e \in net
      BY <2>1, <2>2, <2>3
    <3>2. CASE a \in net
      BY <1>1, <2>3, <3>1, <3>2 DEF AnswersBacked
    <3>3. CASE a = AnswerDatagram(d.nonce, reply)
      <4>1. e = d /\ reply = Ok
        BY <1>0, <2>2, <2>3, <3>1, <3>3 DEF RequestsInv
      <4>. QED
        BY <1>2, <4>1
    <3>. QED
      BY <2>1, <3>2, <3>3
  <2>. QED
    BY <1>0, <2>3 DEF AnswersBacked
<1>3. CASE ServeExists(d)
  BY <1>2, <1>3 DEF ServeExists
<1>4. CASE ServeAuth(d)
  <2>1. ASSUME Authentic(d.body)
        PROVE  [name |-> d.body.user, pin |-> d.body.pin, secret |-> d.body.secret] \in opened
    <3>1. /\ FindUser(d.body.user) \in DOMAIN users
          /\ users[FindUser(d.body.user)].name = d.body.user
      BY <1>0, <2>1, FindUserFinds DEF Authentic, BankTypeOK
    <3>. QED
      BY <1>0, <2>1, <3>1 DEF Authentic, OneAccountPerName, IdentityOf
  <2>2. d.body.op = "auth" /\ No # Ok
    BY <1>4 DEF ServeAuth, No, Ok
  <2>. QED
    BY <1>2, <1>4, <2>1, <2>2 DEF ServeAuth
<1>5. CASE ServeBalance(d)
  BY <1>2, <1>5 DEF ServeBalance
<1>6. CASE Debit(d)
  <2>1. PICK record \in DebitRecord :
          /\ debits' = Append(debits, record)
          /\ record.nonce = d.nonce /\ record.user = d.body.user
          /\ record.amount = d.body.amount
    BY <1>0, <1>6, DebitEffect
  <2>2. Len(debits) + 1 \in DOMAIN debits' /\ debits'[Len(debits) + 1] = record
    BY <2>1 DEF BankTypeOK
  <2>3. Backed
    BY <1>6, <2>1, <2>2 DEF Debit
  <2>. QED
    BY <1>2, <1>6, <2>3 DEF Debit
<1>7. CASE RefuseDebit(d)
  <2>1. Nsf # Ok /\ No # Ok
    BY DEF Nsf, No, Ok
  <2>. QED
    BY <1>2, <1>7, <2>1 DEF RefuseDebit
<1>. QED
  BY <1>3, <1>4, <1>5, <1>6, <1>7 DEF Serve

LEMMA BackedStep == BankInv /\ AnswersBacked /\ [BankNext]_bankVars => AnswersBacked'
<1>. SUFFICES ASSUME BankInv, AnswersBacked, [BankNext]_bankVars
              PROVE  AnswersBacked'
  OBVIOUS
<1>1. CASE ClientRequest
  BY <1>1, BackedAfterRequest DEF BankInv
<1>2. ASSUME NEW d \in net, Serve(d)
      PROVE  AnswersBacked'
  BY <1>2, BackedAfterServe DEF BankInv
<1>3. CASE UNCHANGED <<net, debits>> /\ opened \subseteq opened'
  BY <1>3, BackedKept
<1>. QED
  BY <1>1, <1>2, <1>3
  DEF BankNext, BankStep, CreateCard, AddAccount, Deposit, Restart, bankVars, bankState,
      wireVars

-----------------------------------------------------------------------------
(* The theorems.                                                           *)

\* Every variable of the bank keeps its type; in particular no sequence of
\* deposits and withdrawals takes a balance out of 0 .. INT_MAX.
THEOREM BankIsTyped == BankSpec => []BankTypeOK
<1>1. BankInv => BankTypeOK
  BY DEF BankInv
<1>. QED
  BY <1>1, InvHolds, PTL

\* A name belongs to one account for ever, and a card to the account it was
\* written for (create-user, across restarts of the bank).
THEOREM NamesAreUnique == BankSpec => [](OneAccountPerName /\ CardIsOwn)
<1>1. BankInv => OneAccountPerName /\ CardIsOwn
  BY DEF BankInv, NamesInv
<1>. QED
  BY <1>1, InvHolds, PTL

\* The card of an account carries its secret or nothing, in whatever run it was opened.
THEOREM CardsAreOwn == BankSpec => []CardIsOwn
BY NamesAreUnique, PTL

\* nonce_seen says yes exactly for the nonces of the last RingSize requests
\* accepted by this process.
THEOREM FilterIsExact == BankSpec => []FilterExact
<1>1. BankInv => FilterExact
  BY RingIsFilter DEF BankInv, FilterExact
<1>. QED
  BY <1>1, InvHolds, PTL

\* A withdrawal delivered again debits again only after RingSize other requests
\* were accepted since, restarts of the bank included.
THEOREM NoEarlySecondDebit == BankSpec => []DebitWindow
<1>1. BankInv => DebitWindow
  BY DEF BankInv
<1>. QED
  BY <1>1, InvHolds, PTL

\* The bank says OK to a login only on both factors of an account it opened, and to a
\* withdrawal only after the debit asked for: an answer in the network stays true of
\* the history however often the bank is restarted.
THEOREM AnswersAreBacked == BankSpec => []AnswersBacked
<1>1. BankInit => AnswersBacked
  BY DEF BankInit, WireInit, AnswersBacked
<1>. QED
  BY <1>1, InvHolds, BackedStep, PTL DEF BankSpec

=============================================================================
