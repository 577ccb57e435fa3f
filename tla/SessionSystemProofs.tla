------------------------- MODULE SessionSystemProofs -------------------------
(***************************************************************************)
(* Theorems about the archived submission, for every number of users,      *)
(* logins and requests.  First who is logged in, and on what card; then    *)
(* the counters and session keys: both sides stay in step, a balance shown *)
(* is current, cash paid is cash asked for, and the whole keeps the        *)
(* promise of Teller.                                                      *)
(***************************************************************************)
EXTENDS SessionSystem, TLAPS

-----------------------------------------------------------------------------
(* The inductive invariant.                                                *)

Key == [user : Name, pin : Pin, secret : Secret, client : Nat, server : Nat]

Account ==
  [pin : Pin, secret : Secret, balance : Amount, active : BOOLEAN,
   key : Key \cup {NoKey}, lastCounter : Nat]

\* The account table is a partial function on names, the card files a total one.
AccountsType ==
  /\ DOMAIN accounts \subseteq Name
  /\ accounts \in [DOMAIN accounts -> Account]
  /\ cards \in [Name -> Secret \cup {NoCard, BlankCard}]
  /\ serverNonces \in Nat /\ clientNonces \in Nat

\* Counters and nonces in the network are numbers.
NetType ==
  \A d \in net :
    /\ d.kind \in {"BALANCE", "WITHDRAW", "END"} => d.counter \in Nat
    /\ d.kind \in {"EXISTS", "AUTH"} => d.nonce \in Nat
    /\ d.kind = "WITHDRAW" => d.amount \in Nat

\* Every account in memory was opened; nothing else proves an identity.
AccountsOpened ==
  \A u \in DOMAIN accounts :
    [name |-> u, pin |-> accounts[u].pin, secret |-> accounts[u].secret] \in opened

\* The bank granted logins only to identities that were opened.
GrantsOpened ==
  \A d \in net : d.kind = "AUTH_OK" =>
    [name |-> d.key.user, pin |-> d.key.pin, secret |-> d.key.secret] \in opened

Inv ==
  /\ AccountsType /\ NetType
  /\ AccountsOpened /\ GrantsOpened
  /\ OneSession /\ CardOpensAccount

-----------------------------------------------------------------------------
(* What the actions of the bank do to the table of accounts.               *)

\* Changing the fields of one account leaves its identity and the others alone.
LEMMA UpdateOne ==
  ASSUME AccountsType, NEW u \in DOMAIN accounts, NEW a \in Account,
         a.pin = accounts[u].pin, a.secret = accounts[u].secret,
         accounts' = [accounts EXCEPT ![u] = a],
         UNCHANGED <<cards, opened>>
  PROVE  /\ DOMAIN accounts' = DOMAIN accounts
         /\ accounts' \in [DOMAIN accounts' -> Account]
         /\ AccountsOpened => AccountsOpened'
         /\ CardOpensAccount => CardOpensAccount'
         /\ OneSession /\ (a.active => accounts[u].active) => OneSession'
<1>1. /\ DOMAIN accounts' = DOMAIN accounts
      /\ accounts' \in [DOMAIN accounts' -> Account]
      /\ accounts'[u] = a
      /\ \A v \in DOMAIN accounts : v # u => accounts'[v] = accounts[v]
  BY DEF AccountsType
<1>2. AccountsOpened => AccountsOpened'
  BY <1>1 DEF AccountsOpened
<1>3. CardOpensAccount => CardOpensAccount'
  BY <1>1 DEF CardOpensAccount
<1>4. OneSession /\ (a.active => accounts[u].active) => OneSession'
  BY <1>1 DEF OneSession, ActiveUsers
<1>. QED
  BY <1>1, <1>2, <1>3, <1>4

\* The active user has an account.
LEMMA ActiveUserKnown ==
  ASSUME ActiveUsers # {}
  PROVE  ActiveUser \in DOMAIN accounts /\ accounts[ActiveUser].active
BY DEF ActiveUser, ActiveUsers

\* Nothing is open and nothing was sent at the start.
LEMMA InitInv == Init => Inv
<1>. SUFFICES ASSUME Init PROVE Inv
  OBVIOUS
<1>1. AccountsType /\ NetType
  BY DEF Init, BankInit, WireInit, AccountsType, NetType
<1>2. AccountsOpened /\ GrantsOpened /\ OneSession /\ CardOpensAccount
  BY DEF Init, BankInit, WireInit, AccountsOpened, GrantsOpened, OneSession,
         ActiveUsers, CardOpensAccount
<1>. QED
  BY <1>1, <1>2 DEF Inv

\* A request or reply of the session leaves what is known of the network alone.
LEMMA SendPlain ==
  ASSUME NetType, GrantsOpened, opened \subseteq opened', NEW d, Send(d),
         d.kind # "AUTH_OK",
         d.kind \in {"BALANCE", "WITHDRAW", "END"} => d.counter \in Nat,
         d.kind \in {"EXISTS", "AUTH"} => d.nonce \in Nat,
         d.kind = "WITHDRAW" => d.amount \in Nat
  PROVE  NetType' /\ GrantsOpened'
BY DEF NetType, GrantsOpened, Send

-----------------------------------------------------------------------------
(* The bank's steps.                                                       *)

\* create-user adds an account under a new name, with its card.
LEMMA CreateUserStep ==
  ASSUME Inv, NEW u \in Name, NEW p \in Pin, NEW s \in Secret, NEW b \in Amount,
         CreateUser(u, p, s, b)
  PROVE  Inv'
<1>. DEFINE a == NewAccount(p, s, b)
<1>1. a \in Account /\ a.pin = p /\ a.secret = s /\ ~a.active
  BY DEF NewAccount, Account
<1>2. /\ u \notin DOMAIN accounts
      /\ DOMAIN accounts' = DOMAIN accounts \cup {u}
      /\ accounts'[u] = a
      /\ \A v \in DOMAIN accounts : accounts'[v] = accounts[v]
  BY DEF CreateUser, With, Known
<1>3. /\ opened' = opened \cup {[name |-> u, pin |-> p, secret |-> s]}
      /\ cards' = [cards EXCEPT ![u] = s]
      /\ UNCHANGED wireVars
  BY DEF CreateUser
<1>. HIDE DEF a
<1>4. accounts' \in [DOMAIN accounts' -> Account]
  <2>1. accounts' = [v \in DOMAIN accounts' |-> accounts'[v]]
    BY DEF CreateUser, With
  <2>2. \A v \in DOMAIN accounts' : accounts'[v] \in Account
    BY <1>1, <1>2 DEF Inv, AccountsType
  <2>. QED
    BY <2>1, <2>2
<1>5. AccountsType' /\ NetType'
  BY <1>2, <1>3, <1>4 DEF Inv, AccountsType, NetType, wireVars
<1>6. AccountsOpened' /\ GrantsOpened'
  BY <1>1, <1>2, <1>3 DEF Inv, AccountsOpened, GrantsOpened, wireVars
<1>7. OneSession'
  BY <1>1, <1>2 DEF Inv, OneSession, ActiveUsers
<1>8. CardOpensAccount'
  BY <1>1, <1>2, <1>3 DEF Inv, CardOpensAccount, AccountsType
<1>. QED
  BY <1>5, <1>6, <1>7, <1>8 DEF Inv

\* When it fails, the card it spoils is that of a name without an account.
LEMMA CreateUserFailsStep ==
  ASSUME Inv, NEW u \in Name, CreateUserFails(u)
  PROVE  Inv'
<1>1. AccountsType' /\ NetType'
  BY DEF Inv, CreateUserFails, AccountsType, NetType, wireVars
<1>2. AccountsOpened' /\ GrantsOpened' /\ OneSession'
  BY DEF Inv, CreateUserFails, AccountsOpened, GrantsOpened, OneSession, ActiveUsers, wireVars
<1>3. CardOpensAccount'
  BY DEF Inv, CreateUserFails, CardOpensAccount, AccountsType, Known
<1>. QED
  BY <1>1, <1>2, <1>3 DEF Inv

\* A deposit is refused before the balance would pass INT_MAX.
LEMMA DepositStep ==
  ASSUME Inv, NEW u \in Name, NEW amount \in Amount, Deposit(u, amount)
  PROVE  Inv'
<1>. DEFINE a == [accounts[u] EXCEPT !.balance = @ + amount]
<1>1. u \in DOMAIN accounts /\ accounts[u] \in Account
  BY DEF Inv, AccountsType, Deposit, Known
<1>2. accounts[u].balance + amount \in Amount
  BY <1>1, SessionWireAssumption DEF Deposit, Account, Amount
<1>3. /\ a \in Account
      /\ a.pin = accounts[u].pin /\ a.secret = accounts[u].secret
      /\ a.active = accounts[u].active
  BY <1>1, <1>2 DEF Account
<1>4. accounts' = [accounts EXCEPT ![u] = a]
  BY DEF Deposit
<1>. HIDE DEF a
<1>5. UNCHANGED <<cards, opened, wireVars>>
  BY DEF Deposit
<1>. QED
  BY <1>1, <1>3, <1>4, <1>5, UpdateOne
  DEF Inv, AccountsType, NetType, GrantsOpened, wireVars

\* EXISTS changes nothing but the network.
LEMMA ServeExistsStep ==
  ASSUME Inv, NEW d \in net, ServeExists(d)
  PROVE  Inv'
<1>1. d.nonce \in Nat /\ UNCHANGED <<clientNonces, serverNonces, bankState>>
  BY DEF Inv, NetType, ServeExists
<1>2. \E r : Send(r) /\ r.kind \in {"EXISTS_OK", "EXISTS_NO"}
  BY DEF ServeExists, ExistsOk, ExistsNo
<1>3. NetType' /\ GrantsOpened'
  BY <1>1, <1>2, SendPlain DEF Inv, bankState
<1>. QED
  BY <1>1, <1>3 DEF Inv, bankState, AccountsType, AccountsOpened, OneSession, ActiveUsers,
                    CardOpensAccount

\* AUTH gives a session to one account and takes it from all others.
LEMMA ServeAuthStep ==
  ASSUME Inv, NEW d \in net, ServeAuth(d)
  PROVE  Inv'
<1>. DEFINE key == SessionKey(d.user, d.pin, d.secret, d.nonce, serverNonces + 1)
            granted == [accounts[d.user] EXCEPT !.active = TRUE, !.key = key, !.lastCounter = 0]
<1>1. /\ d.user \in DOMAIN accounts /\ d.user \in Name
      /\ accounts[d.user] \in Account
      /\ accounts[d.user].pin = d.pin /\ accounts[d.user].secret = d.secret
      /\ d.nonce \in Nat
  BY DEF Inv, AccountsType, NetType, ServeAuth, ProvesIdentity, Known
<1>2. key \in Key
  BY <1>1 DEF SessionKey, Key, Account, Inv, AccountsType
<1>3. /\ granted \in Account /\ granted.active
      /\ granted.pin = d.pin /\ granted.secret = d.secret
  BY <1>1, <1>2 DEF Account
<1>4. \A v \in DOMAIN accounts :
        /\ Cleared(accounts[v]) \in Account /\ ~Cleared(accounts[v]).active
        /\ Cleared(accounts[v]).pin = accounts[v].pin
        /\ Cleared(accounts[v]).secret = accounts[v].secret
  BY DEF Inv, AccountsType, Cleared, Account
<1>5. /\ accounts' = [v \in DOMAIN accounts |->
                        IF v = d.user THEN granted ELSE Cleared(accounts[v])]
      /\ Send(AuthOk(key)) /\ serverNonces' = serverNonces + 1
      /\ UNCHANGED <<clientNonces, cards, opened, debits>>
  BY DEF ServeAuth, Grant
<1>6. key.user = d.user /\ key.pin = d.pin /\ key.secret = d.secret
  BY DEF SessionKey
<1>. HIDE DEF key, granted
<1>7. AccountsType'
  BY <1>3, <1>4, <1>5 DEF Inv, AccountsType
<1>8. AccountsOpened' /\ CardOpensAccount'
  BY <1>1, <1>3, <1>4, <1>5 DEF Inv, AccountsOpened, CardOpensAccount
<1>9. OneSession'
  BY <1>3, <1>4, <1>5 DEF OneSession, ActiveUsers
<1>10. NetType'
  BY <1>5 DEF Inv, NetType, Send, AuthOk
<1>11. GrantsOpened'
  BY <1>1, <1>5, <1>6 DEF Inv, GrantsOpened, AccountsOpened, Send, AuthOk
<1>. QED
  BY <1>7, <1>8, <1>9, <1>10, <1>11 DEF Inv

\* The commands of a session change only the account of the active user, and
\* never its identity.
LEMMA ServeCommandStep ==
  ASSUME Inv, NEW d \in net,
         ServeBalance(d) \/ ServeWithdraw(d) \/ RefuseWithdraw(d) \/ ServeEnd(d)
  PROVE  Inv'
<1>. DEFINE old == accounts[ActiveUser]
<1>1. ActiveUser \in DOMAIN accounts /\ old \in Account /\ old.active
  BY ActiveUserKnown
  DEF ServeBalance, ServeWithdraw, RefuseWithdraw, ServeEnd, Acceptable, Inv, AccountsType
<1>2. d.counter \in Nat /\ (d.kind = "WITHDRAW" => d.amount \in Nat)
  BY DEF ServeBalance, ServeWithdraw, RefuseWithdraw, ServeEnd, Inv, NetType
<1>3. \E a \in Account :
        /\ a.pin = old.pin /\ a.secret = old.secret
        /\ accounts' = [accounts EXCEPT ![ActiveUser] = a]
  <2>1. CASE ServeBalance(d) \/ RefuseWithdraw(d)
    <3>. DEFINE a == [old EXCEPT !.lastCounter = d.counter]
    <3>1. a \in Account /\ a.pin = old.pin /\ a.secret = old.secret
      BY <1>1, <1>2 DEF Account
    <3>2. accounts' = [accounts EXCEPT ![ActiveUser] = a]
      BY <2>1 DEF ServeBalance, RefuseWithdraw
    <3>. QED
      BY <3>1, <3>2
  <2>2. CASE ServeWithdraw(d)
    <3>. DEFINE a == [old EXCEPT !.lastCounter = d.counter, !.balance = @ - d.amount]
    <3>1. old.balance - d.amount \in Amount
      BY <1>1, <1>2, <2>2, SessionWireAssumption DEF ServeWithdraw, Account, Amount
    <3>2. a \in Account /\ a.pin = old.pin /\ a.secret = old.secret
      BY <1>1, <1>2, <3>1 DEF Account
    <3>3. accounts' = [accounts EXCEPT ![ActiveUser] = a]
      BY <1>1, <2>2 DEF ServeWithdraw, AccountsType, Inv
    <3>. QED
      BY <3>2, <3>3
  <2>3. CASE ServeEnd(d)
    <3>. DEFINE a == [old EXCEPT !.lastCounter = d.counter, !.active = FALSE, !.key = NoKey]
    <3>1. a \in Account /\ a.pin = old.pin /\ a.secret = old.secret
      BY <1>1, <1>2 DEF Account
    <3>2. accounts' = [accounts EXCEPT ![ActiveUser] = a]
      BY <1>1, <2>3 DEF ServeEnd, AccountsType, Inv
    <3>. QED
      BY <3>1, <3>2
  <2>. QED
    BY <2>1, <2>2, <2>3
<1>4. UNCHANGED <<clientNonces, serverNonces, cards, opened>>
  BY DEF ServeBalance, ServeWithdraw, RefuseWithdraw, ServeEnd
<1>5. \E r : /\ Send(r)
             /\ r.kind \in {"BALANCE_IS", "DISPENSE", "INSUFFICIENT", "END_OK"}
  BY DEF ServeBalance, ServeWithdraw, RefuseWithdraw, ServeEnd,
         BalanceIs, Dispense, Insufficient, EndOk
<1>6. NetType' /\ GrantsOpened'
  BY <1>4, <1>5, SendPlain DEF Inv
<1>. HIDE DEF old
<1>7. /\ DOMAIN accounts' = DOMAIN accounts
      /\ accounts' \in [DOMAIN accounts' -> Account]
      /\ AccountsOpened' /\ CardOpensAccount' /\ OneSession'
  <2>1. PICK a \in Account : /\ a.pin = old.pin /\ a.secret = old.secret
                             /\ accounts' = [accounts EXCEPT ![ActiveUser] = a]
    BY <1>3
  <2>. QED
    BY <1>1, <1>4, <2>1, UpdateOne DEF Inv, old
<1>8. AccountsType'
  BY <1>4, <1>7 DEF Inv, AccountsType
<1>. QED
  BY <1>6, <1>7, <1>8 DEF Inv

\* A restart forgets the accounts; the cards stay.
LEMMA RestartStep ==
  ASSUME Inv, Restart
  PROVE  Inv'
<1>1. /\ accounts' = <<>> /\ DOMAIN accounts' = {}
      /\ cards' \in [Name -> Secret \cup {NoCard, BlankCard}]
      /\ UNCHANGED <<wireVars, opened>>
  BY DEF Restart, Inv, AccountsType
<1>2. AccountsType' /\ NetType' /\ GrantsOpened'
  BY <1>1 DEF Inv, AccountsType, NetType, GrantsOpened, wireVars
<1>3. AccountsOpened' /\ OneSession' /\ CardOpensAccount'
  BY <1>1 DEF AccountsOpened, OneSession, ActiveUsers, CardOpensAccount
<1>. QED
  BY <1>2, <1>3 DEF Inv

\* Together: every step of the bank keeps the invariant.
LEMMA BankStepInv ==
  ASSUME Inv, BankStep
  PROVE  Inv'
BY CreateUserStep, CreateUserFailsStep, DepositStep, ServeExistsStep, ServeAuthStep,
   ServeCommandStep, RestartStep
DEF BankStep

-----------------------------------------------------------------------------
(* The ATM's steps.  They leave the bank alone and send only requests.     *)

\* The ATM's session is a record with a counter ...
SessionShape ==
  /\ session = [user |-> session.user, secret |-> session.secret, key |-> session.key,
                nextCounter |-> session.nextCounter]
  /\ session.nextCounter \in Nat

\* ... behind which there is an identity that was opened.
SessionOpened ==
  loggedIn =>
    [name |-> session.user, pin |-> session.key.pin, secret |-> session.secret] \in opened

SessionInv == SessionShape /\ SessionOpened

\* Counting a request changes the counter and nothing else.
LEMMA CountedKeeps ==
  ASSUME SessionInv, Counted, UNCHANGED opened
  PROVE  SessionInv'
<1>1. session' = [user |-> session.user, secret |-> session.secret, key |-> session.key,
                  nextCounter |-> session.nextCounter + 1]
  BY DEF Counted, SessionInv, SessionShape
<1>2. /\ session'.user = session.user /\ session'.secret = session.secret
      /\ session'.key = session.key /\ session'.nextCounter = session.nextCounter + 1
  BY <1>1
<1>3. SessionShape'
  BY <1>1, <1>2 DEF SessionInv, SessionShape
<1>4. SessionOpened'
  BY <1>2 DEF SessionInv, SessionOpened, loggedIn
<1>. QED
  BY <1>3, <1>4 DEF SessionInv

\* A cleared session needs no identity, ...
LEMMA NoSessionHolds ==
  ASSUME session = NoSession
  PROVE  SessionInv
<1>1. /\ session.user = NoUser /\ session.secret = NoSecret
      /\ session.key = NoSessionKey /\ session.nextCounter = 1
  BY DEF NoSession
<1>. QED
  BY <1>1 DEF NoSession, SessionInv, SessionShape, SessionOpened, loggedIn

\* ... before a step and after it.
LEMMA NoSessionKeeps ==
  ASSUME session' = NoSession
  PROVE  SessionInv'
<1>1. /\ session'.user = NoUser /\ session'.secret = NoSecret
      /\ session'.key = NoSessionKey /\ session'.nextCounter = 1
  BY DEF NoSession
<1>. QED
  BY <1>1 DEF NoSession, SessionInv, SessionShape, SessionOpened, loggedIn

\* A request is sent under a fresh nonce or the session's counter.
LEMMA CommandStep ==
  ASSUME Inv, SessionInv, Command, UNCHANGED bankState
  PROVE  Inv' /\ SessionInv'
<1>1. session' = session /\ serverNonces' = serverNonces
  BY DEF Command, BeginSession, EnterPin, AbandonLogin, Balance, WithdrawCash, EndSession,
         SessionRequest, wireVars
<1>2. clientNonces' \in Nat
  <2>1. clientNonces \in Nat
    BY DEF Inv, AccountsType
  <2>2. clientNonces' = clientNonces \/ clientNonces' = clientNonces + 1
    BY DEF Command, BeginSession, EnterPin, AbandonLogin, Balance, WithdrawCash, EndSession,
           SessionRequest, wireVars
  <2>. QED
    BY <2>1, <2>2
<1>3. session.nextCounter \in Nat
  BY DEF SessionInv, SessionShape
<1>4. NetType' /\ GrantsOpened'
  <2>1. ASSUME NEW u \in Name, BeginSession(u)
        PROVE  NetType' /\ GrantsOpened'
    <3>1. Send(Exists(u, clientNonces'))
      BY <2>1 DEF BeginSession, Ask
    <3>. QED
      BY <1>2, <3>1, SendPlain DEF Exists, Inv, bankState
  <2>2. ASSUME NEW p \in Pin, NEW s \in Secret, EnterPin(p, s)
        PROVE  NetType' /\ GrantsOpened'
    <3>1. Send(Auth(pending.user, clientNonces', p, s))
      BY <2>2 DEF EnterPin, Ask
    <3>. QED
      BY <1>2, <3>1, SendPlain DEF Auth, Inv, bankState
  <2>3. CASE AbandonLogin
    BY <2>3 DEF AbandonLogin, wireVars, bankState, Inv, NetType, GrantsOpened
  <2>4. CASE Balance
    <3>1. Send(BalanceOf(session.nextCounter, session.key))
      BY <2>4 DEF Balance, SessionRequest, Ask
    <3>. QED
      BY <1>3, <3>1, SendPlain DEF BalanceOf, Inv, bankState
  <2>5. CASE EndSession
    <3>1. Send(End(session.nextCounter, session.key))
      BY <2>5 DEF EndSession, SessionRequest, Ask
    <3>. QED
      BY <1>3, <3>1, SendPlain DEF End, Inv, bankState
  <2>6. ASSUME NEW a \in Amount, WithdrawCash(a)
        PROVE  NetType' /\ GrantsOpened'
    <3>1. Send(Withdraw(a, session.nextCounter, session.key))
      BY <2>6 DEF WithdrawCash, SessionRequest, Ask
    <3>2. a \in Nat
      BY SessionWireAssumption DEF Amount
    <3>. QED
      BY <1>3, <3>1, <3>2, SendPlain DEF Withdraw, Inv, bankState
  <2>. QED
    BY <2>1, <2>2, <2>3, <2>4, <2>5, <2>6 DEF Command
<1>5. /\ AccountsType' /\ AccountsOpened' /\ OneSession' /\ CardOpensAccount'
  BY <1>1, <1>2 DEF Inv, bankState, AccountsType, AccountsOpened, OneSession, ActiveUsers,
                   CardOpensAccount
<1>6. SessionInv'
  BY <1>1 DEF SessionInv, SessionShape, SessionOpened, loggedIn, bankState
<1>. QED
  BY <1>4, <1>5, <1>6 DEF Inv

\* What the ATM does with a datagram, or without one: nothing is sent, and the
\* session is opened by AUTH_OK alone.
LEMMA AnswerStep ==
  ASSUME Inv, SessionInv, Read \/ LogOut \/ Fail \/ AtmRestart, UNCHANGED bankState
  PROVE  Inv' /\ SessionInv'
<1>1. UNCHANGED <<wireVars, bankState>>
  BY DEF Read, UserExists, NoSuchUser, LogIn, ShowBalance, DispenseCash, ShowInsufficient,
         LogOut, Fail, AtmRestart
<1>2. Inv'
  BY <1>1 DEF Inv, wireVars, bankState, AccountsType, NetType, AccountsOpened, GrantsOpened,
              OneSession, ActiveUsers, CardOpensAccount
<1>3. SessionInv'
  <2>1. CASE session' = NoSession
    BY <2>1, NoSessionKeeps
  <2>2. CASE session' = session
    BY <1>1, <2>2 DEF bankState, SessionInv, SessionShape, SessionOpened, loggedIn
  <2>3. CASE Counted
    BY <1>1, <2>3, CountedKeeps DEF bankState
  <2>4. ASSUME NEW d \in net, LogIn(d)
        PROVE  SessionInv'
    <3>1. /\ session'.user = d.key.user /\ session'.secret = d.key.secret
          /\ session'.key.pin = d.key.pin
      BY <2>4 DEF LogIn, GrantsLogin, SessionKey
    <3>2. [name |-> d.key.user, pin |-> d.key.pin, secret |-> d.key.secret] \in opened
      BY <2>4 DEF LogIn, GrantsLogin, Inv, GrantsOpened
    <3>3. SessionShape'
      BY <2>4 DEF LogIn, SessionShape
    <3>. QED
      BY <1>1, <3>1, <3>2, <3>3 DEF bankState, SessionInv, SessionOpened
  <2>. QED
    BY <2>1, <2>2, <2>3, <2>4
    DEF Read, UserExists, NoSuchUser, ShowBalance, DispenseCash, ShowInsufficient,
        LogOut, Fail, AtmRestart
<1>. QED
  BY <1>2, <1>3

-----------------------------------------------------------------------------
(* Theorems.                                                               *)

\* The bank's steps leave the session alone and only add identities.
LEMMA BankKeepsSession ==
  ASSUME SessionInv, BankStep, UNCHANGED session
  PROVE  SessionInv'
<1>1. opened \subseteq opened'
  BY DEF BankStep, CreateUser, CreateUserFails, Deposit, ServeExists, ServeAuth,
         ServeBalance, ServeWithdraw, RefuseWithdraw, ServeEnd, Restart, bankState
<1>. QED
  BY <1>1 DEF SessionInv, SessionShape, SessionOpened, loggedIn

\* Every step of the system keeps both invariants, ...
LEMMA NextInv ==
  ASSUME Inv, SessionInv, [Next]_vars
  PROVE  Inv' /\ SessionInv'
<1>1. CASE BankStep /\ UNCHANGED atmState
  BY <1>1, BankStepInv, BankKeepsSession DEF atmState
<1>2. CASE AtmStep /\ UNCHANGED bankState
  BY <1>2, CommandStep, AnswerStep DEF AtmStep
<1>3. CASE UNCHANGED vars
  BY <1>3 DEF vars, wireVars, bankState, atmState, Inv, AccountsType, NetType, AccountsOpened,
              GrantsOpened, OneSession, ActiveUsers, CardOpensAccount,
              SessionInv, SessionShape, SessionOpened, loggedIn
<1>. QED
  BY <1>1, <1>2, <1>3 DEF Next

\* ... so they hold for ever.
LEMMA Invariance == Spec => [](Inv /\ SessionInv)
<1>1. Init => Inv /\ SessionInv
  <2>1. Init => SessionInv
    BY NoSessionHolds DEF Init, AtmInit
  <2>. QED
    BY <2>1, InitInv
<1>2. Inv /\ SessionInv /\ [Next]_vars => (Inv /\ SessionInv)'
  BY NextInv
<1>. QED
  BY <1>1, <1>2, PTL DEF Spec

\* The bank has one session at a time, however logins of different users are
\* interleaved, repeated or lost (clear_all_sessions).
THEOREM OneSessionAtATime == Spec => []OneSession
BY Invariance, PTL DEF Inv

\* An account that exists has its card, in spite of writes that fail and of cards
\* that earlier runs of the bank left behind.
THEOREM CardsOpenAccounts == Spec => []CardOpensAccount
BY Invariance, PTL DEF Inv

\* A session of the ATM rests on the name, pin and card secret of one account.
THEOREM LoginsAreAuthentic == Spec => []LoginIsAuthentic
<1>1. SessionInv => LoginIsAuthentic
  <2>. SUFFICES ASSUME SessionOpened, loggedIn
                PROVE  \E a \in opened : /\ a.name = session.user
                                         /\ a.secret = session.secret
                                         /\ a.pin = session.key.pin
    BY DEF SessionInv, LoginIsAuthentic
  <2>1. [name |-> session.user, pin |-> session.key.pin, secret |-> session.secret] \in opened
    BY DEF SessionOpened
  <2>. QED
    BY <2>1
<1>. QED
  BY <1>1, Invariance, PTL

-----------------------------------------------------------------------------
(* The inductive invariant about counters and session keys.                *)

CommandKinds == {"BALANCE", "WITHDRAW", "END"}
ReplyKinds == {"BALANCE_IS", "DISPENSE", "INSUFFICIENT", "END_OK"}

Requests == {d \in net : d.kind \in CommandKinds}
Replies == {d \in net : d.kind \in ReplyKinds}
GrantedKeys == {d.key : d \in {e \in net : e.kind = "AUTH_OK"}}

\* A nonce of the bank is in one key only, and every key in use was granted.
KeysInv ==
  /\ serverNonces <= MaxSessions
  /\ GrantedKeys \subseteq Key
  /\ \A k \in GrantedKeys : k.server \in 1 .. serverNonces /\ k.client <= clientNonces
  /\ \A k, l \in GrantedKeys : k.server = l.server => k = l
  /\ \A u \in DOMAIN accounts :
       /\ ~accounts[u].active => accounts[u].key = NoKey
       /\ accounts[u].active => /\ accounts[u].key \in GrantedKeys
                                /\ accounts[u].key.user = u
                                /\ accounts[u].key.secret = accounts[u].secret
  /\ \A d \in net : d.kind = "AUTH" => d.nonce <= clientNonces

\* A key and a counter are those of one request; the ATM asks in order.
RequestsInv ==
  /\ \A d \in Requests :
       /\ d.key \in GrantedKeys /\ d.counter \in 1 .. MaxCounter
       /\ d.kind = "WITHDRAW" => d.amount \in Amount
       /\ loggedIn /\ d.key = session.key /\ ~(pc = "waiting" /\ d = pending) =>
            d.counter < session.nextCounter
       /\ pc = "waiting" /\ pending.kind = "AUTH" => d.key.client < pending.nonce
  /\ \A d, e \in Requests : d.key = e.key /\ d.counter = e.counter => d = e

\* What the bank accepted last, and what it answered, was asked for.
AnswersInv ==
  /\ \A u \in ActiveUsers :
       accounts[u].lastCounter # 0 =>
         \E e \in Requests : e.key = accounts[u].key /\ e.counter = accounts[u].lastCounter
  /\ \A d \in Replies :
       /\ \E e \in Requests :
            /\ e.key = d.key /\ e.counter = d.counter
            /\ d.kind = "DISPENSE" => e.kind = "WITHDRAW" /\ e.amount = d.amount
       /\ \A u \in ActiveUsers : accounts[u].key = d.key => d.counter <= accounts[u].lastCounter

DebitRecord ==
  [key : Key, counter : 1 .. MaxCounter, amount : Amount, user : Name, secret : Secret]

DebitOf(d) ==
  [key |-> d.key, counter |-> d.counter, amount |-> d.amount,
   user |-> d.key.user, secret |-> d.key.secret]

\* A request is debited once at most, and before it is answered.
DebitsInv ==
  /\ debits \in Seq(DebitRecord)
  /\ \A k \in DOMAIN debits :
       /\ debits[k].key \in GrantedKeys
       /\ \A u \in ActiveUsers :
            accounts[u].key = debits[k].key => debits[k].counter <= accounts[u].lastCounter
  /\ \A j, k \in DOMAIN debits :
       debits[j].key = debits[k].key /\ debits[j].counter = debits[k].counter => j = k
  /\ \A d \in Replies : d.kind = "DISPENSE" => \E k \in DOMAIN debits : debits[k] = DebitOf(d)

\* Where the ATM is, and what it waits for.
PhaseInv ==
  /\ pc \in {"command", "waiting", "pin"}
  /\ pc = "command" <=> pending = NoRequest
  /\ pc = "pin" => pending.kind = "EXISTS"
  /\ pc = "waiting" => printed = Blank /\ pending.kind \in {"EXISTS", "AUTH"} \cup CommandKinds
  /\ pending.kind \in {"EXISTS", "AUTH"} => ~loggedIn
  /\ pending.kind = "AUTH" => pending.nonce = clientNonces
  /\ pending.kind \in CommandKinds =>
       /\ loggedIn /\ pending \in net
       /\ pending.key = session.key /\ pending.counter = session.nextCounter
  /\ session.nextCounter >= 1
  /\ ~loggedIn => session = NoSession
  /\ loggedIn => /\ session.key \in GrantedKeys
                 /\ session.key.user = session.user /\ session.key.secret = session.secret
                 /\ session.key.client = clientNonces

\* While a session is shared, the bank has served all but the last request.
BankKeepsUp ==
  \A u \in ActiveUsers :
    loggedIn /\ accounts[u].key = session.key => accounts[u].lastCounter >= session.nextCounter - 1

\* An answer the ATM would show is one of the balances of the meantime.
BalancesWitnessed ==
  pending.kind = "BALANCE" =>
    \A d \in Replies :
      d.kind = "BALANCE_IS" /\ d.key = session.key /\ d.counter = session.nextCounter =>
        d.amount \in witnessed

PaidRecord ==
  [id : (1 .. MaxSessions) \X (1 .. MaxCounter), user : Name \X Secret, amount : Amount]

\* What was paid was asked for, by an earlier request than the next one.
PaidInv ==
  /\ dispensed \in Seq(PaidRecord)
  /\ \A i \in DOMAIN dispensed :
       /\ \E e \in Requests : dispensed[i].id = <<e.key.server, e.counter>>
       /\ loggedIn /\ dispensed[i].id[1] = session.key.server =>
            dispensed[i].id[2] < session.nextCounter

SystemInv ==
  /\ KeysInv /\ RequestsInv /\ AnswersInv /\ DebitsInv /\ PhaseInv /\ BankKeepsUp
  /\ BalancesWitnessed /\ BalanceWasCurrent /\ PaidInv

-----------------------------------------------------------------------------
(* What a datagram adds to the sets above.                                 *)

LEMMA Sent ==
  ASSUME NEW d, Send(d)
  PROVE  /\ net \subseteq net' /\ d \in net'
         /\ \A e \in net' : e \in net \/ e = d
         /\ Requests' = IF d.kind \in CommandKinds THEN Requests \cup {d} ELSE Requests
         /\ Replies' = IF d.kind \in ReplyKinds THEN Replies \cup {d} ELSE Replies
         /\ GrantedKeys' = IF d.kind = "AUTH_OK" THEN GrantedKeys \cup {d.key} ELSE GrantedKeys
<1>1. net' = net \cup {d}
  BY DEF Send
<1>2. Requests' = IF d.kind \in CommandKinds THEN Requests \cup {d} ELSE Requests
  BY <1>1 DEF Requests
<1>3. Replies' = IF d.kind \in ReplyKinds THEN Replies \cup {d} ELSE Replies
  BY <1>1 DEF Replies
<1>4. GrantedKeys' = IF d.kind = "AUTH_OK" THEN GrantedKeys \cup {d.key} ELSE GrantedKeys
  BY <1>1 DEF GrantedKeys
<1>. QED
  BY <1>1, <1>2, <1>3, <1>4

LEMMA NothingSent ==
  ASSUME net' = net
  PROVE  Requests' = Requests /\ Replies' = Replies /\ GrantedKeys' = GrantedKeys
BY DEF Requests, Replies, GrantedKeys

-----------------------------------------------------------------------------
(* A step of the bank does one of three things to the sessions.            *)

\* It starts none and uses none, but may forget some.
Forgets ==
  /\ UNCHANGED <<Requests, Replies, GrantedKeys, clientNonces, serverNonces, debits>>
  /\ net \subseteq net' /\ \A d \in net' : d.kind = "AUTH" => d \in net
  /\ \A u \in DOMAIN accounts' :
       /\ ~accounts'[u].active => accounts'[u].key = NoKey
       /\ accounts'[u].active => /\ u \in ActiveUsers
                                 /\ accounts'[u].key = accounts[u].key
                                 /\ accounts'[u].lastCounter = accounts[u].lastCounter
                                 /\ accounts'[u].secret = accounts[u].secret

\* It starts one, under a new key, and ends all others.
Grants(k) ==
  /\ UNCHANGED <<Requests, Replies, clientNonces, debits>>
  /\ GrantedKeys' = GrantedKeys \cup {k}
  /\ net \subseteq net' /\ \A d \in net' : d.kind = "AUTH" => d \in net
  /\ k \in Key /\ k.server = serverNonces + 1 /\ k.client <= clientNonces
  /\ serverNonces' = serverNonces + 1 /\ serverNonces' <= MaxSessions
  /\ \A u \in DOMAIN accounts' :
       IF accounts'[u].active
         THEN /\ u = k.user /\ accounts'[u].key = k
              /\ accounts'[u].lastCounter = 0 /\ accounts'[u].secret = k.secret
         ELSE accounts'[u].key = NoKey

\* It accepts a request of the session and answers it, debiting what it dispenses.
Accepts(d, u, r) ==
  /\ UNCHANGED <<Requests, GrantedKeys, clientNonces, serverNonces>>
  /\ Replies' = Replies \cup {r}
  /\ net \subseteq net' /\ \A e \in net' : e.kind = "AUTH" => e \in net
  /\ u \in ActiveUsers /\ d \in Requests
  /\ d.key = accounts[u].key /\ accounts[u].lastCounter < d.counter
  /\ DOMAIN accounts' = DOMAIN accounts
  /\ \A v \in DOMAIN accounts : v # u => accounts'[v] = accounts[v]
  /\ accounts'[u].secret = accounts[u].secret
  /\ IF accounts'[u].active
       THEN accounts'[u].key = accounts[u].key /\ accounts'[u].lastCounter = d.counter
       ELSE accounts'[u].key = NoKey
  /\ r.key = d.key /\ r.counter = d.counter
  /\ IF r.kind = "DISPENSE"
       THEN /\ d.kind = "WITHDRAW" /\ r.amount = d.amount
            /\ debits' = Append(debits, DebitOf(r))
       ELSE debits' = debits
  /\ r.kind = "BALANCE_IS" =>
       accounts'[u].balance = r.amount /\ accounts'[u].active

\* Console commands, EXISTS and a restart start no session.
LEMMA QuietSteps ==
  ASSUME Inv, KeysInv,
         \/ \E u \in Name, p \in Pin, s \in Secret, b \in Amount : CreateUser(u, p, s, b)
         \/ \E u \in Name : CreateUserFails(u)
         \/ \E u \in Name, a \in Amount : Deposit(u, a)
         \/ \E d \in net : ServeExists(d)
         \/ Restart
  PROVE  Forgets
<1>1. CASE net' = net /\ accounts' = accounts /\ UNCHANGED <<clientNonces, serverNonces, debits>>
  BY <1>1, NothingSent DEF Forgets, KeysInv, ActiveUsers
<1>2. ASSUME NEW u \in Name, NEW p \in Pin, NEW s \in Secret, NEW b \in Amount,
             CreateUser(u, p, s, b)
      PROVE  Forgets
  <2>1. /\ DOMAIN accounts' = DOMAIN accounts \cup {u}
        /\ ~accounts'[u].active /\ accounts'[u].key = NoKey
        /\ \A v \in DOMAIN accounts : accounts'[v] = accounts[v]
    BY <1>2 DEF CreateUser, With, Known, NewAccount
  <2>2. UNCHANGED <<net, clientNonces, serverNonces, debits>>
    BY <1>2 DEF CreateUser, wireVars
  <2>. QED
    BY <2>1, <2>2, NothingSent DEF Forgets, KeysInv, ActiveUsers
<1>3. ASSUME NEW u \in Name, CreateUserFails(u)
      PROVE  Forgets
  BY <1>1, <1>3 DEF CreateUserFails, wireVars
<1>4. ASSUME NEW u \in Name, NEW a \in Amount, Deposit(u, a)
      PROVE  Forgets
  <2>1. u \in DOMAIN accounts /\ accounts[u] \in Account
    BY <1>4 DEF Inv, AccountsType, Deposit, Known
  <2>2. /\ DOMAIN accounts' = DOMAIN accounts
        /\ accounts'[u].active = accounts[u].active /\ accounts'[u].key = accounts[u].key
        /\ accounts'[u].lastCounter = accounts[u].lastCounter
        /\ accounts'[u].secret = accounts[u].secret
        /\ \A v \in DOMAIN accounts : v # u => accounts'[v] = accounts[v]
    BY <1>4, <2>1 DEF Deposit, Account
  <2>3. UNCHANGED <<net, clientNonces, serverNonces, debits>>
    BY <1>4 DEF Deposit, wireVars
  <2>. QED
    BY <2>1, <2>2, <2>3, NothingSent DEF Forgets, KeysInv, ActiveUsers
<1>5. ASSUME NEW d \in net, ServeExists(d)
      PROVE  Forgets
  <2>1. \E r : Send(r) /\ r.kind \in {"EXISTS_OK", "EXISTS_NO"}
    BY <1>5 DEF ServeExists, ExistsOk, ExistsNo
  <2>2. UNCHANGED <<accounts, clientNonces, serverNonces, debits>>
    BY <1>5 DEF ServeExists, bankState
  <2>3. /\ net \subseteq net' /\ \A e \in net' : e.kind = "AUTH" => e \in net
        /\ Requests' = Requests /\ Replies' = Replies /\ GrantedKeys' = GrantedKeys
    BY <2>1, Sent DEF CommandKinds, ReplyKinds
  <2>. QED
    BY <2>2, <2>3 DEF Forgets, KeysInv, ActiveUsers
<1>6. CASE Restart
  <2>1. DOMAIN accounts' = {} /\ UNCHANGED <<net, clientNonces, serverNonces, debits>>
    BY <1>6 DEF Restart, wireVars
  <2>. QED
    BY <2>1, NothingSent DEF Forgets
<1>. QED
  BY <1>2, <1>3, <1>4, <1>5, <1>6

\* AUTH starts a session under a key that no session had before.
LEMMA AuthGrants ==
  ASSUME Inv, KeysInv, NEW d \in net, ServeAuth(d)
  PROVE  \E k : Grants(k)
<1>. DEFINE k == SessionKey(d.user, d.pin, d.secret, d.nonce, serverNonces + 1)
<1>1. /\ d.user \in DOMAIN accounts /\ d.user \in Name
      /\ accounts[d.user] \in Account
      /\ accounts[d.user].pin = d.pin /\ accounts[d.user].secret = d.secret
      /\ d.nonce \in Nat /\ d.nonce <= clientNonces /\ serverNonces \in Nat
  BY DEF Inv, AccountsType, NetType, ServeAuth, ProvesIdentity, Known, KeysInv
<1>2. /\ k \in Key /\ k.server = serverNonces + 1 /\ k.client <= clientNonces
      /\ k.user = d.user /\ k.secret = d.secret
  BY <1>1 DEF SessionKey, Key, Account
<1>. HIDE DEF k
<1>3. /\ Send(AuthOk(k)) /\ serverNonces' = serverNonces + 1 /\ serverNonces < MaxSessions
      /\ UNCHANGED <<clientNonces, debits>>
  BY DEF ServeAuth, k
<1>4. AuthOk(k).kind = "AUTH_OK" /\ AuthOk(k).key = k
  BY DEF AuthOk
<1>5. /\ net \subseteq net' /\ \A e \in net' : e.kind = "AUTH" => e \in net
      /\ Requests' = Requests /\ Replies' = Replies /\ GrantedKeys' = GrantedKeys \cup {k}
  BY <1>3, <1>4, Sent DEF CommandKinds, ReplyKinds
<1>6. ASSUME NEW u \in DOMAIN accounts'
      PROVE  IF accounts'[u].active
               THEN /\ u = k.user /\ accounts'[u].key = k
                    /\ accounts'[u].lastCounter = 0 /\ accounts'[u].secret = k.secret
               ELSE accounts'[u].key = NoKey
  <2>1. accounts' = [v \in DOMAIN accounts |->
                       IF v = d.user
                         THEN [accounts[d.user] EXCEPT !.active = TRUE, !.key = k,
                                                       !.lastCounter = 0]
                         ELSE Cleared(accounts[v])]
    BY DEF ServeAuth, Grant, k
  <2>2. accounts[u] \in Account
    BY <1>6, <2>1 DEF Inv, AccountsType
  <2>3. CASE u = d.user
    BY <1>1, <1>2, <1>6, <2>1, <2>2, <2>3 DEF Account
  <2>4. CASE u # d.user
    BY <1>6, <2>1, <2>2, <2>4 DEF Account, Cleared
  <2>. QED
    BY <2>3, <2>4
<1>7. serverNonces + 1 <= MaxSessions
  BY <1>1, <1>3, SessionWireAssumption
<1>. QED
  BY <1>2, <1>3, <1>5, <1>6, <1>7 DEF Grants

\* A command is accepted in the session it names, and answered.
LEMMA CommandAccepted ==
  ASSUME Inv, KeysInv, NEW d \in net,
         ServeBalance(d) \/ ServeWithdraw(d) \/ RefuseWithdraw(d) \/ ServeEnd(d)
  PROVE  \E r : Accepts(d, ActiveUser, r)
<1>. DEFINE u == ActiveUser
<1>1. /\ u \in DOMAIN accounts /\ accounts[u] \in Account /\ accounts[u].active
      /\ u \in ActiveUsers
  BY ActiveUserKnown
  DEF ServeBalance, ServeWithdraw, RefuseWithdraw, ServeEnd, Acceptable, Inv, AccountsType,
      ActiveUsers
<1>2. /\ d.key = accounts[u].key /\ accounts[u].lastCounter < d.counter
      /\ d \in Requests
  <2>1. d.key = accounts[u].key /\ d.counter > accounts[u].lastCounter
    BY DEF ServeBalance, ServeWithdraw, RefuseWithdraw, ServeEnd, Acceptable
  <2>2. d \in Requests
    BY DEF ServeBalance, ServeWithdraw, RefuseWithdraw, ServeEnd, Requests, CommandKinds
  <2>3. d.counter \in Nat /\ accounts[u].lastCounter \in Nat
    BY <1>1, <2>2 DEF Inv, NetType, Account, Requests, CommandKinds
  <2>. QED
    BY <2>1, <2>2, <2>3
<1>3. /\ accounts[u].key.user = u /\ accounts[u].key.secret = accounts[u].secret
      /\ accounts[u].key \in GrantedKeys
  BY <1>1 DEF KeysInv
<1>4. UNCHANGED <<clientNonces, serverNonces>>
  BY DEF ServeBalance, ServeWithdraw, RefuseWithdraw, ServeEnd
<1>. HIDE DEF u
<1>5. ASSUME NEW r, Send(r), r.kind \in ReplyKinds
      PROVE  /\ net \subseteq net' /\ \A e \in net' : e.kind = "AUTH" => e \in net
             /\ UNCHANGED <<Requests, GrantedKeys>> /\ Replies' = Replies \cup {r}
  BY <1>5, Sent DEF CommandKinds, ReplyKinds
<1>6. CASE ServeBalance(d)
  <2>. DEFINE r == BalanceIs(accounts[u].balance, d.counter, d.key)
  <2>1. /\ Send(r) /\ debits' = debits
        /\ accounts' = [accounts EXCEPT ![u].lastCounter = d.counter]
    BY <1>6 DEF ServeBalance, u
  <2>2. /\ r.kind = "BALANCE_IS" /\ r.key = d.key /\ r.counter = d.counter
        /\ r.amount = accounts[u].balance
    BY DEF BalanceIs
  <2>3. /\ DOMAIN accounts' = DOMAIN accounts
        /\ \A v \in DOMAIN accounts : v # u => accounts'[v] = accounts[v]
        /\ accounts'[u].secret = accounts[u].secret /\ accounts'[u].active
        /\ accounts'[u].key = accounts[u].key /\ accounts'[u].lastCounter = d.counter
        /\ accounts'[u].balance = accounts[u].balance
    BY <1>1, <2>1 DEF Account
  <2>. HIDE DEF r
  <2>4. Accepts(d, u, r)
    BY <1>1, <1>2, <1>4, <1>5, <2>1, <2>2, <2>3 DEF Accepts, ReplyKinds
  <2>. QED
    BY <2>4 DEF u
<1>7. CASE RefuseWithdraw(d)
  <2>. DEFINE r == Insufficient(d.counter, d.key)
  <2>1. /\ Send(r) /\ debits' = debits
        /\ accounts' = [accounts EXCEPT ![u].lastCounter = d.counter]
    BY <1>7 DEF RefuseWithdraw, u
  <2>2. r.kind = "INSUFFICIENT" /\ r.key = d.key /\ r.counter = d.counter
    BY DEF Insufficient
  <2>3. /\ DOMAIN accounts' = DOMAIN accounts
        /\ \A v \in DOMAIN accounts : v # u => accounts'[v] = accounts[v]
        /\ accounts'[u].secret = accounts[u].secret /\ accounts'[u].active
        /\ accounts'[u].key = accounts[u].key /\ accounts'[u].lastCounter = d.counter
    BY <1>1, <2>1 DEF Account
  <2>. HIDE DEF r
  <2>4. Accepts(d, u, r)
    BY <1>1, <1>2, <1>4, <1>5, <2>1, <2>2, <2>3 DEF Accepts, ReplyKinds
  <2>. QED
    BY <2>4 DEF u
<1>8. CASE ServeWithdraw(d)
  <2>. DEFINE r == Dispense(d.amount, d.counter, d.key)
  <2>1. /\ Send(r)
        /\ debits' = Append(debits, [key |-> d.key, counter |-> d.counter,
                                     amount |-> d.amount, user |-> u,
                                     secret |-> accounts[u].secret])
        /\ accounts' = [accounts EXCEPT ![u].lastCounter = d.counter,
                                        ![u].balance = @ - d.amount]
    BY <1>8 DEF ServeWithdraw, u
  <2>2. /\ r.kind = "DISPENSE" /\ r.key = d.key /\ r.counter = d.counter
        /\ r.amount = d.amount /\ d.kind = "WITHDRAW"
    BY <1>8 DEF Dispense, ServeWithdraw
  <2>3. /\ DOMAIN accounts' = DOMAIN accounts
        /\ \A v \in DOMAIN accounts : v # u => accounts'[v] = accounts[v]
        /\ accounts'[u].secret = accounts[u].secret /\ accounts'[u].active
        /\ accounts'[u].key = accounts[u].key /\ accounts'[u].lastCounter = d.counter
    BY <1>1, <2>1 DEF Account
  <2>. HIDE DEF r
  <2>4. debits' = Append(debits, DebitOf(r))
    BY <1>2, <1>3, <2>1, <2>2 DEF DebitOf
  <2>5. Accepts(d, u, r)
    BY <1>1, <1>2, <1>4, <1>5, <2>1, <2>2, <2>3, <2>4 DEF Accepts, ReplyKinds
  <2>. QED
    BY <2>5 DEF u
<1>9. CASE ServeEnd(d)
  <2>. DEFINE r == EndOk(d.counter, d.key)
  <2>1. /\ Send(r) /\ debits' = debits
        /\ accounts' = [accounts EXCEPT ![u].lastCounter = d.counter,
                                        ![u].active = FALSE, ![u].key = NoKey]
    BY <1>9 DEF ServeEnd, u
  <2>2. r.kind = "END_OK" /\ r.key = d.key /\ r.counter = d.counter
    BY DEF EndOk
  <2>3. /\ DOMAIN accounts' = DOMAIN accounts
        /\ \A v \in DOMAIN accounts : v # u => accounts'[v] = accounts[v]
        /\ accounts'[u].secret = accounts[u].secret /\ ~accounts'[u].active
        /\ accounts'[u].key = NoKey
    BY <1>1, <2>1 DEF Account
  <2>. HIDE DEF r
  <2>4. Accepts(d, u, r)
    BY <1>1, <1>2, <1>4, <1>5, <2>1, <2>2, <2>3 DEF Accepts, ReplyKinds
  <2>. QED
    BY <2>4 DEF u
<1>. QED
  BY <1>6, <1>7, <1>8, <1>9

LEMMA BankSteps ==
  ASSUME Inv, KeysInv, BankStep
  PROVE  Forgets \/ (\E k : Grants(k)) \/ (\E d, u, r : Accepts(d, u, r))
BY QuietSteps, AuthGrants, CommandAccepted DEF BankStep

-----------------------------------------------------------------------------
(* The bank's steps keep the invariant.                                    *)

\* While the ATM waits, what a bank step makes of the witnessed balances.
LEMMA BankWatched ==
  ASSUME PhaseInv, BalanceWasCurrent, UNCHANGED atmState, Watch
  PROVE  /\ pending.kind = "BALANCE" =>
              witnessed' = Snapshot(accounts', session.user) \cup witnessed
         /\ BalanceWasCurrent'
<1>1. UNCHANGED <<pc, pending, session, printed>>
  BY DEF atmState
<1>2. CASE pending.kind = "BALANCE"
  <2>1. pc = "waiting"
    BY <1>2 DEF PhaseInv, NoRequest
  <2>2. printed.msg # "balance"
    <3>1. printed = Blank
      BY <2>1 DEF PhaseInv
    <3>. QED
      BY <3>1 DEF Blank, Line
  <2>. QED
    BY <1>1, <1>2, <2>1, <2>2 DEF Watch, BalanceWasCurrent
<1>3. CASE pending.kind # "BALANCE"
  <2>1. printed.msg = "balance" => witnessed' = witnessed
    BY <1>1, <1>3 DEF Watch
  <2>. QED
    BY <1>1, <1>3, <2>1 DEF BalanceWasCurrent
<1>. QED
  BY <1>2, <1>3

\* The ATM's own state depends on what was granted and sent, which only grows.
LEMMA BankKeepsAtm ==
  ASSUME KeysInv, RequestsInv, PhaseInv, PaidInv, UNCHANGED <<atmState, dispensed>>,
         Requests' = Requests, GrantedKeys \subseteq GrantedKeys', net \subseteq net',
         UNCHANGED clientNonces
  PROVE  RequestsInv' /\ PhaseInv' /\ PaidInv'
<1>1. UNCHANGED <<pc, pending, session, printed>>
  BY DEF atmState
<1>2. RequestsInv'
  BY <1>1 DEF RequestsInv, loggedIn
<1>3. PhaseInv'
  BY <1>1 DEF PhaseInv, loggedIn
<1>4. PaidInv'
  BY <1>1 DEF PaidInv, loggedIn
<1>. QED
  BY <1>2, <1>3, <1>4

LEMMA ForgetsKeeps ==
  ASSUME Inv, SystemInv, Forgets, UNCHANGED <<atmState, dispensed>>, Watch
  PROVE  SystemInv'
<1>1. UNCHANGED <<pc, pending, session, printed>>
  BY DEF atmState
<1>2. ASSUME NEW u \in ActiveUsers'
      PROVE  /\ u \in ActiveUsers /\ accounts'[u].key = accounts[u].key
             /\ accounts'[u].lastCounter = accounts[u].lastCounter
             /\ accounts'[u].secret = accounts[u].secret
  BY <1>2 DEF Forgets, ActiveUsers
<1>3. RequestsInv' /\ PhaseInv' /\ PaidInv'
  BY BankKeepsAtm DEF Forgets, SystemInv
<1>4. KeysInv'
  BY DEF KeysInv, Forgets, SystemInv, ActiveUsers
<1>5. AnswersInv'
  BY <1>2 DEF AnswersInv, Forgets, SystemInv
<1>6. DebitsInv'
  BY <1>2 DEF DebitsInv, Forgets, SystemInv
<1>7. BankKeepsUp'
  BY <1>1, <1>2 DEF BankKeepsUp, SystemInv, loggedIn
<1>8. BalancesWitnessed' /\ BalanceWasCurrent'
  BY <1>1, BankWatched DEF BalancesWitnessed, SystemInv, Forgets
<1>. QED
  BY <1>3, <1>4, <1>5, <1>6, <1>7, <1>8 DEF SystemInv

LEMMA GrantsKeeps ==
  ASSUME Inv, SystemInv, NEW k, Grants(k), UNCHANGED <<atmState, dispensed>>, Watch
  PROVE  SystemInv'
<1>1. UNCHANGED <<pc, pending, session, printed>>
  BY DEF atmState
<1>2. /\ k \notin GrantedKeys /\ serverNonces \in Nat
      /\ \A l \in GrantedKeys : l.server \in 1 .. serverNonces
  BY DEF Grants, SystemInv, KeysInv, Inv, AccountsType
<1>3. ASSUME NEW u \in ActiveUsers'
      PROVE  /\ u = k.user /\ accounts'[u].key = k
             /\ accounts'[u].lastCounter = 0 /\ accounts'[u].secret = k.secret
  BY <1>3 DEF Grants, ActiveUsers
<1>4. RequestsInv' /\ PhaseInv' /\ PaidInv'
  BY BankKeepsAtm DEF Grants, SystemInv
<1>5. KeysInv'
  <2>1. \A l \in GrantedKeys' : /\ l.server \in 1 .. serverNonces'
                                /\ l.client <= clientNonces' /\ l \in Key
    BY <1>2 DEF Grants, SystemInv, KeysInv
  <2>2. \A l, m \in GrantedKeys' : l.server = m.server => l = m
    BY <1>2 DEF Grants, SystemInv, KeysInv
  <2>3. /\ \A d \in net' : d.kind = "AUTH" => d.nonce <= clientNonces'
        /\ serverNonces' <= MaxSessions
    BY DEF Grants, SystemInv, KeysInv
  <2>4. \A u \in DOMAIN accounts' :
          /\ ~accounts'[u].active => accounts'[u].key = NoKey
          /\ accounts'[u].active => /\ accounts'[u].key \in GrantedKeys'
                                    /\ accounts'[u].key.user = u
                                    /\ accounts'[u].key.secret = accounts'[u].secret
    BY DEF Grants
  <2>. QED
    BY <2>1, <2>2, <2>3, <2>4 DEF KeysInv
<1>6. \A d \in Replies : d.key \in GrantedKeys
  BY DEF SystemInv, AnswersInv, RequestsInv
<1>7. AnswersInv'
  BY <1>2, <1>3, <1>6 DEF AnswersInv, Grants, SystemInv
<1>8. DebitsInv'
  BY <1>2, <1>3 DEF DebitsInv, Grants, SystemInv
<1>9. BankKeepsUp'
  BY <1>1, <1>2, <1>3 DEF BankKeepsUp, SystemInv, PhaseInv, loggedIn
<1>10. BalancesWitnessed' /\ BalanceWasCurrent'
  BY <1>1, BankWatched DEF BalancesWitnessed, SystemInv, Grants
<1>. QED
  BY <1>4, <1>5, <1>7, <1>8, <1>9, <1>10 DEF SystemInv

LEMMA AcceptsKeeps ==
  ASSUME Inv, SessionInv, SystemInv, NEW d, NEW u, NEW r, Accepts(d, u, r),
         UNCHANGED <<atmState, dispensed>>, Watch
  PROVE  SystemInv'
<1>1. UNCHANGED <<pc, pending, session, printed>>
  BY DEF atmState
<1>2. /\ u \in ActiveUsers /\ u \in DOMAIN accounts /\ accounts[u] \in Account
      /\ accounts[u].lastCounter \in Nat
      /\ \A v \in ActiveUsers : v = u
  BY DEF Accepts, ActiveUsers, Inv, AccountsType, Account, OneSession
<1>3. /\ accounts[u].key \in GrantedKeys /\ accounts[u].key.user = u
      /\ accounts[u].key.secret = accounts[u].secret
  BY <1>2 DEF SystemInv, KeysInv, ActiveUsers
<1>4. /\ d.counter \in 1 .. MaxCounter /\ accounts[u].lastCounter < d.counter
      /\ d.key = accounts[u].key /\ d \in Requests
      /\ r.key = d.key /\ r.counter = d.counter
  BY DEF Accepts, SystemInv, RequestsInv
<1>5. ASSUME NEW v \in ActiveUsers'
      PROVE  /\ v = u /\ accounts'[v].key = accounts[u].key
             /\ accounts'[v].secret = accounts[u].secret
             /\ accounts'[v].lastCounter = d.counter
  <2>1. v \in DOMAIN accounts /\ accounts'[v].active
    BY <1>5 DEF Accepts, ActiveUsers
  <2>2. v = u
    BY <1>2, <2>1 DEF Accepts, ActiveUsers
  <2>. QED
    BY <2>1, <2>2 DEF Accepts
<1>6. RequestsInv' /\ PhaseInv' /\ PaidInv'
  BY BankKeepsAtm DEF Accepts, SystemInv
<1>7. KeysInv'
  <2>1. ASSUME NEW v \in DOMAIN accounts'
        PROVE  /\ ~accounts'[v].active => accounts'[v].key = NoKey
               /\ accounts'[v].active => /\ accounts'[v].key \in GrantedKeys'
                                         /\ accounts'[v].key.user = v
                                         /\ accounts'[v].key.secret = accounts'[v].secret
    <3>1. CASE v = u
      BY <1>3, <3>1 DEF Accepts
    <3>2. CASE v # u
      BY <2>1, <3>2 DEF Accepts, SystemInv, KeysInv
    <3>. QED
      BY <3>1, <3>2
  <2>. QED
    BY <2>1 DEF Accepts, SystemInv, KeysInv
<1>8. ASSUME NEW e \in Replies', NEW v \in ActiveUsers', accounts'[v].key = e.key
      PROVE  e.counter <= accounts'[v].lastCounter
  <2>1. CASE e = r
    BY <1>4, <1>5, <1>8, <2>1
  <2>2. CASE e \in Replies
    <3>1. e.counter <= accounts[u].lastCounter
      BY <1>2, <1>5, <1>8, <2>2 DEF SystemInv, AnswersInv
    <3>2. e.counter \in Nat
      <4>1. PICK q \in Requests : q.counter = e.counter
        BY <2>2 DEF SystemInv, AnswersInv
      <4>2. q.counter \in 1 .. MaxCounter
        BY DEF SystemInv, RequestsInv
      <4>. QED
        BY <4>1, <4>2
    <3>. QED
      BY <1>2, <1>4, <1>5, <1>8, <3>1, <3>2
  <2>. QED
    BY <1>8, <2>1, <2>2 DEF Accepts
<1>9. AnswersInv'
  <2>1. ASSUME NEW e \in Replies'
        PROVE  \E q \in Requests :
                 /\ q.key = e.key /\ q.counter = e.counter
                 /\ e.kind = "DISPENSE" => q.kind = "WITHDRAW" /\ q.amount = e.amount
    <3>1. CASE e = r
      BY <1>4, <3>1 DEF Accepts
    <3>2. CASE e \in Replies
      BY <3>2 DEF SystemInv, AnswersInv
    <3>. QED
      BY <3>1, <3>2 DEF Accepts
  <2>2. \A v \in ActiveUsers' :
          \E q \in Requests : /\ q.key = accounts'[v].key
                              /\ q.counter = accounts'[v].lastCounter
    BY <1>4, <1>5
  <2>3. Requests' = Requests
    BY DEF Accepts
  <2>. QED
    BY <1>8, <2>1, <2>2, <2>3 DEF AnswersInv
<1>10. DebitsInv'
  <2>0. \A k \in DOMAIN debits : debits[k].counter \in Nat
    <3>1. debits \in Seq(DebitRecord)
      BY DEF SystemInv, DebitsInv
    <3>2. \A k \in DOMAIN debits : debits[k] \in DebitRecord
      BY <3>1
    <3>. QED
      BY <3>2 DEF DebitRecord
  <2>1. ASSUME NEW v \in ActiveUsers', NEW k \in DOMAIN debits,
               accounts'[v].key = debits[k].key
        PROVE  debits[k].counter < accounts'[v].lastCounter
    <3>1. debits[k].counter <= accounts[u].lastCounter
      BY <1>2, <1>5, <2>1 DEF SystemInv, DebitsInv
    <3>2. debits[k].counter \in Nat
      BY <2>0
    <3>. QED
      BY <1>2, <1>4, <1>5, <3>1, <3>2
  <2>2. CASE r.kind # "DISPENSE"
    <3>1. debits' = debits /\ GrantedKeys' = GrantedKeys
      BY <2>2 DEF Accepts
    <3>2. \A v \in ActiveUsers', k \in DOMAIN debits :
            accounts'[v].key = debits[k].key => debits[k].counter <= accounts'[v].lastCounter
      <4>1. ASSUME NEW v \in ActiveUsers', NEW k \in DOMAIN debits
            PROVE  debits[k].counter \in Nat /\ accounts'[v].lastCounter \in Nat
        BY <1>4, <1>5, <2>0
      <4>. QED
        BY <2>1, <4>1
    <3>3. \A e \in Replies' : e.kind = "DISPENSE" => e \in Replies
      BY <2>2 DEF Accepts
    <3>. QED
      BY <3>1, <3>2, <3>3 DEF SystemInv, DebitsInv
  <2>3. CASE r.kind = "DISPENSE"
    <3>. DEFINE n == DebitOf(r)
    <3>1. /\ n.key = d.key /\ n.counter = d.counter /\ n \in DebitRecord
      <4>1. d.amount \in Amount /\ r.amount = d.amount
        BY <1>4, <2>3 DEF Accepts, SystemInv, RequestsInv
      <4>2. d.key \in Key /\ d.key.user \in Name /\ d.key.secret \in Secret
        BY <1>3, <1>4 DEF SystemInv, KeysInv, Key
      <4>. QED
        BY <1>4, <4>1, <4>2 DEF DebitOf, DebitRecord
    <3>. HIDE DEF n
    <3>2. /\ debits' = Append(debits, n) /\ GrantedKeys' = GrantedKeys
          /\ debits \in Seq(DebitRecord)
      BY <2>3 DEF Accepts, SystemInv, DebitsInv, n
    <3>3. /\ debits' \in Seq(DebitRecord)
          /\ DOMAIN debits' = DOMAIN debits \cup {Len(debits) + 1}
          /\ Len(debits) + 1 \notin DOMAIN debits
          /\ debits'[Len(debits) + 1] = n
          /\ \A k \in DOMAIN debits : debits'[k] = debits[k]
      BY <3>1, <3>2
    <3>4. ASSUME NEW k \in DOMAIN debits
          PROVE  debits[k].key # n.key \/ debits[k].counter # n.counter
      <4>1. debits[k].key = accounts[u].key => debits[k].counter <= accounts[u].lastCounter
        BY <1>2 DEF SystemInv, DebitsInv
      <4>2. debits[k].counter \in Nat
        BY <2>0
      <4>. QED
        BY <1>2, <1>4, <3>1, <4>1, <4>2
    <3>5. \A v \in ActiveUsers', k \in DOMAIN debits' :
            accounts'[v].key = debits'[k].key => debits'[k].counter <= accounts'[v].lastCounter
      <4>1. ASSUME NEW v \in ActiveUsers', NEW k \in DOMAIN debits
            PROVE  debits[k].counter \in Nat /\ accounts'[v].lastCounter \in Nat
        BY <1>4, <1>5, <2>0
      <4>2. \A v \in ActiveUsers' : n.counter <= accounts'[v].lastCounter
        BY <1>4, <1>5, <3>1
      <4>. QED
        BY <2>1, <3>3, <4>1, <4>2
    <3>6. \A k \in DOMAIN debits' : debits'[k].key \in GrantedKeys'
      BY <1>3, <1>4, <3>1, <3>2, <3>3 DEF SystemInv, DebitsInv
    <3>7. \A j, k \in DOMAIN debits' :
            debits'[j].key = debits'[k].key /\ debits'[j].counter = debits'[k].counter => j = k
      BY <3>3, <3>4 DEF SystemInv, DebitsInv
    <3>8. ASSUME NEW e \in Replies', e.kind = "DISPENSE"
          PROVE  \E k \in DOMAIN debits' : debits'[k] = DebitOf(e)
      <4>1. CASE e = r
        BY <3>3, <4>1 DEF n
      <4>2. CASE e \in Replies
        BY <3>3, <3>8, <4>2 DEF SystemInv, DebitsInv
      <4>. QED
        BY <4>1, <4>2 DEF Accepts
    <3>. QED
      BY <3>3, <3>5, <3>6, <3>7, <3>8 DEF DebitsInv
  <2>. QED
    BY <2>2, <2>3
<1>11. BankKeepsUp'
  <2>1. ASSUME NEW v \in ActiveUsers', loggedIn, accounts'[v].key = session.key
        PROVE  accounts'[v].lastCounter >= session.nextCounter - 1
    <3>1. accounts[u].lastCounter >= session.nextCounter - 1
      BY <1>2, <1>5, <2>1 DEF SystemInv, BankKeepsUp
    <3>2. session.nextCounter \in Nat
      BY DEF SessionInv, SessionShape
    <3>. QED
      BY <1>2, <1>4, <1>5, <3>1, <3>2
  <2>. QED
    BY <1>1, <2>1 DEF BankKeepsUp, loggedIn
<1>12. BalancesWitnessed' /\ BalanceWasCurrent'
  <2>1. /\ BalanceWasCurrent'
        /\ pending.kind = "BALANCE" =>
             witnessed' = Snapshot(accounts', session.user) \cup witnessed
    BY BankWatched DEF SystemInv
  <2>2. ASSUME pending.kind = "BALANCE", NEW e \in Replies', e.kind = "BALANCE_IS",
               e.key = session.key, e.counter = session.nextCounter
        PROVE  e.amount \in witnessed'
    <3>1. CASE e \in Replies
      BY <2>1, <2>2, <3>1 DEF SystemInv, BalancesWitnessed
    <3>2. CASE e = r
      <4>1. accounts'[u].balance = r.amount /\ u \in DOMAIN accounts'
        BY <1>2, <2>2, <3>2 DEF Accepts
      <4>2. loggedIn /\ session.key.user = session.user
        BY <2>2 DEF SystemInv, PhaseInv, CommandKinds
      <4>3. u = session.user
        BY <1>3, <1>4, <2>2, <3>2, <4>2
      <4>. QED
        BY <2>1, <2>2, <3>2, <4>1, <4>3 DEF Snapshot
    <3>. QED
      BY <2>2, <3>1, <3>2 DEF Accepts
  <2>. QED
    BY <1>1, <2>1, <2>2 DEF BalancesWitnessed
<1>. QED
  BY <1>6, <1>7, <1>9, <1>10, <1>11, <1>12 DEF SystemInv

-----------------------------------------------------------------------------
(* A step of the ATM does one of five things to its session.               *)

\* Logged out, it asks under a fresh nonce.
AsksLogin ==
  /\ UNCHANGED <<Requests, Replies, GrantedKeys, session, dispensed>>
  /\ ~loggedIn /\ clientNonces' = clientNonces + 1
  /\ net \subseteq net'
  /\ \A d \in net' : d.kind = "AUTH" => d \in net \/ d = pending'
  /\ pc' = "waiting" /\ printed' = Blank
  /\ pending'.kind \in {"EXISTS", "AUTH"} /\ pending'.nonce = clientNonces'

\* Logged in, it asks under the next counter.
AsksCommand ==
  /\ UNCHANGED <<Replies, GrantedKeys, clientNonces, session, dispensed>>
  /\ loggedIn /\ pc = "command" /\ session.nextCounter <= MaxCounter
  /\ Requests' = Requests \cup {pending'}
  /\ net \subseteq net' /\ pending' \in net'
  /\ \A d \in net' : d.kind = "AUTH" => d \in net
  /\ pc' = "waiting" /\ printed' = Blank
  /\ pending'.kind \in CommandKinds
  /\ pending'.kind = "WITHDRAW" => pending'.amount \in Amount
  /\ pending'.key = session.key /\ pending'.counter = session.nextCounter

\* A login is granted under the nonce of the question.
LogsIn ==
  /\ UNCHANGED <<wireVars, dispensed>>
  /\ pc = "waiting" /\ pending.kind = "AUTH"
  /\ \E k \in GrantedKeys :
       /\ k.client = pending.nonce
       /\ session' = [user |-> k.user, secret |-> k.secret, nextCounter |-> 1, key |-> k]
  /\ pc' = "command" /\ pending' = NoRequest /\ printed'.msg = "Authorized"

\* The command is answered: cash is paid, or a balance shown, as the answer says.
Counts(d) ==
  /\ UNCHANGED wireVars
  /\ pc = "waiting" /\ pending.kind \in CommandKinds
  /\ d \in Replies /\ d.key = session.key /\ d.counter = session.nextCounter
  /\ session'.user = session.user /\ session'.secret = session.secret
  /\ session'.key = session.key /\ session'.nextCounter = session.nextCounter + 1
  /\ pc' = "command" /\ pending' = NoRequest
  /\ printed'.msg = "balance" =>
       pending.kind = "BALANCE" /\ d.kind = "BALANCE_IS" /\ printed'.amount = d.amount
  /\ IF printed'.msg = "dispensed"
       THEN /\ pending.kind = "WITHDRAW" /\ d.kind = "DISPENSE" /\ printed'.amount = d.amount
            /\ dispensed' = Append(dispensed, Withdrawal(session.key, session.nextCounter,
                                                         session.user, session.secret, d.amount))
       ELSE dispensed' = dispensed

\* The session is over, or there was none and none comes of this.
Leaves ==
  /\ UNCHANGED <<wireVars, dispensed>>
  /\ session' = NoSession /\ pc' = "command" /\ pending' = NoRequest
  /\ printed'.msg \notin {"balance", "dispensed"}

\* The user exists: the pin comes next.
Proceeds ==
  /\ UNCHANGED <<wireVars, session, pending, printed, dispensed>>
  /\ pc = "waiting" /\ pending.kind = "EXISTS" /\ pc' = "pin"

LEMMA LineParts == \A m, a : Line(m, a).msg = m /\ Line(m, a).amount = a
BY DEF Line

\* Commands.
LEMMA LoginAsked ==
  ASSUME PhaseInv, Pay,
         (\E u \in Name : BeginSession(u)) \/ (\E p \in Pin, s \in Secret : EnterPin(p, s))
  PROVE  AsksLogin
<1>1. /\ Send(pending') /\ pending'.kind \in {"EXISTS", "AUTH"}
      /\ pending'.nonce = clientNonces' /\ clientNonces' = clientNonces + 1
      /\ pc' = "waiting" /\ printed' = Blank /\ session' = session
  <2>1. ASSUME NEW u \in Name, BeginSession(u)
        PROVE  /\ Send(pending') /\ pending'.kind = "EXISTS"
               /\ pending'.nonce = clientNonces'
    BY <2>1 DEF BeginSession, Ask, Exists
  <2>2. ASSUME NEW p \in Pin, NEW s \in Secret, EnterPin(p, s)
        PROVE  /\ Send(pending') /\ pending'.kind = "AUTH"
               /\ pending'.nonce = clientNonces'
    BY <2>2 DEF EnterPin, Ask, Auth
  <2>3. /\ clientNonces' = clientNonces + 1
        /\ pc' = "waiting" /\ printed' = Blank /\ session' = session
    BY DEF BeginSession, EnterPin, Ask
  <2>. QED
    BY <2>1, <2>2, <2>3
<1>2. ~loggedIn
  BY DEF BeginSession, EnterPin, PhaseInv
<1>3. dispensed' = dispensed
  <2>1. printed'.msg # "dispensed"
    BY <1>1 DEF Blank, Line
  <2>. QED
    BY <2>1 DEF Pay
<1>4. /\ net \subseteq net' /\ \A e \in net' : e \in net \/ e = pending'
      /\ UNCHANGED <<Requests, Replies, GrantedKeys>>
  BY <1>1, Sent DEF CommandKinds, ReplyKinds
<1>. QED
  BY <1>1, <1>2, <1>3, <1>4 DEF AsksLogin

LEMMA CommandAsked ==
  ASSUME PhaseInv, Pay, Balance \/ EndSession \/ (\E a \in Amount : WithdrawCash(a))
  PROVE  AsksCommand
<1>1. /\ Send(pending') /\ pending'.kind \in CommandKinds
      /\ pending'.kind = "WITHDRAW" => pending'.amount \in Amount
      /\ pending'.key = session.key /\ pending'.counter = session.nextCounter
  <2>1. CASE Balance
    BY <2>1 DEF Balance, SessionRequest, Ask, BalanceOf, CommandKinds
  <2>2. CASE EndSession
    BY <2>2 DEF EndSession, SessionRequest, Ask, End, CommandKinds
  <2>3. ASSUME NEW a \in Amount, WithdrawCash(a)
        PROVE  /\ Send(pending') /\ pending'.kind \in CommandKinds
               /\ pending'.kind = "WITHDRAW" => pending'.amount \in Amount
               /\ pending'.key = session.key /\ pending'.counter = session.nextCounter
    BY <2>3 DEF WithdrawCash, SessionRequest, Ask, Withdraw, CommandKinds
  <2>. QED
    BY <2>1, <2>2, <2>3
<1>2. /\ pc = "command" /\ loggedIn /\ session.nextCounter <= MaxCounter
      /\ pc' = "waiting" /\ printed' = Blank /\ UNCHANGED <<clientNonces, session>>
  BY DEF Balance, EndSession, WithdrawCash, SessionRequest, Ask
<1>3. dispensed' = dispensed
  BY <1>2 DEF Pay
<1>4. /\ net \subseteq net' /\ pending' \in net' /\ \A e \in net' : e \in net \/ e = pending'
      /\ UNCHANGED <<Replies, GrantedKeys>> /\ Requests' = Requests \cup {pending'}
  BY <1>1, Sent DEF CommandKinds, ReplyKinds
<1>. QED
  BY <1>1, <1>2, <1>3, <1>4 DEF AsksCommand, CommandKinds

\* Answers.
LEMMA LoginGranted ==
  ASSUME KeysInv, PhaseInv, Pay, NEW d \in net, LogIn(d)
  PROVE  LogsIn
<1>1. d.key \in GrantedKeys /\ d.key \in Key
  BY DEF LogIn, GrantsLogin, GrantedKeys, KeysInv
<1>2. d.key = SessionKey(pending.user, pending.pin, pending.secret, pending.nonce, d.key.server)
  BY <1>1 DEF LogIn, GrantsLogin, SessionKey, Key
<1>3. /\ d.key.client = pending.nonce /\ d.key.user = pending.user
      /\ d.key.secret = pending.secret
  BY DEF LogIn, GrantsLogin
<1>4. session' = [user |-> d.key.user, secret |-> d.key.secret, nextCounter |-> 1,
                  key |-> d.key]
  BY <1>2, <1>3 DEF LogIn
<1>5. /\ pc = "waiting" /\ pending.kind = "AUTH" /\ UNCHANGED wireVars
      /\ pc' = "command" /\ pending' = NoRequest /\ printed'.msg = "Authorized"
  BY DEF LogIn, Done, Line
<1>6. dispensed' = dispensed
  BY <1>5 DEF Pay
<1>. QED
  BY <1>1, <1>3, <1>4, <1>5, <1>6 DEF LogsIn

LEMMA CommandAnswered ==
  ASSUME SessionInv, PhaseInv, Pay, NEW d \in net,
         ShowBalance(d) \/ DispenseCash(d) \/ ShowInsufficient(d)
  PROVE  Counts(d)
<1>1. /\ UNCHANGED wireVars /\ pc = "waiting" /\ pending.kind \in {"BALANCE", "WITHDRAW"}
      /\ d.key = session.key /\ d.counter = session.nextCounter
      /\ d.kind \in ReplyKinds
      /\ pc' = "command" /\ pending' = NoRequest /\ Counted
  BY DEF ShowBalance, DispenseCash, ShowInsufficient, Answers, Done, ReplyKinds
<1>2. /\ session'.user = session.user /\ session'.secret = session.secret
      /\ session'.key = session.key /\ session'.nextCounter = session.nextCounter + 1
  <2>1. session' = [user |-> session.user, secret |-> session.secret, key |-> session.key,
                    nextCounter |-> session.nextCounter + 1]
    BY <1>1 DEF Counted, SessionInv, SessionShape
  <2>. QED
    BY <2>1
<1>3. /\ printed'.msg = "balance" =>
           pending.kind = "BALANCE" /\ d.kind = "BALANCE_IS" /\ printed'.amount = d.amount
      /\ printed'.msg = "dispensed" =>
           pending.kind = "WITHDRAW" /\ d.kind = "DISPENSE" /\ printed'.amount = d.amount
  <2>1. CASE ShowBalance(d)
    BY <2>1, LineParts DEF ShowBalance, Answers, Done
  <2>2. CASE DispenseCash(d)
    BY <2>2, LineParts DEF DispenseCash, Answers, Done
  <2>3. CASE ShowInsufficient(d)
    BY <2>3, LineParts DEF ShowInsufficient, Done
  <2>. QED
    BY <2>1, <2>2, <2>3
<1>4. IF printed'.msg = "dispensed"
        THEN dispensed' = Append(dispensed, Withdrawal(session.key, session.nextCounter,
                                                       session.user, session.secret, d.amount))
        ELSE dispensed' = dispensed
  <2>1. pending.key = session.key /\ pending.counter = session.nextCounter
    BY <1>1 DEF PhaseInv, CommandKinds
  <2>. QED
    BY <1>1, <1>3, <2>1 DEF Pay
<1>5. d \in Replies /\ pending.kind \in CommandKinds
  BY <1>1 DEF Replies, CommandKinds
<1>. QED
  BY <1>1, <1>2, <1>3, <1>4, <1>5 DEF Counts

LEMMA SessionLeft ==
  ASSUME PhaseInv, Pay,
         AbandonLogin \/ LogOut \/ Fail \/ AtmRestart \/ \E d \in net : NoSuchUser(d)
  PROVE  Leaves
<1>1. UNCHANGED wireVars /\ pc' = "command" /\ pending' = NoRequest
  BY DEF AbandonLogin, LogOut, Fail, AtmRestart, NoSuchUser, Done
<1>2. session' = NoSession
  <2>1. CASE AbandonLogin \/ \E d \in net : NoSuchUser(d)
    <3>1. ~loggedIn /\ session' = session
      BY <2>1 DEF AbandonLogin, NoSuchUser, PhaseInv
    <3>. QED
      BY <3>1 DEF PhaseInv
  <2>2. CASE LogOut \/ Fail \/ AtmRestart
    BY <2>2 DEF LogOut, Fail, AtmRestart
  <2>. QED
    BY <2>1, <2>2
<1>3. printed'.msg \notin {"balance", "dispensed"}
  <2>1. CASE Fail
    <3>1. pending.kind \in {"EXISTS", "AUTH", "BALANCE", "WITHDRAW"}
      BY <2>1 DEF Fail, PhaseInv, CommandKinds
    <3>2. FailureText \in {"Not authorized", "Insufficient funds", "No user logged in"}
      BY <3>1 DEF FailureText
    <3>3. printed'.msg = FailureText
      BY <2>1 DEF Fail, Done, Line
    <3>. QED
      BY <3>2, <3>3
  <2>2. CASE AbandonLogin
    BY <2>2, LineParts DEF AbandonLogin, Done
  <2>3. CASE LogOut \/ AtmRestart \/ \E d \in net : NoSuchUser(d)
    <3>1. \E m \in {"User logged out", "", "No such user"} : printed' = Line(m, 0)
      BY <2>3 DEF LogOut, AtmRestart, NoSuchUser, Done, Blank
    <3>. QED
      BY <3>1, LineParts
  <2>. QED
    BY <2>1, <2>2, <2>3
<1>4. dispensed' = dispensed
  BY <1>3 DEF Pay
<1>. QED
  BY <1>1, <1>2, <1>3, <1>4 DEF Leaves

LEMMA AtmSteps ==
  ASSUME SessionInv, KeysInv, PhaseInv, AtmStep, Pay
  PROVE  AsksLogin \/ AsksCommand \/ LogsIn \/ (\E d : Counts(d)) \/ Leaves \/ Proceeds
<1>1. ASSUME NEW d \in net, UserExists(d)
      PROVE  Proceeds
  <2>1. printed'.msg # "dispensed"
    <3>1. printed' = Blank
      BY <1>1 DEF UserExists, PhaseInv
    <3>. QED
      BY <3>1 DEF Blank, Line
  <2>. QED
    BY <1>1, <2>1 DEF UserExists, Proceeds, Pay
<1>2. CASE Command
  BY <1>2, LoginAsked, CommandAsked, SessionLeft DEF Command
<1>3. CASE Read
  BY <1>1, <1>3, LoginGranted, CommandAnswered, SessionLeft DEF Read
<1>4. CASE LogOut \/ Fail \/ AtmRestart
  BY <1>4, SessionLeft
<1>. QED
  BY <1>2, <1>3, <1>4 DEF AtmStep

-----------------------------------------------------------------------------
(* The ATM's steps keep the invariant.                                     *)

\* A balance is shown only as one of those witnessed.
LEMMA AtmWatched ==
  ASSUME BalanceWasCurrent, Watch, pending'.kind # "BALANCE",
         printed'.msg = "balance" => \/ printed' = printed
                                     \/ printed'.amount \in witnessed
  PROVE  BalancesWitnessed' /\ BalanceWasCurrent'
BY DEF BalanceWasCurrent, BalancesWitnessed, Watch

LEMMA Asked == Blank.msg # "balance" /\ NoRequest.kind = "NONE"
<1>1. Blank.msg = ""
  BY LineParts DEF Blank
<1>2. NoRequest.kind = "NONE"
  BY DEF NoRequest
<1>. QED
  BY <1>1, <1>2

LEMMA LoggedOut ==
  ASSUME session' = NoSession
  PROVE  ~loggedIn' /\ session'.nextCounter = 1
BY DEF NoSession, loggedIn

\* The bank's parts of the invariant, when only the ATM moves.
LEMMA AtmKeepsBank ==
  ASSUME Inv, SystemInv, UNCHANGED <<bankState, serverNonces>>, Requests \subseteq Requests',
         Replies' = Replies, GrantedKeys' = GrantedKeys,
         clientNonces' = clientNonces \/ clientNonces' = clientNonces + 1,
         \A d \in net' : d.kind = "AUTH" => d.nonce <= clientNonces'
  PROVE  KeysInv' /\ AnswersInv' /\ DebitsInv'
<1>1. UNCHANGED <<accounts, debits, ActiveUsers, serverNonces>>
  BY DEF bankState, ActiveUsers
<1>2. KeysInv'
  <2>1. ASSUME NEW k \in GrantedKeys
        PROVE  k.client <= clientNonces'
    <3>1. k.client \in Nat /\ clientNonces \in Nat /\ k.client <= clientNonces
      BY DEF SystemInv, KeysInv, Key, Inv, AccountsType
    <3>. QED
      BY <3>1
  <2>. QED
    BY <1>1, <2>1 DEF SystemInv, KeysInv
<1>3. AnswersInv'
  BY <1>1 DEF SystemInv, AnswersInv
<1>4. DebitsInv'
  BY <1>1 DEF SystemInv, DebitsInv
<1>. QED
  BY <1>2, <1>3, <1>4

LEMMA AsksLoginKeeps ==
  ASSUME Inv, SystemInv, AsksLogin, UNCHANGED <<bankState, serverNonces>>, Watch
  PROVE  SystemInv'
<1>1. /\ UNCHANGED <<Requests, Replies, GrantedKeys, session, dispensed, loggedIn>>
      /\ ~loggedIn /\ clientNonces' = clientNonces + 1 /\ clientNonces \in Nat
      /\ pending'.nonce = clientNonces' /\ pending'.kind \in {"EXISTS", "AUTH"}
      /\ pc' = "waiting" /\ printed' = Blank
  BY DEF AsksLogin, Inv, AccountsType, loggedIn
<1>2. KeysInv' /\ AnswersInv' /\ DebitsInv'
  <2>1. \A d \in net' : d.kind = "AUTH" => d.nonce <= clientNonces'
    <3>1. ASSUME NEW d \in net, d.kind = "AUTH"
          PROVE  d.nonce <= clientNonces'
      <4>1. d.nonce \in Nat /\ d.nonce <= clientNonces
        BY <3>1 DEF SystemInv, KeysInv, Inv, NetType
      <4>. QED
        BY <1>1, <4>1
    <3>. QED
      BY <1>1, <3>1 DEF AsksLogin
  <2>. QED
    BY <1>1, <2>1, AtmKeepsBank
<1>3. RequestsInv'
  <2>1. ASSUME NEW d \in Requests
        PROVE  d.key.client < clientNonces'
    <3>1. d.key.client \in Nat /\ d.key.client <= clientNonces
      BY DEF SystemInv, RequestsInv, KeysInv, Key
    <3>. QED
      BY <1>1, <3>1
  <2>. QED
    BY <1>1, <2>1 DEF SystemInv, RequestsInv
<1>4. PhaseInv'
  BY <1>1, Asked DEF SystemInv, PhaseInv, CommandKinds
<1>5. BankKeepsUp' /\ PaidInv'
  BY <1>1 DEF BankKeepsUp, SystemInv, PaidInv
<1>6. BalancesWitnessed' /\ BalanceWasCurrent'
  BY <1>1, Asked, AtmWatched DEF SystemInv
<1>. QED
  BY <1>2, <1>3, <1>4, <1>5, <1>6 DEF SystemInv

LEMMA AsksCommandKeeps ==
  ASSUME Inv, SessionInv, SystemInv, AsksCommand, UNCHANGED <<bankState, serverNonces>>, Watch
  PROVE  SystemInv'
<1>1. /\ UNCHANGED <<Replies, GrantedKeys, session, dispensed, loggedIn, clientNonces>>
      /\ Requests' = Requests \cup {pending'}
      /\ loggedIn /\ pc = "command" /\ pc' = "waiting" /\ printed' = Blank
      /\ pending'.kind \in CommandKinds /\ pending'.kind # "AUTH" /\ pending' \in net'
      /\ pending'.key = session.key /\ pending'.counter = session.nextCounter
      /\ session.key \in GrantedKeys /\ session.nextCounter \in 1 .. MaxCounter
  <2>1. session.nextCounter \in 1 .. MaxCounter /\ session.key \in GrantedKeys
    BY SessionWireAssumption
    DEF AsksCommand, SystemInv, PhaseInv, SessionInv, SessionShape
  <2>. QED
    BY <2>1 DEF AsksCommand, loggedIn, CommandKinds
<1>2. KeysInv' /\ AnswersInv' /\ DebitsInv'
  <2>1. \A d \in net' : d.kind = "AUTH" => d.nonce <= clientNonces'
    BY DEF AsksCommand, SystemInv, KeysInv
  <2>. QED
    BY <1>1, <2>1, AtmKeepsBank
<1>3. \A d \in Requests : d.key = session.key => d.counter < session.nextCounter
  BY <1>1 DEF SystemInv, RequestsInv
<1>4. RequestsInv'
  <2>1. \A d \in Requests :
          /\ d.key \in GrantedKeys /\ d.counter \in 1 .. MaxCounter
          /\ d.kind = "WITHDRAW" => d.amount \in Amount
    BY DEF SystemInv, RequestsInv
  <2>2. \A d \in Requests : d.key # pending'.key \/ d.counter # pending'.counter
    BY <1>1, <1>3, <2>1
  <2>3. \A d, e \in Requests : d.key = e.key /\ d.counter = e.counter => d = e
    BY DEF SystemInv, RequestsInv
  <2>4. pending'.kind = "WITHDRAW" => pending'.amount \in Amount
    BY DEF AsksCommand
  <2>. QED
    BY <1>1, <1>3, <2>1, <2>2, <2>3, <2>4 DEF RequestsInv
<1>5. PhaseInv'
  <2>1. pending' # NoRequest
    BY <1>1, Asked DEF CommandKinds
  <2>. QED
    BY <1>1, <2>1 DEF SystemInv, PhaseInv, CommandKinds
<1>6. BankKeepsUp' /\ PaidInv'
  BY <1>1 DEF BankKeepsUp, SystemInv, PaidInv, bankState, ActiveUsers
<1>7. BalancesWitnessed'
  <2>1. ASSUME NEW d \in Replies, d.key = session.key
        PROVE  d.counter # session.nextCounter
    <3>1. PICK e \in Requests : e.key = d.key /\ e.counter = d.counter
      BY DEF SystemInv, AnswersInv
    <3>2. e.counter \in 1 .. MaxCounter
      BY DEF SystemInv, RequestsInv
    <3>. QED
      BY <1>1, <1>3, <2>1, <3>1, <3>2
  <2>. QED
    BY <1>1, <2>1 DEF BalancesWitnessed
<1>8. BalanceWasCurrent'
  BY <1>1, Asked DEF BalanceWasCurrent
<1>. QED
  BY <1>2, <1>4, <1>5, <1>6, <1>7, <1>8 DEF SystemInv

LEMMA LogsInKeeps ==
  ASSUME Inv, SystemInv, LogsIn, UNCHANGED bankState, Watch
  PROVE  SystemInv'
<1>1. PICK k \in GrantedKeys :
        /\ k.client = pending.nonce
        /\ session' = [user |-> k.user, secret |-> k.secret, nextCounter |-> 1, key |-> k]
  BY DEF LogsIn
<1>2. /\ session'.user = k.user /\ session'.secret = k.secret /\ session'.key = k
      /\ session'.nextCounter = 1
  BY <1>1
<1>3. /\ UNCHANGED <<net, Requests, Replies, GrantedKeys, clientNonces, serverNonces, dispensed>>
      /\ pc = "waiting" /\ pending.kind = "AUTH" /\ pending.nonce = clientNonces
      /\ pc' = "command" /\ pending' = NoRequest /\ printed'.msg = "Authorized"
  BY NothingSent DEF LogsIn, wireVars, SystemInv, PhaseInv
<1>4. k \in Key /\ k.client = clientNonces /\ loggedIn'
  <2>1. k \in Key
    BY DEF SystemInv, KeysInv
  <2>. QED
    BY <1>1, <1>2, <1>3, <2>1, SessionAtmAssumption DEF Key, loggedIn
<1>5. ASSUME NEW e \in Requests
      PROVE  e.key \in GrantedKeys /\ e.key # k
  <2>1. e.key \in GrantedKeys /\ e.key.client < pending.nonce
    BY <1>3 DEF SystemInv, RequestsInv
  <2>2. k.client \in Nat
    BY <1>4 DEF Key
  <2>. QED
    BY <1>1, <2>1, <2>2
<1>6. KeysInv' /\ AnswersInv' /\ DebitsInv'
  <2>1. \A d \in net' : d.kind = "AUTH" => d.nonce <= clientNonces'
    BY <1>3 DEF SystemInv, KeysInv
  <2>. QED
    BY <1>3, <2>1, AtmKeepsBank
<1>7. RequestsInv'
  BY <1>2, <1>3, <1>5 DEF SystemInv, RequestsInv
<1>8. PhaseInv'
  BY <1>2, <1>3, <1>4, Asked DEF PhaseInv, CommandKinds
<1>9. BankKeepsUp'
  <2>1. ASSUME NEW u \in ActiveUsers'
        PROVE  accounts'[u].lastCounter >= 1 - 1
    <3>1. accounts[u] \in Account /\ accounts' = accounts
      BY DEF bankState, ActiveUsers, Inv, AccountsType
    <3>. QED
      BY <3>1 DEF Account
  <2>. QED
    BY <1>2, <2>1 DEF BankKeepsUp
<1>10. PaidInv'
  <2>1. ASSUME NEW i \in DOMAIN dispensed
        PROVE  /\ \E e \in Requests : dispensed[i].id = <<e.key.server, e.counter>>
               /\ dispensed[i].id[1] # k.server
    <3>1. PICK e \in Requests : dispensed[i].id = <<e.key.server, e.counter>>
      BY DEF SystemInv, PaidInv
    <3>2. e.key.server # k.server
      BY <1>5 DEF SystemInv, KeysInv
    <3>. QED
      BY <3>1, <3>2
  <2>. QED
    BY <1>2, <1>3, <2>1 DEF SystemInv, PaidInv
<1>11. BalancesWitnessed' /\ BalanceWasCurrent'
  BY <1>3, Asked, AtmWatched DEF SystemInv
<1>. QED
  BY <1>6, <1>7, <1>8, <1>9, <1>10, <1>11 DEF SystemInv

LEMMA LeavesKeeps ==
  ASSUME Inv, SystemInv, Leaves, UNCHANGED bankState, Watch
  PROVE  SystemInv'
<1>1. /\ UNCHANGED <<net, Requests, Replies, GrantedKeys, clientNonces, serverNonces, dispensed>>
      /\ session' = NoSession /\ ~loggedIn' /\ session'.nextCounter = 1
      /\ pc' = "command" /\ pending' = NoRequest /\ printed'.msg # "balance"
  BY NothingSent, LoggedOut DEF Leaves, wireVars
<1>2. KeysInv' /\ AnswersInv' /\ DebitsInv'
  <2>1. \A d \in net' : d.kind = "AUTH" => d.nonce <= clientNonces'
    BY <1>1 DEF SystemInv, KeysInv
  <2>. QED
    BY <1>1, <2>1, AtmKeepsBank
<1>3. RequestsInv'
  BY <1>1 DEF SystemInv, RequestsInv
<1>4. PhaseInv'
  BY <1>1, Asked DEF PhaseInv, CommandKinds
<1>5. BankKeepsUp' /\ PaidInv'
  BY <1>1 DEF BankKeepsUp, SystemInv, PaidInv
<1>6. BalancesWitnessed' /\ BalanceWasCurrent'
  BY <1>1, Asked, AtmWatched DEF SystemInv
<1>. QED
  BY <1>2, <1>3, <1>4, <1>5, <1>6 DEF SystemInv

LEMMA ProceedsKeeps ==
  ASSUME Inv, SystemInv, Proceeds, UNCHANGED bankState, Watch
  PROVE  SystemInv'
<1>1. /\ UNCHANGED <<net, Requests, Replies, GrantedKeys, clientNonces, serverNonces, dispensed>>
      /\ UNCHANGED <<session, pending, printed, loggedIn>>
      /\ pc = "waiting" /\ pc' = "pin" /\ pending.kind = "EXISTS"
  BY NothingSent DEF Proceeds, wireVars, loggedIn
<1>2. KeysInv' /\ AnswersInv' /\ DebitsInv'
  <2>1. \A d \in net' : d.kind = "AUTH" => d.nonce <= clientNonces'
    BY <1>1 DEF SystemInv, KeysInv
  <2>. QED
    BY <1>1, <2>1, AtmKeepsBank
<1>3. RequestsInv' /\ PhaseInv'
  <2>1. ~loggedIn
    BY <1>1 DEF SystemInv, PhaseInv
  <2>2. RequestsInv'
    BY <1>1, <2>1 DEF SystemInv, RequestsInv
  <2>3. PhaseInv'
    BY <1>1 DEF SystemInv, PhaseInv
  <2>. QED
    BY <2>2, <2>3
<1>4. BankKeepsUp' /\ PaidInv'
  BY <1>1 DEF BankKeepsUp, SystemInv, PaidInv, bankState, ActiveUsers
<1>5. BalancesWitnessed' /\ BalanceWasCurrent'
  BY <1>1, AtmWatched DEF SystemInv
<1>. QED
  BY <1>2, <1>3, <1>4, <1>5 DEF SystemInv

\* An answer to the command, and what it has the ATM pay.
LEMMA CountsKeeps ==
  ASSUME Inv, SessionInv, SystemInv, NEW d, Counts(d), UNCHANGED bankState, Watch
  PROVE  SystemInv'
<1>1. /\ UNCHANGED <<net, Requests, Replies, GrantedKeys, clientNonces, serverNonces>>
      /\ pc = "waiting" /\ pending.kind \in CommandKinds /\ loggedIn
      /\ pending \in Requests /\ pending.key = session.key
      /\ pending.counter = session.nextCounter
      /\ d \in Replies /\ d.key = session.key /\ d.counter = session.nextCounter
      /\ pc' = "command" /\ pending' = NoRequest
  BY NothingSent DEF Counts, wireVars, SystemInv, PhaseInv, Requests
<1>2. /\ session'.user = session.user /\ session'.secret = session.secret
      /\ session'.key = session.key /\ session'.nextCounter = session.nextCounter + 1
      /\ session.nextCounter \in Nat /\ session.nextCounter >= 1 /\ loggedIn'
  BY <1>1 DEF Counts, SessionInv, SessionShape, SystemInv, PhaseInv, loggedIn
<1>3. KeysInv' /\ AnswersInv' /\ DebitsInv'
  <2>1. \A e \in net' : e.kind = "AUTH" => e.nonce <= clientNonces'
    BY <1>1 DEF SystemInv, KeysInv
  <2>. QED
    BY <1>1, <2>1, AtmKeepsBank
<1>4. RequestsInv'
  <2>1. ASSUME NEW e \in Requests, e.key = session.key
        PROVE  e.counter < session.nextCounter + 1
    <3>1. e.counter \in 1 .. MaxCounter
      BY DEF SystemInv, RequestsInv
    <3>2. e.counter < session.nextCounter \/ e = pending
      BY <1>1, <2>1 DEF SystemInv, RequestsInv
    <3>. QED
      BY <1>1, <1>2, <3>1, <3>2
  <2>. QED
    BY <1>1, <1>2, <2>1, Asked DEF SystemInv, RequestsInv
<1>5. PhaseInv'
  <2>1. session'.nextCounter >= 1
    BY <1>2
  <2>. QED
    BY <1>1, <1>2, <2>1, Asked DEF SystemInv, PhaseInv, CommandKinds
<1>6. BankKeepsUp'
  <2>1. ASSUME NEW u \in ActiveUsers', accounts'[u].key = session.key
        PROVE  accounts'[u].lastCounter >= session.nextCounter + 1 - 1
    <3>1. /\ accounts' = accounts /\ u \in ActiveUsers
          /\ accounts[u].lastCounter \in Nat
      BY DEF bankState, ActiveUsers, Inv, AccountsType, Account
    <3>2. d.counter <= accounts[u].lastCounter
      BY <1>1, <2>1, <3>1 DEF SystemInv, AnswersInv
    <3>. QED
      BY <1>1, <1>2, <3>1, <3>2
  <2>. QED
    BY <1>2, <2>1 DEF BankKeepsUp
<1>7. BalancesWitnessed' /\ BalanceWasCurrent'
  <2>1. printed'.msg = "balance" => printed'.amount \in witnessed
    BY <1>1 DEF Counts, SystemInv, BalancesWitnessed
  <2>. QED
    BY <1>1, <2>1, Asked, AtmWatched DEF SystemInv
<1>8. PaidInv'
  <2>1. \A i \in DOMAIN dispensed :
          /\ \E e \in Requests : dispensed[i].id = <<e.key.server, e.counter>>
          /\ dispensed[i].id[1] = session.key.server =>
               dispensed[i].id[2] < session.nextCounter + 1
    <3>1. ASSUME NEW i \in DOMAIN dispensed
          PROVE  /\ \E e \in Requests : dispensed[i].id = <<e.key.server, e.counter>>
                 /\ dispensed[i].id[1] = session.key.server =>
                      dispensed[i].id[2] < session.nextCounter + 1
      <4>1. PICK e \in Requests : dispensed[i].id = <<e.key.server, e.counter>>
        BY DEF SystemInv, PaidInv
      <4>2. e.counter \in 1 .. MaxCounter
        BY DEF SystemInv, RequestsInv
      <4>3. dispensed[i].id[1] = session.key.server =>
              dispensed[i].id[2] < session.nextCounter
        BY <1>1 DEF SystemInv, PaidInv
      <4>. QED
        BY <1>2, <4>1, <4>2, <4>3
    <3>. QED
      BY <3>1
  <2>2. CASE dispensed' = dispensed
    BY <1>1, <1>2, <2>1, <2>2 DEF PaidInv, SystemInv
  <2>3. CASE dispensed' # dispensed
    <3>. DEFINE w == Withdrawal(session.key, session.nextCounter,
                                session.user, session.secret, d.amount)
    <3>1. dispensed' = Append(dispensed, w) /\ d.kind = "DISPENSE"
      BY <2>3 DEF Counts
    <3>2. w.id = <<session.key.server, session.nextCounter>> /\ w \in PaidRecord
      <4>1. session.key \in Key /\ session.key.server \in 1 .. serverNonces
        BY <1>1 DEF SystemInv, PhaseInv, KeysInv
      <4>2. session.key.server \in 1 .. MaxSessions
        <5>1. serverNonces \in Nat /\ serverNonces <= MaxSessions
          BY DEF Inv, AccountsType, SystemInv, KeysInv
        <5>. QED
          BY <4>1, <5>1, SessionWireAssumption
      <4>3. session.user \in Name /\ session.secret \in Secret
        BY <1>1, <4>1 DEF SystemInv, PhaseInv, Key
      <4>4. session.nextCounter \in 1 .. MaxCounter
        BY <1>1 DEF SystemInv, RequestsInv
      <4>5. d.amount \in Amount
        <5>1. PICK e \in Requests : e.kind = "WITHDRAW" /\ e.amount = d.amount
          BY <1>1, <3>1 DEF SystemInv, AnswersInv
        <5>. QED
          BY <5>1 DEF SystemInv, RequestsInv
      <4>. QED
        BY <4>2, <4>3, <4>4, <4>5 DEF Withdrawal, PaidRecord
    <3>3. /\ pending.key.server = session.key.server
          /\ pending.counter = session.nextCounter
      BY <1>1
    <3>. HIDE DEF w
    <3>4. dispensed \in Seq(PaidRecord)
      BY DEF SystemInv, PaidInv
    <3>5. /\ dispensed' \in Seq(PaidRecord)
          /\ \A i \in DOMAIN dispensed' :
               (i \in DOMAIN dispensed /\ dispensed'[i] = dispensed[i]) \/ dispensed'[i] = w
      BY <3>1, <3>2, <3>4
    <3>6. /\ \E e \in Requests : w.id = <<e.key.server, e.counter>>
          /\ w.id[2] < session.nextCounter + 1
      <4>1. w.id = <<pending.key.server, pending.counter>>
        BY <3>2, <3>3
      <4>2. w.id[2] = session.nextCounter
        BY <3>2
      <4>. QED
        BY <1>1, <1>2, <4>1, <4>2
    <3>. QED
      BY <1>1, <1>2, <2>1, <3>5, <3>6 DEF PaidInv
  <2>. QED
    BY <2>2, <2>3
<1>. QED
  BY <1>3, <1>4, <1>5, <1>6, <1>7, <1>8 DEF SystemInv

-----------------------------------------------------------------------------
(* Theorems.                                                               *)

LEMMA SystemInit == Init => SystemInv
<1>. SUFFICES ASSUME Init PROVE SystemInv
  OBVIOUS
<1>1. /\ net = {} /\ clientNonces = 0 /\ serverNonces = 0
      /\ DOMAIN accounts = {} /\ debits = <<>> /\ dispensed = <<>>
      /\ pc = "command" /\ pending = NoRequest /\ session = NoSession /\ printed = Blank
  BY DEF Init, WireInit, BankInit, AtmInit
<1>2. Requests = {} /\ Replies = {} /\ GrantedKeys = {} /\ ActiveUsers = {}
  BY <1>1 DEF Requests, Replies, GrantedKeys, ActiveUsers
<1>3. ~loggedIn /\ session.nextCounter = 1
  BY <1>1 DEF NoSession, loggedIn
<1>4. KeysInv
  BY <1>1, <1>2, SessionWireAssumption DEF KeysInv
<1>5. RequestsInv /\ AnswersInv /\ BankKeepsUp
  BY <1>2 DEF RequestsInv, AnswersInv, BankKeepsUp
<1>6. DebitsInv
  BY <1>1, <1>2 DEF DebitsInv
<1>7. PhaseInv
  BY <1>1, <1>3, Asked DEF PhaseInv, CommandKinds
<1>8. PaidInv
  BY <1>1 DEF PaidInv
<1>9. BalancesWitnessed /\ BalanceWasCurrent
  BY <1>1, Asked DEF BalancesWitnessed, BalanceWasCurrent
<1>. QED
  BY <1>4, <1>5, <1>6, <1>7, <1>8, <1>9 DEF SystemInv

LEMMA BankStepKeeps ==
  ASSUME Inv, SessionInv, SystemInv, BankStep, UNCHANGED <<atmState, dispensed>>, Watch
  PROVE  SystemInv'
BY BankSteps, ForgetsKeeps, GrantsKeeps, AcceptsKeeps DEF SystemInv

LEMMA AtmStepKeeps ==
  ASSUME Inv, SessionInv, SystemInv, AtmStep, UNCHANGED bankState, Watch, Pay
  PROVE  SystemInv'
<1>1. serverNonces' = serverNonces
  BY DEF AtmStep, Command, BeginSession, EnterPin, AbandonLogin, Balance, WithdrawCash,
         EndSession, SessionRequest, Read, UserExists, NoSuchUser, LogIn, ShowBalance,
         DispenseCash, ShowInsufficient, LogOut, Fail, AtmRestart, wireVars
<1>. QED
  BY <1>1, AtmSteps, AsksLoginKeeps, AsksCommandKeeps, LogsInKeeps, CountsKeeps, LeavesKeeps,
     ProceedsKeeps
  DEF SystemInv

LEMMA StutterKeeps ==
  ASSUME SystemInv, UNCHANGED vars
  PROVE  SystemInv'
<1>1. /\ UNCHANGED <<net, clientNonces, serverNonces, accounts, debits, dispensed, witnessed>>
      /\ UNCHANGED <<pc, pending, session, printed>>
  BY DEF vars, wireVars, bankState, atmState
<1>2. UNCHANGED <<Requests, Replies, GrantedKeys, ActiveUsers, loggedIn>>
  BY <1>1, NothingSent DEF ActiveUsers, loggedIn
<1>. QED
  BY <1>1, <1>2
  DEF SystemInv, KeysInv, RequestsInv, AnswersInv, DebitsInv, PhaseInv, BankKeepsUp,
      BalancesWitnessed, BalanceWasCurrent, PaidInv

LEMMA SystemInvHolds == Spec => [](Inv /\ SessionInv /\ SystemInv)
<1>1. Inv /\ SessionInv /\ SystemInv /\ [Next]_vars => SystemInv'
  BY BankStepKeeps, AtmStepKeeps, StutterKeeps DEF Next
<1>. QED
  BY <1>1, SystemInit, Invariance, PTL DEF Spec

\* Balances never leave 0 .. INT_MAX, a key is held exactly while its session is
\* active, and the ATM forgets a session as a whole.
THEOREM SessionTypesHold == Spec => []SessionTypeOK
<1>1. Inv /\ SystemInv => SessionTypeOK
  <2>. SUFFICES ASSUME Inv, SystemInv PROVE SessionTypeOK
    OBVIOUS
  <2>1. ASSUME NEW u \in DOMAIN accounts
        PROVE  /\ accounts[u].balance \in Amount
               /\ accounts[u].active <=> accounts[u].key # NoKey
    <3>1. accounts[u].balance \in Amount /\ accounts[u].active \in BOOLEAN
      BY DEF Inv, AccountsType, Account
    <3>2. CASE accounts[u].active
      <4>1. accounts[u].key \in Key
        BY <3>2 DEF SystemInv, KeysInv
      <4>. QED
        BY <3>1, <3>2, <4>1, SessionBankAssumption DEF Key
    <3>3. CASE ~accounts[u].active
      BY <3>1, <3>3 DEF SystemInv, KeysInv
    <3>. QED
      BY <3>2, <3>3
  <2>2. (~loggedIn => session = NoSession) /\ (pc = "command" <=> pending = NoRequest)
    BY DEF SystemInv, PhaseInv
  <2>. QED
    BY <2>1, <2>2 DEF SessionTypeOK
<1>. QED
  BY <1>1, SystemInvHolds, PTL

\* The bank refuses no honest request of the session for its counter, and no answer
\* is taken for that of another request, whatever was lost or repeated before.
THEOREM CountersStayInStep == Spec => []CountersAgree
<1>1. Inv /\ SessionInv /\ SystemInv => CountersAgree
  <2>. SUFFICES ASSUME Inv, SessionInv, SystemInv, NEW u \in ActiveUsers, loggedIn,
                       accounts[u].key = session.key
                PROVE  /\ u = session.user
                       /\ accounts[u].lastCounter \in
                            {session.nextCounter - 1, session.nextCounter}
                       /\ accounts[u].lastCounter = session.nextCounter =>
                            pc = "waiting" /\ pending.counter = session.nextCounter
    BY DEF CountersAgree
  <2>1. u = session.user
    BY DEF SystemInv, KeysInv, PhaseInv, ActiveUsers
  <2>2. /\ accounts[u].lastCounter \in Nat /\ session.nextCounter \in Nat
        /\ session.nextCounter >= 1 /\ accounts[u].lastCounter >= session.nextCounter - 1
    BY DEF ActiveUsers, Inv, AccountsType, Account, SessionInv, SessionShape, SystemInv,
           PhaseInv, BankKeepsUp
  <2>3. CASE accounts[u].lastCounter = 0
    BY <2>1, <2>2, <2>3
  <2>4. CASE accounts[u].lastCounter # 0
    <3>1. PICK e \in Requests : /\ e.key = accounts[u].key
                                /\ e.counter = accounts[u].lastCounter
      BY <2>4 DEF SystemInv, AnswersInv
    <3>2. e.counter < session.nextCounter \/ (pc = "waiting" /\ e = pending)
      BY <3>1 DEF SystemInv, RequestsInv
    <3>3. pc = "waiting" /\ e = pending => pending.counter = session.nextCounter
      BY DEF SystemInv, PhaseInv, Requests
    <3>. QED
      BY <2>1, <2>2, <3>1, <3>2, <3>3
  <2>. QED
    BY <2>3, <2>4
<1>. QED
  BY <1>1, SystemInvHolds, PTL

\* A balance shown is one the account had between the question and the answer.
THEOREM BalancesWereCurrent == Spec => []BalanceWasCurrent
BY SystemInvHolds, PTL DEF SystemInv

\* The answer to a request carries the amount of that request: there is no other
\* request under its key and counter.
LEMMA AnswerMatches ==
  ASSUME SystemInv, NEW d, Counts(d), d.kind = "DISPENSE"
  PROVE  /\ pending \in Requests /\ pending.amount = d.amount
         /\ loggedIn /\ pending.key = session.key /\ pending.counter = session.nextCounter
<1>1. /\ loggedIn /\ pending \in Requests
      /\ pending.key = session.key /\ pending.counter = session.nextCounter
  BY DEF Counts, SystemInv, PhaseInv, Requests
<1>2. PICK e \in Requests : e.key = d.key /\ e.counter = d.counter /\ e.amount = d.amount
  BY DEF Counts, SystemInv, AnswersInv
<1>3. e = pending
  BY <1>1, <1>2 DEF Counts, SystemInv, RequestsInv
<1>. QED
  BY <1>1, <1>2, <1>3

\* The ATM never compares the amount it pays with the amount asked for, and need not.
THEOREM CashIsPaidAsAsked == Spec => PaidAsAsked
<1>1. ASSUME Inv, SessionInv, SystemInv, [Next]_vars, pc = "waiting", printed'.msg = "dispensed"
      PROVE  printed'.amount = pending.amount
  <2>1. printed' # printed
    <3>1. printed = Blank
      BY <1>1 DEF SystemInv, PhaseInv
    <3>2. Blank.msg # "dispensed"
      <4>1. Blank.msg = ""
        BY LineParts DEF Blank
      <4>. QED
        BY <4>1
    <3>. QED
      BY <1>1, <3>1, <3>2
  <2>2. AtmStep /\ Pay
    BY <1>1, <2>1 DEF Next, vars, atmState
  <2>3. ASSUME NEW d, Counts(d)
        PROVE  printed'.amount = pending.amount
    <3>1. d.kind = "DISPENSE" /\ printed'.amount = d.amount
      BY <1>1, <2>3 DEF Counts
    <3>. QED
      BY <1>1, <2>3, <3>1, AnswerMatches
  <2>4. ~Proceeds /\ ~Leaves
    BY <1>1, <2>1 DEF Proceeds, Leaves
  <2>5. ~AsksLogin /\ ~AsksCommand /\ ~LogsIn
    <3>1. printed' # Blank
      BY <1>1, <2>1 DEF SystemInv, PhaseInv
    <3>. QED
      BY <1>1, <3>1 DEF AsksLogin, AsksCommand, LogsIn
  <2>. QED
    BY <1>1, <2>2, <2>3, <2>4, <2>5, AtmSteps DEF SystemInv
<1>2. Inv /\ SessionInv /\ SystemInv /\ [Next]_vars
        => [pc = "waiting" /\ printed'.msg = "dispensed" => printed'.amount = pending.amount]_vars
  BY <1>1
<1>. QED
  BY <1>2, SystemInvHolds, PTL DEF Spec, PaidAsAsked

-----------------------------------------------------------------------------
(* The promise of Teller.                                                  *)

\* An account shows its balance under its name and secret, and nothing else does.
LEMMA Shown ==
  ASSUME Inv
  PROVE  /\ \A u \in DOMAIN accounts :
              /\ <<u, accounts[u].secret>> \in AccountId
              /\ Balances[<<u, accounts[u].secret>>] = accounts[u].balance
              /\ accounts[u].balance \in Amount
         /\ \A u \in Name, s \in Secret :
              (u \in DOMAIN accounts => accounts[u].secret # s) => Balances[<<u, s>>] = Closed
<1>1. \A u \in DOMAIN accounts : u \in Name /\ accounts[u] \in Account
  BY DEF Inv, AccountsType
<1>2. \A u \in DOMAIN accounts : accounts[u].secret \in Secret /\ accounts[u].balance \in Amount
  BY <1>1 DEF Account
<1>. QED
  BY <1>1, <1>2 DEF Balances, AccountId, Known

LEMMA ShownNext ==
  ASSUME Inv'
  PROVE  /\ \A u \in DOMAIN accounts' :
              /\ <<u, accounts'[u].secret>> \in AccountId
              /\ Balances'[<<u, accounts'[u].secret>>] = accounts'[u].balance
              /\ accounts'[u].balance \in Amount
         /\ \A u \in Name, s \in Secret :
              (u \in DOMAIN accounts' => accounts'[u].secret # s) => Balances'[<<u, s>>] = Closed
<1>1. \A u \in DOMAIN accounts' : u \in Name /\ accounts'[u] \in Account
  BY DEF Inv, AccountsType
<1>2. \A u \in DOMAIN accounts' :
        accounts'[u].secret \in Secret /\ accounts'[u].balance \in Amount
  BY <1>1 DEF Account
<1>. QED
  BY <1>1, <1>2 DEF Balances, AccountId, Known

\* A step that changes at most the balance of one account changes at most what its
\* name and secret show.
LEMMA OneBalance ==
  ASSUME Inv, Inv', NEW u \in DOMAIN accounts, DOMAIN accounts' = DOMAIN accounts,
         accounts'[u].secret = accounts[u].secret,
         \A v \in DOMAIN accounts : v # u => /\ accounts'[v].secret = accounts[v].secret
                                             /\ accounts'[v].balance = accounts[v].balance
  PROVE  /\ Balances' = [Balances EXCEPT ![<<u, accounts[u].secret>>] = accounts'[u].balance]
         /\ accounts'[u].balance = accounts[u].balance => Balances' = Balances
<1>1. <<u, accounts[u].secret>> \in AccountId
  BY Shown
<1>2. \A v \in DOMAIN accounts : accounts'[v].secret = accounts[v].secret
  OBVIOUS
<1>3. \A id \in AccountId : Balances'[id] =
        IF id = <<u, accounts[u].secret>> THEN accounts'[u].balance ELSE Balances[id]
  BY <1>2 DEF Balances, AccountId, Known
<1>4. /\ Balances = [id \in AccountId |-> Balances[id]]
      /\ Balances' = [id \in AccountId |-> Balances'[id]]
  BY DEF Balances
<1>5. Balances[<<u, accounts[u].secret>>] = accounts[u].balance
  BY Shown
<1>. QED
  BY <1>1, <1>3, <1>4, <1>5

\* Steps that show nothing.
LEMMA Unseen ==
  ASSUME Balances' = Balances, UNCHANGED <<opened, debits, dispensed>>
  PROVE  UNCHANGED Promise!vars
BY DEF Promise!vars, Debited

\* create-user opens an account that was never open.
LEMMA CreateIsOpen ==
  ASSUME Inv, Inv', NEW u \in Name, NEW p \in Pin, NEW s \in Secret, NEW b \in Amount,
         CreateUser(u, p, s, b), UNCHANGED dispensed
  PROVE  Promise!Open(<<u, s>>, b)
<1>1. /\ u \notin DOMAIN accounts
      /\ DOMAIN accounts' = DOMAIN accounts \cup {u}
      /\ accounts'[u].secret = s /\ accounts'[u].balance = b
      /\ \A v \in DOMAIN accounts : accounts'[v] = accounts[v]
  BY DEF CreateUser, With, Known, NewAccount
<1>2. /\ opened' = opened \cup {[name |-> u, pin |-> p, secret |-> s]}
      /\ \A a \in opened : a.secret # s /\ debits' = debits
  BY DEF CreateUser, FreshSecret
<1>3. Balances[<<u, s>>] = Closed /\ <<u, s>> \notin {<<a.name, a.secret>> : a \in opened}
  BY <1>1, <1>2, Shown
<1>4. Balances' = [Balances EXCEPT ![<<u, s>>] = b]
  <2>1. ASSUME NEW id \in AccountId
        PROVE  Balances'[id] = IF id = <<u, s>> THEN b ELSE Balances[id]
    BY <1>1 DEF Balances, AccountId, Known
  <2>2. /\ Balances = [id \in AccountId |-> Balances[id]]
        /\ Balances' = [id \in AccountId |-> Balances'[id]]
    BY DEF Balances
  <2>3. <<u, s>> \in AccountId
    BY DEF AccountId
  <2>. QED
    BY <2>1, <2>2, <2>3
<1>5. {<<a.name, a.secret>> : a \in opened'} = {<<a.name, a.secret>> : a \in opened} \cup {<<u, s>>}
  <2>. DEFINE n == [name |-> u, pin |-> p, secret |-> s]
  <2>1. n.name = u /\ n.secret = s /\ opened' = opened \cup {n}
    BY <1>2
  <2>. HIDE DEF n
  <2>. QED
    BY <2>1
<1>6. Debited' = Debited
  <2>1. debits' = debits
    BY DEF CreateUser
  <2>. QED
    BY <2>1 DEF Debited
<1>. QED
  BY <1>3, <1>4, <1>5, <1>6 DEF Promise!Open

LEMMA DepositIsDeposit ==
  ASSUME Inv, Inv', NEW u \in Name, NEW amount \in Amount, Deposit(u, amount),
         UNCHANGED dispensed
  PROVE  \E id \in AccountId : Promise!Deposit(id, amount)
<1>. DEFINE id == <<u, accounts[u].secret>>
<1>1. /\ u \in DOMAIN accounts /\ accounts[u] \in Account
      /\ accounts[u].balance <= IntMax - amount
      /\ accounts' = [accounts EXCEPT ![u].balance = @ + amount]
      /\ UNCHANGED <<opened, debits>>
  BY DEF Deposit, Known, Inv, AccountsType
<1>2. /\ DOMAIN accounts' = DOMAIN accounts
      /\ accounts'[u].secret = accounts[u].secret
      /\ accounts'[u].balance = accounts[u].balance + amount
      /\ \A v \in DOMAIN accounts : v # u => accounts'[v] = accounts[v]
  BY <1>1 DEF Account
<1>3. /\ id \in AccountId /\ Balances[id] = accounts[u].balance
      /\ accounts[u].balance \in Amount
      /\ Balances' = [Balances EXCEPT ![id] = accounts[u].balance + amount]
  BY <1>1, <1>2, Shown, OneBalance
<1>4. Balances[id] # Closed /\ Balances[id] + amount <= IntMax
  BY <1>1, <1>3, SessionSystemAssumption, SessionWireAssumption DEF Amount
<1>5. Debited' = Debited
  BY <1>1 DEF Debited
<1>. HIDE DEF id
<1>6. Promise!Deposit(id, amount)
  BY <1>1, <1>3, <1>4, <1>5 DEF Promise!Deposit
<1>. QED
  BY <1>3, <1>6

\* No session and counter is debited twice.
LEMMA DebitedOnce ==
  ASSUME SystemInv, NEW j \in DOMAIN debits, NEW k \in DOMAIN debits,
         debits[j].key.server = debits[k].key.server, debits[j].counter = debits[k].counter
  PROVE  j = k
<1>1. debits[j].key = debits[k].key
  BY DEF SystemInv, DebitsInv, KeysInv
<1>. QED
  BY <1>1 DEF SystemInv, DebitsInv

LEMMA WithdrawIsDebit ==
  ASSUME Inv, Inv', KeysInv, SystemInv, SystemInv', NEW d \in net, ServeWithdraw(d),
         UNCHANGED dispensed
  PROVE  \E w \in [id : (1 .. MaxSessions) \X (1 .. MaxCounter), user : AccountId,
                   amount : 0 .. IntMax] : Promise!Debit(w)
<1>. DEFINE u == ActiveUser
            s == accounts[u].secret
            n == [key |-> d.key, counter |-> d.counter, amount |-> d.amount,
                  user |-> u, secret |-> s]
            w == Withdrawal(d.key, d.counter, u, s, d.amount)
<1>1. /\ u \in DOMAIN accounts /\ accounts[u] \in Account /\ u \in ActiveUsers
      /\ d.key = accounts[u].key /\ accounts[u].balance >= d.amount /\ opened' = opened
      /\ accounts' = [accounts EXCEPT ![u].lastCounter = d.counter, ![u].balance = @ - d.amount]
      /\ debits' = Append(debits, n)
  BY ActiveUserKnown DEF ServeWithdraw, Acceptable, Inv, AccountsType, ActiveUsers
<1>2. d \in Requests /\ d.amount \in Amount /\ d.counter \in 1 .. MaxCounter
  BY DEF ServeWithdraw, Requests, CommandKinds, SystemInv, RequestsInv
<1>. HIDE DEF u
<1>3. /\ DOMAIN accounts' = DOMAIN accounts
      /\ accounts'[u].secret = s /\ accounts'[u].balance = accounts[u].balance - d.amount
      /\ \A v \in DOMAIN accounts : v # u => accounts'[v] = accounts[v]
  BY <1>1 DEF Account
<1>. HIDE DEF s
<1>4. /\ <<u, s>> \in AccountId /\ Balances[<<u, s>>] = accounts[u].balance
      /\ accounts[u].balance \in Amount
      /\ Balances' = [Balances EXCEPT ![<<u, s>>] = accounts[u].balance - d.amount]
  BY <1>1, <1>3, Shown, OneBalance DEF s
<1>5. w.id = <<d.key.server, d.counter>> /\ w.user = <<u, s>> /\ w.amount = d.amount
  BY DEF Withdrawal
<1>6. w \in [id : (1 .. MaxSessions) \X (1 .. MaxCounter), user : AccountId, amount : 0 .. IntMax]
  <2>1. d.key.server \in 1 .. serverNonces /\ serverNonces \in Nat /\ serverNonces <= MaxSessions
    BY <1>2 DEF SystemInv, RequestsInv, KeysInv, Inv, AccountsType
  <2>2. d.key.server \in 1 .. MaxSessions
    BY <2>1, SessionWireAssumption
  <2>. QED
    BY <1>2, <1>4, <2>2 DEF Withdrawal, Amount
<1>7. /\ DOMAIN debits' = DOMAIN debits \cup {Len(debits) + 1}
      /\ debits'[Len(debits) + 1] = n /\ Len(debits) + 1 \notin DOMAIN debits
      /\ \A k \in DOMAIN debits : debits'[k] = debits[k]
  <2>1. debits \in Seq(DebitRecord)
    BY DEF SystemInv, DebitsInv
  <2>. HIDE DEF n
  <2>. QED
    BY <1>1, <2>1
<1>8. /\ n.key = d.key /\ n.counter = d.counter /\ n.user = u /\ n.secret = s
      /\ n.amount = d.amount
  OBVIOUS
<1>. HIDE DEF n
<1>9. Debited' = Debited \cup {w}
  BY <1>7, <1>8 DEF Debited
<1>10. ASSUME NEW v \in Debited
       PROVE  v.id # w.id
  <2>1. PICK k \in DOMAIN debits : v.id = <<debits[k].key.server, debits[k].counter>>
    BY DEF Debited, Withdrawal
  <2>2. \A j, l \in DOMAIN debits' :
          /\ debits'[j].key.server = debits'[l].key.server
          /\ debits'[j].counter = debits'[l].counter
          => j = l
    BY DEF SystemInv, DebitsInv, KeysInv
  <2>. QED
    BY <1>5, <1>7, <1>8, <2>1, <2>2
<1>11. Balances[<<u, s>>] # Closed
  BY <1>4, SessionSystemAssumption
<1>. HIDE DEF w
<1>12. Promise!Debit(w)
  BY <1>1, <1>4, <1>5, <1>9, <1>10, <1>11 DEF Promise!Debit
<1>. QED
  BY <1>6, <1>12

\* The bank stops, and its accounts are closed.
LEMMA RestartClosesAll ==
  ASSUME Restart, UNCHANGED dispensed
  PROVE  Promise!CloseAll
<1>1. DOMAIN accounts' = {} /\ UNCHANGED <<opened, debits>>
  BY DEF Restart
<1>2. Balances' = [id \in AccountId |-> Closed] /\ Debited' = Debited
  BY <1>1 DEF Balances, Known, Debited
<1>. QED
  BY <1>1, <1>2 DEF Promise!CloseAll

\* Logging in, and the commands but a withdrawal, change no balance.
LEMMA BalancesKept ==
  ASSUME Inv, Inv', UNCHANGED <<opened, debits, dispensed>>,
         DOMAIN accounts' = DOMAIN accounts,
         \A v \in DOMAIN accounts : /\ accounts'[v].secret = accounts[v].secret
                                    /\ accounts'[v].balance = accounts[v].balance
  PROVE  UNCHANGED Promise!vars
<1>1. Balances' = Balances
  BY DEF Balances, Known
<1>. QED
  BY <1>1, Unseen

LEMMA ServeShowsNothing ==
  ASSUME Inv, Inv', NEW d \in net, UNCHANGED dispensed,
         ServeExists(d) \/ ServeAuth(d) \/ ServeBalance(d) \/ RefuseWithdraw(d) \/ ServeEnd(d)
  PROVE  UNCHANGED Promise!vars
<1>1. \A v \in DOMAIN accounts : accounts[v] \in Account
  BY DEF Inv, AccountsType
<1>2. UNCHANGED <<opened, debits>>
  BY DEF ServeExists, ServeAuth, ServeBalance, RefuseWithdraw, ServeEnd, bankState
<1>3. CASE accounts' = accounts
  BY <1>2, <1>3, BalancesKept
<1>4. CASE ServeAuth(d)
  <2>. DEFINE k == SessionKey(d.user, d.pin, d.secret, d.nonce, serverNonces + 1)
  <2>1. accounts' = [v \in DOMAIN accounts |->
                       IF v = d.user
                         THEN [accounts[d.user] EXCEPT !.active = TRUE, !.key = k,
                                                       !.lastCounter = 0]
                         ELSE Cleared(accounts[v])]
    BY <1>4 DEF ServeAuth, Grant
  <2>. HIDE DEF k
  <2>2. ASSUME NEW v \in DOMAIN accounts
        PROVE  /\ accounts'[v].secret = accounts[v].secret
               /\ accounts'[v].balance = accounts[v].balance
    <3>1. CASE v = d.user
      BY <1>1, <2>1, <3>1 DEF Account
    <3>2. CASE v # d.user
      BY <1>1, <2>1, <3>2 DEF Account, Cleared
    <3>. QED
      BY <3>1, <3>2
  <2>3. DOMAIN accounts' = DOMAIN accounts
    BY <2>1
  <2>. QED
    BY <1>2, <2>2, <2>3, BalancesKept
<1>5. CASE ServeBalance(d) \/ RefuseWithdraw(d) \/ ServeEnd(d)
  <2>. DEFINE u == ActiveUser
  <2>1. u \in DOMAIN accounts
    BY <1>5, ActiveUserKnown DEF ServeBalance, RefuseWithdraw, ServeEnd, Acceptable
  <2>2. \/ accounts' = [accounts EXCEPT ![u].lastCounter = d.counter]
        \/ accounts' = [accounts EXCEPT ![u].lastCounter = d.counter,
                                        ![u].active = FALSE, ![u].key = NoKey]
    BY <1>5 DEF ServeBalance, RefuseWithdraw, ServeEnd
  <2>. HIDE DEF u
  <2>3. /\ DOMAIN accounts' = DOMAIN accounts
        /\ \A v \in DOMAIN accounts : /\ accounts'[v].secret = accounts[v].secret
                                      /\ accounts'[v].balance = accounts[v].balance
    BY <1>1, <2>1, <2>2 DEF Account
  <2>. QED
    BY <1>2, <2>3, BalancesKept
<1>. QED
  BY <1>3, <1>4, <1>5 DEF ServeExists, bankState

\* A payment is one of the teller's: of a withdrawal that was debited and was not
\* paid before.
LEMMA PayIsPay ==
  ASSUME SystemInv, NEW d, Counts(d), d.kind = "DISPENSE", UNCHANGED bankState,
         dispensed' = Append(dispensed, Withdrawal(session.key, session.nextCounter,
                                                   session.user, session.secret, d.amount))
  PROVE  \E w \in Debited : Promise!Pay(w)
<1>. DEFINE w == Withdrawal(session.key, session.nextCounter,
                            session.user, session.secret, d.amount)
<1>1. /\ d \in Replies /\ d.key = session.key /\ d.counter = session.nextCounter
      /\ loggedIn /\ session.key.user = session.user /\ session.key.secret = session.secret
  BY AnswerMatches DEF Counts, SystemInv, PhaseInv
<1>2. PICK k \in DOMAIN debits : debits[k] = DebitOf(d)
  BY <1>1 DEF SystemInv, DebitsInv
<1>3. w \in Debited
  <2>1. /\ debits[k].key = session.key /\ debits[k].counter = session.nextCounter
        /\ debits[k].user = session.user /\ debits[k].secret = session.secret
        /\ debits[k].amount = d.amount
    BY <1>1, <1>2 DEF DebitOf
  <2>. QED
    BY <2>1 DEF Debited
<1>4. w.id = <<session.key.server, session.nextCounter>>
  BY DEF Withdrawal
<1>. HIDE DEF w
<1>5. ASSUME NEW i \in DOMAIN dispensed
      PROVE  dispensed[i].id # w.id
  <2>1. PICK e \in Requests : dispensed[i].id = <<e.key.server, e.counter>>
    BY DEF SystemInv, PaidInv
  <2>2. dispensed[i].id[1] = session.key.server => dispensed[i].id[2] < session.nextCounter
    BY <1>1 DEF SystemInv, PaidInv
  <2>3. e.counter \in Nat
    <3>1. e.counter \in 1 .. MaxCounter
      BY DEF SystemInv, RequestsInv
    <3>. QED
      BY <3>1
  <2>. QED
    BY <1>4, <2>1, <2>2, <2>3
<1>6. Balances' = Balances /\ Debited' = Debited /\ opened' = opened
  BY DEF bankState, Balances, Known, Debited
<1>7. dispensed' = Append(dispensed, w)
  BY DEF w
<1>8. Promise!Pay(w)
  BY <1>3, <1>5, <1>6, <1>7 DEF Promise!Pay
<1>. QED
  BY <1>3, <1>8

\* Every step of the system is a step of the teller, or shows nothing.
LEMMA StepKeepsPromise ==
  ASSUME Inv, Inv', SessionInv, SystemInv, SystemInv', [Next]_vars
  PROVE  [Promise!Next]_(Promise!vars)
<1>1. CASE BankStep /\ UNCHANGED dispensed
  <2>1. ASSUME NEW u \in Name, NEW p \in Pin, NEW s \in Secret, NEW b \in Amount,
               CreateUser(u, p, s, b)
        PROVE  [Promise!Next]_(Promise!vars)
    <3>1. Promise!Open(<<u, s>>, b) /\ <<u, s>> \in AccountId /\ b \in 0 .. IntMax
      BY <1>1, <2>1, CreateIsOpen DEF AccountId, Amount
    <3>. QED
      BY <3>1 DEF Promise!Next, Promise!Open
  <2>2. ASSUME NEW u \in Name, CreateUserFails(u)
        PROVE  [Promise!Next]_(Promise!vars)
    BY <1>1, <2>2, BalancesKept DEF CreateUserFails
  <2>3. ASSUME NEW u \in Name, NEW a \in Amount, Deposit(u, a)
        PROVE  [Promise!Next]_(Promise!vars)
    BY <1>1, <2>3, DepositIsDeposit DEF Promise!Next, Promise!Deposit, Amount
  <2>4. ASSUME NEW d \in net, ServeWithdraw(d)
        PROVE  [Promise!Next]_(Promise!vars)
    BY <1>1, <2>4, WithdrawIsDebit DEF Promise!Next, Promise!Debit, SystemInv
  <2>5. ASSUME NEW d \in net,
               \/ ServeExists(d) \/ ServeAuth(d) \/ ServeBalance(d)
               \/ RefuseWithdraw(d) \/ ServeEnd(d)
        PROVE  [Promise!Next]_(Promise!vars)
    BY <1>1, <2>5, ServeShowsNothing
  <2>6. CASE Restart
    BY <1>1, <2>6, RestartClosesAll DEF Promise!Next
  <2>. QED
    BY <1>1, <2>1, <2>2, <2>3, <2>4, <2>5, <2>6 DEF BankStep
<1>2. CASE AtmStep /\ UNCHANGED bankState /\ Pay
  <2>1. CASE dispensed' = dispensed
    <3>1. Balances' = Balances
      BY <1>2 DEF bankState, Balances, Known
    <3>. QED
      BY <1>2, <2>1, <3>1, Unseen DEF bankState
  <2>2. ASSUME NEW d, Counts(d), dispensed' # dispensed
        PROVE  \E w \in Debited : Promise!Pay(w)
    <3>1. /\ d.kind = "DISPENSE"
          /\ dispensed' = Append(dispensed, Withdrawal(session.key, session.nextCounter,
                                                       session.user, session.secret, d.amount))
      BY <2>2 DEF Counts
    <3>. QED
      BY <1>2, <2>2, <3>1, PayIsPay
  <2>3. AsksLogin \/ AsksCommand \/ LogsIn \/ Leaves \/ Proceeds => dispensed' = dispensed
    BY DEF AsksLogin, AsksCommand, LogsIn, Leaves, Proceeds
  <2>. QED
    BY <1>2, <2>1, <2>2, <2>3, AtmSteps DEF SystemInv, Promise!Next, Promise!Pay
<1>3. CASE UNCHANGED vars
  <2>1. UNCHANGED <<accounts, opened, debits, dispensed>>
    BY <1>3 DEF vars, bankState
  <2>. QED
    BY <2>1, BalancesKept
<1>. QED
  BY <1>1, <1>2, <1>3 DEF Next

LEMMA PromiseInit == Init => Promise!Init
<1>. SUFFICES ASSUME Init PROVE Promise!Init
  OBVIOUS
<1>1. DOMAIN accounts = {} /\ opened = {} /\ DOMAIN debits = {} /\ dispensed = <<>>
  BY DEF Init, BankInit
<1>2. Balances = [id \in AccountId |-> Closed] /\ Debited = {}
  BY <1>1 DEF Balances, Known, Debited
<1>. QED
  BY <1>1, <1>2 DEF Promise!Init

\* Every withdrawal is debited once at most, paid once at most and paid only if
\* debited, and no account goes below zero or above INT_MAX.  No run is too long for
\* it: a counter and a session key do what the replay filter of the other bank does
\* only until it wraps around.
THEOREM SystemKeepsPromise == Spec => SessionKeepsPromise
<1>1. Inv /\ Inv' /\ SessionInv /\ SystemInv /\ SystemInv' /\ [Next]_vars
        => [Promise!Next]_(Promise!vars)
  BY StepKeepsPromise
<1>. QED
  BY <1>1, PromiseInit, SystemInvHolds, PTL DEF Spec, SessionKeepsPromise, Promise!Spec

=============================================================================
