---------------------------- MODULE AtmBankProofs ----------------------------
(***************************************************************************)
(* The ATM, with a bank that may answer anything, for every number of      *)
(* requests, receive attempts, users and amounts; then the ATM and the     *)
(* bank together.  The system implements the specifications of both its    *)
(* parts: what the ATM sends is what the client of BankSpec sends, and     *)
(* what the bank answers is what the bank of AtmSpec may answer.  What     *)
(* holds of each alone then holds in the system, and with one more         *)
(* invariant that relates the two, so do the properties of AtmBank.        *)
(* As long as the replay filter has not wrapped around the two keep the    *)
(* promise of Teller: every step of the system is one of the teller's, or  *)
(* changes nothing the user sees.                                          *)
(***************************************************************************)
EXTENDS AtmBank, BankProofs

-----------------------------------------------------------------------------
(* The ATM of Atm.tla with a bank that may answer anything.                *)

\* The request the ATM waits for, or logs in with, was sent.
PendingWasSent == pc # "command" => pending \in net

AtmInv == AtmTypeOK /\ PendingWasSent /\ OutcomeWasAnswered

-----------------------------------------------------------------------------
(* Requests, replies and lines.                                            *)

\* The fields of a request that is sent have their types.
LEMMA RequestParts ==
  ASSUME NEW r \in Request
  PROVE  /\ r.user \in Name
         /\ r.op \in {"exists", "auth", "balance", "withdraw"}
         /\ r.op = "withdraw" => r.amount \in Amount /\ r = WithdrawRequest(r.user, r.amount)
         /\ r.op = "balance" => r = BalanceRequest(r.user)
         /\ r.op = "auth" => \E p \in Pin, s \in Secret : r = AuthRequest(r.user, p, s)
BY DEF Request, ExistsRequest, AuthRequest, BalanceRequest, WithdrawRequest

\* The four requests are requests.
LEMMA RequestsMade ==
  ASSUME NEW u \in Name, NEW p \in Pin, NEW s \in Secret, NEW a \in Amount
  PROVE  /\ ExistsRequest(u) \in Request /\ BalanceRequest(u) \in Request
         /\ AuthRequest(u, p, s) \in Request /\ WithdrawRequest(u, a) \in Request
BY DEF Request

\* A request datagram differs from having none pending.
LEMMA NotNoRequest ==
  ASSUME NEW n \in 1 .. MaxRequests, NEW r \in Request
  PROVE  RequestDatagram(n, r) # NoRequest
BY WireAssumption DEF RequestDatagram, NoRequest

\* What the ATM waits for is a request under the nonce drawn last.
LEMMA PendingFields ==
  ASSUME AtmTypeOK, pc # "command"
  PROVE  /\ pending.nonce \in 1 .. issued /\ pending.body \in Request
         /\ pending = RequestDatagram(pending.nonce, pending.body)
         /\ pending.nonce \in 0 .. MaxRequests /\ issued \in 0 .. MaxRequests
<1>1. PICK n \in 1 .. issued, r \in Request : pending = RequestDatagram(n, r)
  BY DEF AtmTypeOK
<1>2. issued \in 0 .. MaxRequests
  BY DEF AtmTypeOK, WireTypeOK
<1>. QED
  BY <1>1, <1>2, WireAssumption DEF RequestDatagram

\* A line printed about an amount and a request in progress is a line.
LEMMA LineType ==
  ASSUME NEW line \in Texts, NEW n \in 0 .. MaxRequests, NEW a \in Amount
  PROVE  Line(line, n, a) \in [msg : Texts, nonce : 0 .. MaxRequests, amount : Amount]
BY DEF Line

LEMMA ZeroIsAmount == 0 \in Amount /\ 0 \in 0 .. MaxRequests
BY WireAssumption DEF Amount

\* An answer carries a reply.
LEMMA AnswerFields ==
  ASSUME WireTypeOK, NEW d \in net, d.tag = "A"
  PROVE  /\ d.body \in Reply /\ d = AnswerDatagram(d.nonce, d.body)
         /\ d.body.kind = "BAL" => d.body.balance \in Amount /\ d.body = Bal(d.body.balance)
<1>1. PICK n \in 1 .. MaxRequests, r \in Reply : d = AnswerDatagram(n, r)
  BY DEF WireTypeOK, Datagram, RequestDatagram, AnswerDatagram
<1>2. d.body = r /\ d.nonce = n
  BY <1>1 DEF AnswerDatagram
<1>3. r.kind = "BAL" => r.balance \in Amount /\ r = Bal(r.balance)
  BY DEF Reply, Ok, No, Nsf, Bal
<1>. QED
  BY <1>1, <1>2, <1>3

-----------------------------------------------------------------------------
(* Steps.                                                                  *)

\* Outcomes are about datagrams, of which the network forgets none.
LEMMA OutcomeKept ==
  ASSUME OutcomeWasAnswered, UNCHANGED <<printed, currentUser>>, net \subseteq net'
  PROVE  OutcomeWasAnswered'
BY DEF OutcomeWasAnswered

\* Lines that promise nothing.
LEMMA NoOutcome ==
  ASSUME printed'.msg \notin {"dispensed", "balance", "Authorized"}
  PROVE  OutcomeWasAnswered'
BY DEF OutcomeWasAnswered

\* What sending a request leads to.
LEMMA AskStep ==
  ASSUME AtmInv, NEW r \in Request, Ask(r),
         UNCHANGED <<loggedIn, currentUser, credentials>>
  PROVE  AtmInv'
<1>1. /\ issued \in 0 .. MaxRequests /\ issued < MaxRequests
      /\ issued' = issued + 1 /\ issued + 1 \in 1 .. MaxRequests
  BY WireAssumption DEF AtmInv, AtmTypeOK, WireTypeOK, Ask, SendRequest
<1>2. pending' = RequestDatagram(issued + 1, r) /\ net' = net \cup {pending'}
  BY DEF Ask, SendRequest, Send
<1>3. WireTypeOK'
  <2>1. pending' \in Datagram
    BY <1>1, <1>2 DEF Datagram
  <2>. QED
    BY <1>1, <1>2, <2>1, WireAssumption DEF AtmInv, AtmTypeOK, WireTypeOK
<1>4. printed' = Blank /\ printed' \in [msg : Texts, nonce : 0 .. MaxRequests, amount : Amount]
  BY ZeroIsAmount, LineType DEF Ask, Blank, Texts
<1>5. pending' # NoRequest /\ pending'.nonce = issued'
  BY <1>1, <1>2, NotNoRequest DEF RequestDatagram
<1>6. pending' \in {RequestDatagram(n, q) : n \in 1 .. issued', q \in Request} \cup {NoRequest}
  BY <1>1, <1>2
<1>7. pc' = "waiting" /\ attempts' = 0 /\ 0 \in 0 .. RecvAttempts - 1
  BY AtmAssumption DEF Ask
<1>8. AtmTypeOK'
  BY <1>3, <1>4, <1>5, <1>6, <1>7 DEF AtmInv, AtmTypeOK
<1>9. OutcomeWasAnswered'
  BY <1>4, NoOutcome DEF Blank, Line
<1>. QED
  BY <1>2, <1>8, <1>9 DEF AtmInv, PendingWasSent

\* What a command that is over leads to: the type invariant and, if the line
\* printed says nothing favourable, the rest.
LEMMA DoneStep ==
  ASSUME AtmInv, NEW line \in Texts, NEW n \in 0 .. MaxRequests, NEW a \in Amount,
         Done(Line(line, n, a)), UNCHANGED wireVars,
         loggedIn' \in BOOLEAN, currentUser' \in Name \cup {NoUser},
         credentials' \in Request \cup {NoLogin},
         loggedIn' <=> currentUser' # NoUser
  PROVE  /\ AtmTypeOK' /\ PendingWasSent' /\ net' = net
         /\ printed' = [msg |-> line, nonce |-> n, amount |-> a]
         /\ line \notin {"dispensed", "balance", "Authorized"} => AtmInv'
<1>1. printed' = Line(line, n, a) /\ pc' = "command" /\ pending' = NoRequest /\ attempts' = 0
  BY DEF Done
<1>2. printed' \in [msg : Texts, nonce : 0 .. MaxRequests, amount : Amount]
  BY <1>1, LineType
<1>3. 0 \in 0 .. RecvAttempts - 1
  BY AtmAssumption
<1>4. AtmTypeOK' /\ net' = net
  BY <1>1, <1>2, <1>3 DEF AtmInv, AtmTypeOK, WireTypeOK, wireVars
<1>5. PendingWasSent'
  BY <1>1 DEF PendingWasSent
<1>6. line \notin {"dispensed", "balance", "Authorized"} => OutcomeWasAnswered'
  BY <1>1, NoOutcome DEF Line
<1>. QED
  BY <1>1, <1>4, <1>5, <1>6 DEF AtmInv, Line

\* What a command that failed leads to.
LEMMA FailStep ==
  ASSUME AtmInv, pc = "waiting", Fail,
         UNCHANGED <<wireVars, loggedIn, currentUser, credentials>>
  PROVE  AtmInv'
<1>1. /\ pending.nonce \in 0 .. MaxRequests
      /\ pending.body.op \in {"exists", "auth", "balance", "withdraw"}
  BY PendingFields, RequestParts DEF AtmInv
<1>2. /\ FailureText(pending.body.op) \in Texts
      /\ FailureText(pending.body.op) \notin {"dispensed", "balance", "Authorized"}
  BY <1>1 DEF FailureText, Texts
<1>3. /\ loggedIn' \in BOOLEAN /\ currentUser' \in Name \cup {NoUser}
      /\ credentials' \in Request \cup {NoLogin} /\ (loggedIn' <=> currentUser' # NoUser)
  BY DEF AtmInv, AtmTypeOK
<1>. QED
  BY <1>1, <1>2, <1>3, ZeroIsAmount, DoneStep DEF Fail

\* The session fields after a step that leaves them alone.
LEMMA SessionKept ==
  ASSUME AtmInv, UNCHANGED <<loggedIn, currentUser, credentials>>
  PROVE  /\ loggedIn' \in BOOLEAN /\ currentUser' \in Name \cup {NoUser}
         /\ credentials' \in Request \cup {NoLogin} /\ (loggedIn' <=> currentUser' # NoUser)
BY DEF AtmInv, AtmTypeOK

-----------------------------------------------------------------------------

\* Every command typed preserves the invariant.
LEMMA CommandStep == AtmInv /\ Command => AtmInv'
<1>. SUFFICES ASSUME AtmInv, Command PROVE AtmInv'
  OBVIOUS
<1>0. loggedIn => currentUser \in Name
  BY DEF AtmInv, AtmTypeOK
<1>1. CASE \E u \in Name : BeginSession(u)
  <2>1. PICK u \in Name : BeginSession(u)
    BY <1>1
  <2>2. ExistsRequest(u) \in Request
    BY DEF Request
  <2>. QED
    BY <2>1, <2>2, AskStep DEF BeginSession
<1>2. CASE \E p \in Pin, s \in Secret : EnterPin(p, s)
  <2>1. PICK p \in Pin, s \in Secret : EnterPin(p, s)
    BY <1>2
  <2>2. pending.body \in Request
    BY <2>1, PendingFields DEF AtmInv, EnterPin
  <2>3. AuthRequest(pending.body.user, p, s) \in Request
    BY <2>2, RequestParts DEF Request
  <2>. QED
    BY <2>1, <2>3, AskStep DEF EnterPin
<1>3. CASE AbandonLogin
  <2>1. PICK line \in {"Unable to access card", "Not authorized"} : Done(Line(line, 0, 0))
    BY <1>3 DEF AbandonLogin
  <2>. QED
    BY <1>3, <2>1, ZeroIsAmount, SessionKept, DoneStep DEF AbandonLogin, Texts
<1>4. CASE \E a \in Amount : Withdraw(a)
  <2>1. PICK a \in Amount : Withdraw(a)
    BY <1>4
  <2>2. WithdrawRequest(currentUser, a) \in Request
    BY <2>1, <1>0 DEF Request, Withdraw
  <2>. QED
    BY <2>1, <2>2, AskStep DEF Withdraw
<1>5. CASE Balance
  <2>1. BalanceRequest(currentUser) \in Request
    BY <1>5, <1>0 DEF Request, Balance
  <2>. QED
    BY <1>5, <2>1, AskStep DEF Balance
<1>6. CASE EndSession
  <2>1. printed' = Line("User logged out", 0, 0) /\ "User logged out" \in Texts
    BY <1>6 DEF EndSession, Texts
  <2>2. printed' \in [msg : Texts, nonce : 0 .. MaxRequests, amount : Amount]
    BY <2>1, ZeroIsAmount, LineType
  <2>3. AtmTypeOK' /\ PendingWasSent'
    <3>1. UNCHANGED <<net, issued, pc, pending, attempts>>
      BY <1>6 DEF EndSession, wireVars
    <3>2. WireTypeOK' /\ PendingWasSent'
      BY <3>1 DEF AtmInv, AtmTypeOK, PendingWasSent, WireTypeOK
    <3>3. /\ loggedIn' \in BOOLEAN /\ currentUser' \in Name \cup {NoUser}
          /\ credentials' \in Request \cup {NoLogin} /\ (loggedIn' <=> currentUser' # NoUser)
      BY <1>6 DEF EndSession
    <3>. QED
      BY <2>2, <3>1, <3>2, <3>3 DEF AtmInv, AtmTypeOK
  <2>. QED
    BY <2>1, <2>3, NoOutcome DEF AtmInv, Line
<1>7. CASE RefuseCommand
  <2>1. \/ printed' = Line("A user is already logged in", 0, 0)
        \/ printed' = Line("No user logged in", 0, 0)
    BY <1>7 DEF RefuseCommand
  <2>2. "A user is already logged in" \in Texts /\ "No user logged in" \in Texts
    BY DEF Texts
  <2>3. printed' \in [msg : Texts, nonce : 0 .. MaxRequests, amount : Amount]
    BY <2>1, <2>2, ZeroIsAmount, LineType
  <2>4. printed'.msg \notin {"dispensed", "balance", "Authorized"}
    <3>1. CASE printed' = Line("A user is already logged in", 0, 0)
      BY <3>1 DEF Line
    <3>2. CASE printed' = Line("No user logged in", 0, 0)
      BY <3>2 DEF Line
    <3>. QED
      BY <2>1, <3>1, <3>2
  <2>5. AtmTypeOK' /\ PendingWasSent'
    <3>1. UNCHANGED <<net, issued, pc, pending, attempts>>
      BY <1>7 DEF RefuseCommand, wireVars
    <3>2. WireTypeOK' /\ PendingWasSent'
      BY <3>1 DEF AtmInv, AtmTypeOK, PendingWasSent, WireTypeOK
    <3>3. /\ loggedIn' \in BOOLEAN /\ currentUser' \in Name \cup {NoUser}
          /\ credentials' \in Request \cup {NoLogin} /\ (loggedIn' <=> currentUser' # NoUser)
      BY <1>7, SessionKept DEF RefuseCommand
    <3>. QED
      BY <2>3, <3>1, <3>2, <3>3 DEF AtmInv, AtmTypeOK
  <2>. QED
    BY <2>4, <2>5, NoOutcome DEF AtmInv
<1>8. CASE CannotAsk
  <2>1. PICK line \in {"No such user", "Not authorized", "Insufficient funds",
                      "No user logged in"} : Done(Line(line, 0, 0))
    BY <1>8 DEF CannotAsk, FailureText
  <2>. QED
    BY <1>8, <2>1, ZeroIsAmount, SessionKept, DoneStep DEF CannotAsk, Texts
<1>. QED
  BY <1>1, <1>2, <1>3, <1>4, <1>5, <1>6, <1>7, <1>8 DEF Command

\* Every datagram read preserves the invariant.
LEMMA ReadStep == AtmInv /\ Read => AtmInv'
<1>. SUFFICES ASSUME AtmInv, Read PROVE AtmInv'
  OBVIOUS
<1>1. CASE \E d \in net \cup {Junk} : Skip(d)
  <2>1. PICK d \in net \cup {Junk} : Skip(d)
    BY <1>1
  <2>2. CASE Fail
    BY <2>1, <2>2, FailStep DEF Skip
  <2>3. CASE /\ attempts + 1 < RecvAttempts /\ attempts' = attempts + 1
             /\ UNCHANGED <<pc, pending, printed>>
    <3>1. UNCHANGED <<wireVars, loggedIn, currentUser, credentials>>
      BY <2>1 DEF Skip
    <3>2. AtmTypeOK'
      BY <2>3, <3>1, AtmAssumption DEF AtmInv, AtmTypeOK, WireTypeOK, wireVars
    <3>3. OutcomeWasAnswered'
      BY <2>3, <3>1, OutcomeKept DEF AtmInv, wireVars
    <3>. QED
      BY <2>3, <3>1, <3>2, <3>3 DEF AtmInv, PendingWasSent, wireVars
  <2>. QED
    BY <2>1, <2>2, <2>3 DEF Skip
<1>2. ASSUME NEW d \in net,
             UserExists(d) \/ LogIn(d) \/ Dispense(d) \/ ShowBalance(d) \/ Denied(d)
      PROVE  AtmInv'
  <2>1. pc = "waiting"
    BY <1>2 DEF UserExists, LogIn, Dispense, ShowBalance, Denied, Receive
  <2>2. /\ pending.nonce \in 0 .. MaxRequests /\ pending.body \in Request
        /\ pending = RequestDatagram(pending.nonce, pending.body) /\ pending \in net
    BY <2>1, PendingFields DEF AtmInv, PendingWasSent
  <2>3. /\ pending.body.user \in Name
        /\ pending.body.op = "withdraw" =>
             /\ pending.body.amount \in Amount
             /\ pending.body = WithdrawRequest(pending.body.user, pending.body.amount)
        /\ pending.body.op = "balance" => pending.body = BalanceRequest(pending.body.user)
        /\ pending.body.op = "auth" =>
             \E p \in Pin, s \in Secret : pending.body = AuthRequest(pending.body.user, p, s)
    BY <2>2, RequestParts
  <2>4. ASSUME IsAnswer(d)
        PROVE  /\ d = AnswerDatagram(pending.nonce, d.body)
               /\ d.body.kind = "BAL" => d.body.balance \in Amount /\ d.body = Bal(d.body.balance)
    BY <2>4, AnswerFields DEF IsAnswer, AtmInv, AtmTypeOK
  <2>5. CASE UserExists(d)
    <3>1. 0 \in 0 .. RecvAttempts - 1
      BY AtmAssumption
    <3>2. AtmTypeOK' /\ PendingWasSent'
      BY <2>1, <2>5, <3>1 DEF UserExists, AtmInv, AtmTypeOK, PendingWasSent, WireTypeOK, wireVars
    <3>. QED
      BY <2>5, <3>2, OutcomeKept DEF UserExists, AtmInv, wireVars
  <2>6. CASE LogIn(d)
    <3>1. /\ Done(Line("Authorized", pending.nonce, 0)) /\ "Authorized" \in Texts
          /\ pending.body.op = "auth" /\ d = AnswerDatagram(pending.nonce, Ok)
          /\ currentUser' = pending.body.user
      BY <2>4, <2>6 DEF LogIn, Receive, Texts
    <3>2. /\ loggedIn' \in BOOLEAN /\ currentUser' \in Name \cup {NoUser}
          /\ credentials' \in Request \cup {NoLogin} /\ (loggedIn' <=> currentUser' # NoUser)
      BY <2>2, <2>3, <2>6, AtmAssumption DEF LogIn
    <3>3. /\ AtmTypeOK' /\ PendingWasSent' /\ net' = net
          /\ printed' = [msg |-> "Authorized", nonce |-> pending.nonce, amount |-> 0]
      BY <2>2, <2>6, <3>1, <3>2, ZeroIsAmount, DoneStep DEF LogIn
    <3>4. OutcomeWasAnswered'
      BY <2>2, <2>3, <3>1, <3>3 DEF OutcomeWasAnswered
    <3>. QED
      BY <3>3, <3>4 DEF AtmInv
  <2>7. CASE Dispense(d)
    <3>1. /\ Done(Line("dispensed", pending.nonce, pending.body.amount)) /\ "dispensed" \in Texts
          /\ pending.body.op = "withdraw" /\ d = AnswerDatagram(pending.nonce, Ok)
      BY <2>4, <2>7 DEF Dispense, Receive, Texts
    <3>3. /\ AtmTypeOK' /\ PendingWasSent' /\ net' = net
          /\ printed' = [msg |-> "dispensed", nonce |-> pending.nonce,
                         amount |-> pending.body.amount]
      BY <2>2, <2>3, <2>7, <3>1, SessionKept, DoneStep DEF Dispense
    <3>4. OutcomeWasAnswered'
      BY <2>2, <2>3, <3>1, <3>3 DEF OutcomeWasAnswered
    <3>. QED
      BY <3>3, <3>4 DEF AtmInv
  <2>8. CASE ShowBalance(d)
    <3>1. /\ Done(Line("balance", pending.nonce, d.body.balance)) /\ "balance" \in Texts
          /\ pending.body.op = "balance" /\ d.body.balance \in Amount
          /\ d = AnswerDatagram(pending.nonce, Bal(d.body.balance))
      BY <2>4, <2>8 DEF ShowBalance, Receive, Texts
    <3>3. /\ AtmTypeOK' /\ PendingWasSent' /\ net' = net
          /\ printed' = [msg |-> "balance", nonce |-> pending.nonce, amount |-> d.body.balance]
      BY <2>2, <2>8, <3>1, SessionKept, DoneStep DEF ShowBalance
    <3>4. OutcomeWasAnswered'
      BY <2>2, <2>3, <3>1, <3>3 DEF OutcomeWasAnswered
    <3>. QED
      BY <3>3, <3>4 DEF AtmInv
  <2>9. CASE Denied(d)
    BY <2>1, <2>9, FailStep DEF Denied
  <2>. QED
    BY <1>2, <2>5, <2>6, <2>7, <2>8, <2>9
<1>. QED
  BY <1>1, <1>2 DEF Read

\* So does every other step: timeouts, restarts, and whatever the bank answers.
LEMMA OtherStep == AtmInv /\ (Timeout \/ AtmRestart \/ AnyAnswer) => AtmInv'
<1>. SUFFICES ASSUME AtmInv, Timeout \/ AtmRestart \/ AnyAnswer PROVE AtmInv'
  OBVIOUS
<1>1. CASE Timeout
  BY <1>1, FailStep DEF Timeout
<1>2. CASE AtmRestart
  <2>1. Done(Line("", 0, 0)) /\ "" \in Texts
    BY <1>2 DEF AtmRestart, Blank, Texts
  <2>. QED
    BY <1>2, <2>1, ZeroIsAmount, DoneStep DEF AtmRestart
<1>3. CASE AnyAnswer
  <2>1. PICK n \in 1 .. issued, reply \in Reply : net' = net \cup {AnswerDatagram(n, reply)}
    BY <1>3 DEF AnyAnswer, Send
  <2>2. AnswerDatagram(n, reply) \in Datagram
    BY WireAssumption DEF AtmInv, AtmTypeOK, WireTypeOK, Datagram
  <2>3. WireTypeOK' /\ UNCHANGED <<issued, atmState>>
    BY <1>3, <2>1, <2>2 DEF AtmInv, AtmTypeOK, WireTypeOK, AnyAnswer
  <2>4. AtmTypeOK' /\ PendingWasSent'
    BY <2>1, <2>3 DEF AtmInv, AtmTypeOK, PendingWasSent, atmState
  <2>. QED
    BY <2>1, <2>3, <2>4, OutcomeKept DEF AtmInv, atmState
<1>. QED
  BY <1>1, <1>2, <1>3

LEMMA AtmInvStep == AtmInv /\ [AtmNext]_atmVars => AtmInv'
<1>. SUFFICES ASSUME AtmInv, [AtmNext]_atmVars PROVE AtmInv'
  OBVIOUS
<1>1. CASE AtmNext
  BY <1>1, CommandStep, ReadStep, OtherStep DEF AtmNext, AtmStep
<1>2. CASE UNCHANGED atmVars
  BY <1>2 DEF AtmInv, AtmTypeOK, WireTypeOK, PendingWasSent, OutcomeWasAnswered,
              atmVars, wireVars, atmState
<1>. QED
  BY <1>1, <1>2

LEMMA AtmInvInit == AtmAloneInit => AtmInv
<1>. SUFFICES ASSUME AtmAloneInit PROVE AtmInv
  OBVIOUS
<1>1. printed = Blank /\ printed \in [msg : Texts, nonce : 0 .. MaxRequests, amount : Amount]
  BY ZeroIsAmount, LineType DEF AtmAloneInit, AtmInit, Blank, Texts
<1>2. WireTypeOK /\ 0 \in 0 .. RecvAttempts - 1
  BY AtmAssumption, WireAssumption DEF AtmAloneInit, WireInit, WireTypeOK
<1>3. AtmTypeOK
  <2>1. /\ loggedIn \in BOOLEAN /\ currentUser \in Name \cup {NoUser}
        /\ credentials \in Request \cup {NoLogin} /\ (loggedIn <=> currentUser # NoUser)
    BY DEF AtmAloneInit, AtmInit
  <2>2. pc = "command" /\ pending = NoRequest /\ attempts = 0
    BY DEF AtmAloneInit, AtmInit
  <2>. QED
    BY <1>1, <1>2, <2>1, <2>2 DEF AtmTypeOK
<1>4. PendingWasSent
  BY DEF AtmAloneInit, AtmInit, PendingWasSent
<1>5. OutcomeWasAnswered
  BY <1>1 DEF OutcomeWasAnswered, Blank, Line
<1>. QED
  BY <1>3, <1>4, <1>5 DEF AtmInv

-----------------------------------------------------------------------------

\* The session fields agree with each other and with the receive loop, whatever the
\* bank answers and whenever the ATM is killed.
THEOREM AtmIsTyped == AtmSpec => []AtmTypeOK
<1>1. AtmInv => AtmTypeOK
  BY DEF AtmInv
<1>. QED
  BY AtmInvInit, AtmInvStep, <1>1, PTL DEF AtmSpec

\* A favourable line rests on the bank's answer to that very request: no stale,
\* repeated or misdelivered datagram is taken for it, however many requests there
\* have been.
THEOREM OutcomesAreAnswered == AtmSpec => []OutcomeWasAnswered
<1>1. AtmInv => OutcomeWasAnswered
  BY DEF AtmInv
<1>. QED
  BY AtmInvInit, AtmInvStep, <1>1, PTL DEF AtmSpec

-----------------------------------------------------------------------------
(* The ATM as the bank's client.                                           *)

\* The ATM knows the name of a user whenever it is about to send a request.
UserKnown ==
  /\ pc \in {"waiting", "pin"} => pending.body.user \in Name
  /\ loggedIn => currentUser \in Name

\* A command that asks the bank sends one well-formed request under a fresh nonce.
LEMMA AskIsClientRequest ==
  ASSUME NEW request \in Request, Ask(request), UNCHANGED bankState
  PROVE  ClientRequest /\ pending'.body.user \in Name
<1>1. ClientRequest
  BY DEF Ask, ClientRequest
<1>2. pending'.body = request
  BY DEF Ask, RequestDatagram
<1>. QED
  BY <1>1, <1>2, RequestFields

\* The four requests.
LEMMA RequestsAreWellFormed ==
  /\ \A u \in Name : ExistsRequest(u) \in Request /\ BalanceRequest(u) \in Request
  /\ \A u \in Name, p \in Pin, s \in Secret : AuthRequest(u, p, s) \in Request
  /\ \A u \in Name, a \in Amount : WithdrawRequest(u, a) \in Request
BY DEF Request

\* A command sends one request or nothing.
LEMMA CommandIsClient ==
  ASSUME UserKnown, Command, UNCHANGED bankState
  PROVE  UserKnown' /\ (ClientRequest \/ UNCHANGED bankVars)
<1>1. ASSUME NEW request \in Request, Ask(request), UNCHANGED <<loggedIn, currentUser>>
      PROVE  UserKnown' /\ ClientRequest
  BY <1>1, AskIsClientRequest DEF UserKnown
<1>2. ASSUME NEW u \in Name, BeginSession(u)
      PROVE  UserKnown' /\ ClientRequest
  BY <1>1, <1>2, RequestsAreWellFormed DEF BeginSession
<1>3. ASSUME NEW p \in Pin, NEW s \in Secret, EnterPin(p, s)
      PROVE  UserKnown' /\ ClientRequest
  <2>1. AuthRequest(pending.body.user, p, s) \in Request
    BY <1>3, RequestsAreWellFormed DEF EnterPin, UserKnown
  <2>. QED
    BY <1>1, <1>3, <2>1 DEF EnterPin
<1>4. ASSUME NEW a \in Amount, Withdraw(a)
      PROVE  UserKnown' /\ ClientRequest
  <2>1. WithdrawRequest(currentUser, a) \in Request
    BY <1>4, RequestsAreWellFormed DEF Withdraw, UserKnown
  <2>. QED
    BY <1>1, <1>4, <2>1 DEF Withdraw
<1>5. CASE Balance
  <2>1. BalanceRequest(currentUser) \in Request
    BY <1>5, RequestsAreWellFormed DEF Balance, UserKnown
  <2>. QED
    BY <1>1, <1>5, <2>1 DEF Balance
<1>6. CASE AbandonLogin \/ EndSession \/ RefuseCommand \/ CannotAsk
  <2>1. UNCHANGED bankVars
    BY <1>6 DEF AbandonLogin, EndSession, RefuseCommand, CannotAsk, bankVars, wireVars
  <2>2. pc' = "command" /\ (loggedIn' => loggedIn /\ currentUser' = currentUser)
    <3>1. CASE AbandonLogin
      BY <3>1, Zenon DEF AbandonLogin, Done
    <3>4. CASE CannotAsk
      BY <3>4, Zenon DEF CannotAsk, Done
    <3>2. CASE EndSession
      BY <3>2 DEF EndSession
    <3>3. CASE RefuseCommand
      BY <3>3 DEF RefuseCommand
    <3>. QED
      BY <1>6, <3>1, <3>2, <3>3, <3>4
  <2>. QED
    BY <2>1, <2>2 DEF UserKnown
<1>. QED
  BY <1>2, <1>3, <1>4, <1>5, <1>6 DEF Command

\* Reading, timing out and restarting send nothing.
LEMMA ReadIsSilent ==
  ASSUME UserKnown, Read \/ Timeout \/ AtmRestart, UNCHANGED bankState
  PROVE  UserKnown' /\ UNCHANGED bankVars
<1>1. UNCHANGED bankVars
  BY DEF Read, Skip, UserExists, LogIn, Dispense, ShowBalance, Denied, Timeout, AtmRestart,
         bankVars
<1>2. CASE \E d \in net : LogIn(d)
  BY <1>1, <1>2 DEF LogIn, Receive, Done, UserKnown
<1>3. CASE \E d \in net : UserExists(d)
  BY <1>1, <1>3 DEF UserExists, Receive, UserKnown
<1>4. CASE \E d \in net \cup {Junk} : Skip(d)
  BY <1>1, <1>4 DEF Skip, Fail, Done, UserKnown
<1>5. CASE \E d \in net : Dispense(d) \/ ShowBalance(d) \/ Denied(d)
  BY <1>1, <1>5 DEF Dispense, ShowBalance, Denied, Fail, Done, UserKnown
<1>6. CASE Timeout
  BY <1>1, <1>6 DEF Timeout, Fail, Done, UserKnown
<1>7. CASE AtmRestart
  BY <1>1, <1>7 DEF AtmRestart, Done, UserKnown
<1>. QED
  BY <1>1, <1>2, <1>3, <1>4, <1>5, <1>6, <1>7 DEF Read

\* Every step of the system is a step of the bank or its client, or none.
LEMMA StepImplements ==
  ASSUME UserKnown, [Next]_vars
  PROVE  UserKnown' /\ [BankNext]_bankVars
<1>1. CASE BankStep /\ UNCHANGED atmState
  BY <1>1 DEF BankNext, UserKnown, atmState
<1>2. CASE AtmStep /\ UNCHANGED bankState
  BY <1>2, CommandIsClient, ReadIsSilent DEF AtmStep, BankNext
<1>3. CASE UNCHANGED vars
  BY <1>3 DEF vars, atmState, UserKnown
<1>. QED
  BY <1>1, <1>2, <1>3 DEF Next

\* To the bank, the ATM is a client like any other: it sends well-formed requests,
\* each under a nonce of its own, through timeouts, restarts and failed logins.
THEOREM SystemImplementsBank == Spec => BankSpec
<1>1. Init => BankInit /\ UserKnown
  BY DEF Init, AtmInit, UserKnown
<1>2. UserKnown /\ [Next]_vars => UserKnown' /\ [BankNext]_bankVars
  BY StepImplements
<1>. QED
  BY <1>1, <1>2, PTL DEF Spec, BankSpec

LEMMA UserKnownHolds == Spec => []UserKnown
<1>1. Init => UserKnown
  BY DEF Init, AtmInit, UserKnown
<1>2. UserKnown /\ [Next]_vars => UserKnown'
  BY StepImplements
<1>. QED
  BY <1>1, <1>2, PTL DEF Spec

\* What is proved of the bank holds in the system.
COROLLARY SystemKeepsBank ==
  Spec => [](BankTypeOK /\ OneAccountPerName /\ CardIsOwn /\ FilterExact /\ DebitWindow)
BY SystemImplementsBank, BankIsTyped, NamesAreUnique, FilterIsExact, NoEarlySecondDebit, PTL

\* What the bank puts on the network is an answer to a request that was sent.
LEMMA ServeIsAnAnswer ==
  ASSUME BankInv, NEW d \in net, Serve(d)
  PROVE  /\ issued' = issued
         /\ \E n \in 1 .. issued, reply \in Reply : Send(AnswerDatagram(n, reply))
<1>1. OneAccountPerName /\ BankTypeOK /\ RequestsInv
  BY DEF BankInv, NamesInv
<1>2. d.nonce \in 1 .. MaxRequests /\ d.nonce <= issued /\ issued \in 0 .. MaxRequests
  BY <1>1, ServeEffect, RequestShape DEF Accept, BankTypeOK, WireTypeOK, RequestsInv
<1>3. d.nonce \in 1 .. issued
  BY <1>2, WireAssumption
<1>. QED
  BY <1>1, <1>3, ServeEffect DEF Answer

\* Every step of the system is a step of the ATM, an answer of its bank, or none.
LEMMA StepIsAtmStep ==
  ASSUME BankInv, [Next]_vars
  PROVE  [AtmNext]_atmVars
<1>1. CASE BankStep /\ UNCHANGED atmState
  <2>1. CASE \E d \in net : Serve(d)
    BY <1>1, <2>1, ServeIsAnAnswer DEF AtmNext, AnyAnswer
  <2>2. CASE UNCHANGED wireVars
    BY <1>1, <2>2 DEF atmVars
  <2>. QED
    BY <1>1, <2>1, <2>2 DEF BankStep, CreateCard, AddAccount, Deposit, Restart
<1>2. CASE AtmStep
  BY <1>2 DEF AtmNext
<1>3. CASE UNCHANGED vars
  BY <1>3 DEF vars, bankVars, atmVars
<1>. QED
  BY <1>1, <1>2, <1>3 DEF Next

\* To the ATM, the bank is one of those it was proved against: it answers requests
\* that were sent, and touches nothing of the ATM's.
THEOREM SystemImplementsAtm == Spec => AtmSpec
<1>1. Init => AtmAloneInit
  BY DEF Init, BankInit, AtmAloneInit
<1>2. BankInv /\ [Next]_vars => [AtmNext]_atmVars
  BY StepIsAtmStep
<1>. QED
  BY <1>1, <1>2, SystemImplementsBank, InvHolds, PTL DEF Spec, AtmSpec

\* What is proved of the ATM holds in the system.
COROLLARY SystemKeepsAtm == Spec => [](AtmTypeOK /\ OutcomeWasAnswered)
BY SystemImplementsAtm, AtmIsTyped, OutcomesAreAnswered, PTL

-----------------------------------------------------------------------------
(* Across the two processes.                                               *)

\* The balances the bank has answered for the pending command were all looked at
\* while the ATM waited.
BalancesSeen ==
  pc = "waiting" =>
    \A d \in net : d.tag = "A" /\ d.nonce = pending.nonce /\ d.body.kind = "BAL" =>
      {d.body.balance} \in witnessed

\* A command in progress has printed nothing yet, and takes money from nobody but the
\* user in session.
CommandInv ==
  /\ pc # "command" => printed = Blank
  /\ pc = "waiting" /\ pending.body.op = "withdraw" => pending.body.user = currentUser

\* The session is left alone, ended, or begun on an answer.
LEMMA SessionChanges ==
  ASSUME AtmStep
  PROVE  \/ UNCHANGED <<loggedIn, currentUser, credentials>>
         \/ ~loggedIn' /\ printed'.msg \notin {"dispensed", "balance"} /\ pc' = "command"
         \/ \E d \in net : LogIn(d)
<1>1. CASE Command
  <2>1. CASE EndSession
    BY <2>1 DEF EndSession, Line
  <2>. QED
    BY <1>1, <2>1 DEF Command, BeginSession, EnterPin, AbandonLogin, Withdraw, Balance,
                      RefuseCommand, CannotAsk
<1>2. CASE Read
  BY <1>2 DEF Read, Skip, UserExists, Dispense, ShowBalance, Denied
<1>3. CASE Timeout
  BY <1>3 DEF Timeout
<1>4. CASE AtmRestart
  BY <1>4 DEF AtmRestart, Done, Blank, Line
<1>. QED
  BY <1>1, <1>2, <1>3, <1>4 DEF AtmStep

\* An OK the ATM takes for the pending login or withdrawal is backed.
LEMMA PendingBacked ==
  ASSUME AtmInv, AnswersBacked, pc = "waiting", NEW d \in net, IsAnswer(d), d.body = Ok
  PROVE  /\ pending.body.op = "auth" =>
              [name |-> pending.body.user, pin |-> pending.body.pin,
               secret |-> pending.body.secret] \in opened
         /\ pending.body.op = "withdraw" =>
              \E k \in DOMAIN debits : /\ debits[k].nonce = pending.nonce
                                       /\ debits[k].user = pending.body.user
                                       /\ debits[k].amount = pending.body.amount
<1>1. pending \in net /\ pending.tag = "R"
  BY PendingFields DEF AtmInv, PendingWasSent, RequestDatagram
<1>. QED
  BY <1>1 DEF AnswersBacked, IsAnswer

LEMMA AuthenticStep ==
  ASSUME AtmInv, AnswersBacked, SessionAuthentic, [Next]_vars
  PROVE  SessionAuthentic'
<1>1. CASE opened \subseteq opened' /\ UNCHANGED <<loggedIn, currentUser, credentials>>
  BY <1>1 DEF SessionAuthentic
<1>2. CASE ~loggedIn'
  BY <1>2 DEF SessionAuthentic
<1>3. ASSUME NEW d \in net, LogIn(d), opened' = opened
      PROVE  SessionAuthentic'
  <2>1. /\ pc = "waiting" /\ IsAnswer(d) /\ d.body = Ok /\ pending.body.op = "auth"
        /\ currentUser' = pending.body.user /\ credentials' = pending.body
    BY <1>3 DEF LogIn, Receive
  <2>2. [name |-> currentUser', pin |-> credentials'.pin, secret |-> credentials'.secret]
          \in opened'
    BY <1>3, <2>1, PendingBacked
  <2>. QED
    BY <2>2 DEF SessionAuthentic
<1>4. CASE BankStep /\ UNCHANGED atmState
  <2>1. opened \subseteq opened'
    BY <1>4, <1>1 DEF BankStep, CreateCard, AddAccount, Deposit, Restart, Serve,
       ServeExists, ServeAuth, ServeBalance, Debit, RefuseDebit
  <2>. QED
    BY <1>1, <1>4, <2>1 DEF atmState
<1>5. CASE AtmStep /\ UNCHANGED bankState
  <2>1. opened' = opened
    BY <1>5 DEF bankState
  <2>. QED
    BY <1>1, <1>2, <1>3, <1>5, <2>1, SessionChanges
<1>6. CASE UNCHANGED vars
  BY <1>1, <1>6 DEF vars, bankVars, bankState, atmState
<1>. QED
  BY <1>4, <1>5, <1>6 DEF Next

\* The debits are only ever appended to.
LEMMA DebitsGrow ==
  ASSUME BankInv, [Next]_vars
  PROVE  /\ DOMAIN debits \subseteq DOMAIN debits'
         /\ \A k \in DOMAIN debits : debits'[k] = debits[k]
<1>0. OneAccountPerName /\ BankTypeOK
  BY DEF BankInv, NamesInv
<1>1. ASSUME NEW d \in net, Debit(d)
      PROVE  /\ DOMAIN debits \subseteq DOMAIN debits'
             /\ \A k \in DOMAIN debits : debits'[k] = debits[k]
  <2>1. PICK record \in DebitRecord : debits' = Append(debits, record)
    BY <1>0, <1>1, DebitEffect
  <2>. QED
    BY <1>0, <2>1 DEF BankTypeOK
<1>2. CASE UNCHANGED debits
  BY <1>2
<1>3. CASE BankStep
  BY <1>0, <1>1, <1>2, <1>3, ServeEffect
  DEF BankStep, CreateCard, AddAccount, Deposit, Restart
<1>. QED
  BY <1>2, <1>3 DEF Next, vars, bankVars, bankState

\* A failed command prints none of the lines that promise something.
LEMMA FailPromisesNothing ==
  ASSUME AtmInv, pc = "waiting", Fail
  PROVE  printed'.msg \notin {"dispensed", "balance"}
<1>1. pending.body.op \in {"exists", "auth", "balance", "withdraw"}
  BY PendingFields, RequestParts DEF AtmInv
<1>2. FailureText(pending.body.op) \notin {"dispensed", "balance"}
  BY <1>1 DEF FailureText
<1>3. printed'.msg = FailureText(pending.body.op)
  BY DEF Fail, Done, Line
<1>. QED
  BY <1>2, <1>3

\* What a step of the ATM may print: nothing new, a line that promises nothing, or an
\* outcome it was just answered.
LEMMA LineChanges ==
  ASSUME AtmInv, AtmStep
  PROVE  \/ UNCHANGED <<printed, currentUser>> /\ UNCHANGED wireVars
         \/ printed'.msg \notin {"dispensed", "balance"}
         \/ \E d \in net : Dispense(d)
         \/ \E d \in net : ShowBalance(d)
<1>1. ASSUME NEW request, Ask(request)
      PROVE  printed'.msg \notin {"dispensed", "balance"}
  BY <1>1 DEF Ask, Blank, Line
<1>2. CASE Command
  <2>0. ASSUME NEW line \in {"Unable to access card", "Not authorized", "No such user",
                             "Insufficient funds", "No user logged in",
                             "A user is already logged in"},
               printed' = Line(line, 0, 0)
        PROVE  printed'.msg \notin {"dispensed", "balance"}
    <3>1. printed'.msg = line
      BY <2>0 DEF Line
    <3>. QED
      BY <2>0, <3>1
  <2>1. CASE AbandonLogin
    BY <2>0, <2>1 DEF AbandonLogin, Done
  <2>2. CASE EndSession
    BY <2>2 DEF EndSession, Line
  <2>3. CASE RefuseCommand
    <3>1. \/ printed' = Line("A user is already logged in", 0, 0)
          \/ printed' = Line("No user logged in", 0, 0)
      BY <2>3 DEF RefuseCommand
    <3>. QED
      BY <2>0, <3>1
  <2>4. CASE CannotAsk
    <3>1. \/ printed' = Line("No such user", 0, 0)
          \/ printed' = Line("Not authorized", 0, 0)
          \/ printed' = Line("Insufficient funds", 0, 0)
          \/ printed' = Line("No user logged in", 0, 0)
      BY <2>4, Zenon DEF CannotAsk, FailureText, Done
    <3>. QED
      BY <2>0, <3>1
  <2>. QED
    BY <1>1, <1>2, <2>1, <2>2, <2>3, <2>4
    DEF Command, BeginSession, EnterPin, Withdraw, Balance
<1>3. CASE Read
  <2>1. ASSUME NEW d \in net \cup {Junk}, Skip(d)
        PROVE  \/ UNCHANGED <<printed, currentUser>> /\ UNCHANGED wireVars
               \/ printed'.msg \notin {"dispensed", "balance"}
    BY <2>1, FailPromisesNothing DEF Skip
  <2>2. ASSUME NEW d \in net, UserExists(d)
        PROVE  UNCHANGED <<printed, currentUser>> /\ UNCHANGED wireVars
    BY <2>2 DEF UserExists
  <2>3. ASSUME NEW d \in net, LogIn(d)
        PROVE  printed'.msg \notin {"dispensed", "balance"}
    BY <2>3 DEF LogIn, Done, Line
  <2>4. ASSUME NEW d \in net, Denied(d)
        PROVE  printed'.msg \notin {"dispensed", "balance"}
    BY <2>4, FailPromisesNothing DEF Denied, Receive
  <2>. QED
    BY <1>3, <2>1, <2>2, <2>3, <2>4 DEF Read
<1>4. CASE Timeout
  BY <1>4, FailPromisesNothing DEF Timeout
<1>5. CASE AtmRestart
  BY <1>5 DEF AtmRestart, Done, Blank, Line
<1>. QED
  BY <1>2, <1>3, <1>4, <1>5 DEF AtmStep

\* Where a step of the ATM may leave a command.
LEMMA CommandChanges ==
  ASSUME AtmStep
  PROVE  \/ /\ pc' = "waiting" /\ printed' = Blank /\ issued' = issued + 1
            /\ currentUser' = currentUser /\ pc \in {"command", "pin"}
            /\ pending'.nonce = issued + 1
            /\ \A d \in net' : d.tag = "A" => d \in net
            /\ pending'.body.op = "withdraw" => pending'.body.user = currentUser
         \/ pc' = "command" /\ UNCHANGED wireVars
         \/ UNCHANGED <<pc, pending, printed, currentUser>> /\ UNCHANGED wireVars
         \/ pc = "waiting" /\ pc' = "pin" /\ printed' = printed /\ UNCHANGED wireVars
<1>1. ASSUME NEW request, Ask(request), pc \in {"command", "pin"},
             request.op = "withdraw" => request.user = currentUser, currentUser' = currentUser
      PROVE  /\ pc' = "waiting" /\ printed' = Blank /\ issued' = issued + 1
             /\ currentUser' = currentUser /\ pc \in {"command", "pin"}
             /\ pending'.nonce = issued + 1
             /\ \A d \in net' : d.tag = "A" => d \in net
             /\ pending'.body.op = "withdraw" => pending'.body.user = currentUser
  BY <1>1 DEF Ask, SendRequest, Send, RequestDatagram
<1>2. CASE Command
  <2>1. ASSUME NEW u \in Name, BeginSession(u)
        PROVE  \E request : /\ Ask(request) /\ pc \in {"command", "pin"}
                            /\ request.op = "withdraw" => request.user = currentUser
                            /\ currentUser' = currentUser
    BY <2>1 DEF BeginSession, ExistsRequest
  <2>2. ASSUME NEW p \in Pin, NEW s \in Secret, EnterPin(p, s)
        PROVE  \E request : /\ Ask(request) /\ pc \in {"command", "pin"}
                            /\ request.op = "withdraw" => request.user = currentUser
                            /\ currentUser' = currentUser
    BY <2>2 DEF EnterPin, AuthRequest
  <2>3. ASSUME NEW a \in Amount, Withdraw(a)
        PROVE  \E request : /\ Ask(request) /\ pc \in {"command", "pin"}
                            /\ request.op = "withdraw" => request.user = currentUser
                            /\ currentUser' = currentUser
    BY <2>3 DEF Withdraw, WithdrawRequest
  <2>4. ASSUME Balance
        PROVE  \E request : /\ Ask(request) /\ pc \in {"command", "pin"}
                            /\ request.op = "withdraw" => request.user = currentUser
                            /\ currentUser' = currentUser
    BY <2>4 DEF Balance, BalanceRequest
  <2>5. CASE AbandonLogin \/ CannotAsk
    <3>1. pc' = "command" /\ UNCHANGED wireVars
      BY <2>5, Zenon DEF AbandonLogin, CannotAsk, Done
    <3>. QED
      BY <3>1
  <2>6. CASE EndSession \/ RefuseCommand
    BY <2>6 DEF EndSession, RefuseCommand
  <2>. QED
    BY <1>1, <1>2, <2>1, <2>2, <2>3, <2>4, <2>5, <2>6 DEF Command
<1>3. CASE Read
  BY <1>3 DEF Read, Skip, UserExists, LogIn, Dispense, ShowBalance, Denied, Receive, Fail, Done
<1>4. CASE Timeout \/ AtmRestart
  BY <1>4 DEF Timeout, AtmRestart, Fail, Done
<1>. QED
  BY <1>2, <1>3, <1>4 DEF AtmStep

LEMMA CommandInvStep ==
  ASSUME CommandInv, [Next]_vars
  PROVE  CommandInv'
<1>1. CASE UNCHANGED atmState
  BY <1>1 DEF CommandInv, atmState
<1>2. CASE AtmStep
  BY <1>2, CommandChanges DEF CommandInv
<1>. QED
  BY <1>1, <1>2 DEF Next, vars

LEMMA DispenseBackedStep ==
  ASSUME BankInv, AtmInv, AnswersBacked, CommandInv, DispenseBacked, [Next]_vars
  PROVE  DispenseBacked'
<1>1. CASE UNCHANGED <<printed, currentUser>>
  BY <1>1, DebitsGrow DEF DispenseBacked
<1>2. CASE printed'.msg # "dispensed"
  BY <1>2 DEF DispenseBacked
<1>3. ASSUME NEW d \in net, Dispense(d)
      PROVE  DispenseBacked'
  <2>1. /\ pc = "waiting" /\ IsAnswer(d) /\ d.body = Ok /\ pending.body.op = "withdraw"
        /\ printed'.nonce = pending.nonce /\ printed'.amount = pending.body.amount
        /\ currentUser' = currentUser
    BY <1>3 DEF Dispense, Receive, Done, Line
  <2>2. PICK k \in DOMAIN debits : /\ debits[k].nonce = pending.nonce
                                   /\ debits[k].user = pending.body.user
                                   /\ debits[k].amount = pending.body.amount
    BY <2>1, PendingBacked
  <2>3. pending.body.user = currentUser
    BY <2>1 DEF CommandInv
  <2>. QED
    BY <2>1, <2>2, <2>3, DebitsGrow DEF DispenseBacked
<1>4. ASSUME NEW d \in net, ShowBalance(d)
      PROVE  printed'.msg # "dispensed"
  BY <1>4 DEF ShowBalance, Done, Line
<1>5. CASE UNCHANGED atmState
  BY <1>1, <1>5 DEF atmState
<1>6. CASE AtmStep
  BY <1>1, <1>2, <1>3, <1>4, <1>6, LineChanges
<1>. QED
  BY <1>5, <1>6 DEF Next, vars

\* The history of the account the ATM waits on loses nothing until the next request.
LEMMA WitnessedGrows ==
  ASSUME [Next]_vars, issued' = issued
  PROVE  /\ witnessed \subseteq witnessed'
         /\ Watch /\ pc = "waiting" => Snapshot(users', pending.body.user) \in witnessed'
BY DEF Next, Watch, vars

\* While names are unique, the snapshot of an account is its balance.
LEMMA SnapshotOfUser ==
  ASSUME BankTypeOK, OneAccountPerName, NEW u, Known(u)
  PROVE  Snapshot(users, u) = {users[FindUser(u)].balance}
<1>1. FindUser(u) \in DOMAIN users /\ users[FindUser(u)].name = u
  BY FindUserFinds DEF BankTypeOK
<1>2. \A i \in DOMAIN users : users[i].name = u => i = FindUser(u)
  BY <1>1 DEF OneAccountPerName
<1>. QED
  BY <1>1, <1>2 DEF Snapshot

\* A balance answered is the balance of the moment.
LEMMA BalanceAnswered ==
  ASSUME BankInv, NEW d \in net, Serve(d), NEW a \in net', a \notin net, a.body.kind = "BAL"
  PROVE  a.nonce = d.nonce /\ {a.body.balance} = Snapshot(users', d.body.user)
<1>0. OneAccountPerName /\ BankTypeOK
  BY DEF BankInv, NamesInv
<1>1. ASSUME NEW reply, Answer(d, reply)
      PROVE  a.nonce = d.nonce /\ a.body = reply
  BY <1>1 DEF Answer, Send, AnswerDatagram
<1>2. Ok.kind # "BAL" /\ No.kind # "BAL" /\ Nsf.kind # "BAL"
  BY DEF Ok, No, Nsf
<1>3. ServeBalance(d) /\ Known(d.body.user)
  BY <1>1, <1>2 DEF Serve, ServeExists, ServeAuth, ServeBalance, Debit, RefuseDebit
<1>4. /\ users' = users
      /\ a.nonce = d.nonce /\ a.body = Bal(users[FindUser(d.body.user)].balance)
  BY <1>1, <1>3 DEF ServeBalance
<1>. QED
  BY <1>0, <1>3, <1>4, SnapshotOfUser DEF Bal

LEMMA BalancesSeenStep ==
  ASSUME BankInv, AtmInv, BalancesSeen, [Next]_vars
  PROVE  BalancesSeen'
<1>0. RequestsInv /\ issued \in Nat
  BY DEF BankInv, BankTypeOK, WireTypeOK
<1>1. CASE BankStep /\ UNCHANGED atmState /\ Watch
  <2>1. issued' = issued
    BY <1>1, ServeIsAnAnswer DEF BankStep, CreateCard, AddAccount, Deposit, Restart, wireVars
  <2>2. ASSUME pc = "waiting", NEW a \in net', a.tag = "A", a.nonce = pending.nonce,
               a.body.kind = "BAL"
        PROVE  {a.body.balance} \in witnessed'
    <3>1. CASE a \in net
      BY <2>1, <2>2, <3>1, WitnessedGrows DEF BalancesSeen
    <3>2. CASE a \notin net
      <4>1. PICK d \in net : Serve(d)
        BY <1>1, <3>2 DEF BankStep, CreateCard, AddAccount, Deposit, Restart, wireVars
      <4>2. a.nonce = d.nonce /\ {a.body.balance} = Snapshot(users', d.body.user)
        BY <2>2, <3>2, <4>1, BalanceAnswered
      <4>3. pending \in net /\ pending.tag = "R" /\ d.tag = "R"
        BY <2>2, <4>1, PendingFields, ServeEffect
        DEF AtmInv, PendingWasSent, RequestDatagram, BankInv, NamesInv, Accept
      <4>4. d = pending
        BY <1>0, <2>2, <4>2, <4>3 DEF RequestsInv
      <4>. QED
        BY <1>1, <2>1, <2>2, <4>2, <4>4, WitnessedGrows
    <3>. QED
      BY <3>1, <3>2
  <2>. QED
    BY <1>1, <2>2 DEF BalancesSeen, atmState
<1>2. CASE AtmStep
  <2>1. CASE /\ pending'.nonce = issued + 1
             /\ \A d \in net' : d.tag = "A" => d \in net
    <3>1. \A d \in net' : d.tag = "A" => d.nonce # pending'.nonce
      BY <1>0, <2>1 DEF RequestsInv, BankInv, BankTypeOK, WireTypeOK
    <3>. QED
      BY <3>1 DEF BalancesSeen
  <2>2. CASE pc' # "waiting"
    BY <2>2 DEF BalancesSeen
  <2>3. CASE UNCHANGED <<pc, pending>> /\ UNCHANGED wireVars
    BY <2>3, WitnessedGrows DEF BalancesSeen, wireVars
  <2>. QED
    BY <1>2, <2>1, <2>2, <2>3, CommandChanges
<1>3. CASE UNCHANGED vars
  BY <1>3 DEF BalancesSeen, vars, bankVars, wireVars, atmState
<1>. QED
  BY <1>1, <1>2, <1>3 DEF Next

LEMMA BalanceCurrentStep ==
  ASSUME BankInv, AtmInv, BalancesSeen, BalanceCurrent, [Next]_vars
  PROVE  BalanceCurrent'
<1>1. CASE UNCHANGED printed /\ issued' = issued
  BY <1>1, WitnessedGrows DEF BalanceCurrent
<1>2. CASE printed'.msg # "balance"
  BY <1>2 DEF BalanceCurrent
<1>3. ASSUME NEW d \in net, ShowBalance(d)
      PROVE  BalanceCurrent'
  <2>1. /\ issued' = issued /\ printed'.amount = d.body.balance
        /\ {d.body.balance} \in witnessed
    <3>1. /\ pc = "waiting" /\ IsAnswer(d) /\ d.body.kind = "BAL"
          /\ issued' = issued /\ printed'.amount = d.body.balance
      BY <1>3 DEF ShowBalance, Receive, Done, Line, wireVars
    <3>. QED
      BY <3>1 DEF BalancesSeen, IsAnswer
  <2>. QED
    BY <2>1, WitnessedGrows DEF BalanceCurrent
<1>4. ASSUME NEW d \in net, Dispense(d)
      PROVE  printed'.msg # "balance"
  BY <1>4 DEF Dispense, Done, Line
<1>5. CASE BankStep /\ UNCHANGED atmState
  <2>1. issued' = issued
    BY <1>5, ServeIsAnAnswer DEF BankStep, CreateCard, AddAccount, Deposit, Restart, wireVars
  <2>. QED
    BY <1>1, <1>5, <2>1 DEF atmState
<1>6. CASE AtmStep
  BY <1>1, <1>2, <1>3, <1>4, <1>6, LineChanges DEF wireVars
<1>7. CASE UNCHANGED vars
  BY <1>1, <1>7 DEF vars, bankVars, wireVars, atmState
<1>. QED
  BY <1>5, <1>6, <1>7 DEF Next

-----------------------------------------------------------------------------
(* The inductive invariant of the system, and its theorems.                *)

SystemInv ==
  /\ CommandInv /\ BalancesSeen
  /\ SessionAuthentic /\ DispenseBacked /\ BalanceCurrent

LEMMA SystemInvInit == Init => SystemInv
<1>. SUFFICES ASSUME Init PROVE SystemInv
  OBVIOUS
<1>1. pc = "command" /\ printed.msg = ""
  BY DEF Init, AtmInit, Blank, Line
<1>2. ~loggedIn
  BY DEF Init, AtmInit
<1>3. CommandInv /\ BalancesSeen /\ DispenseBacked /\ BalanceCurrent
  BY <1>1 DEF CommandInv, BalancesSeen, DispenseBacked, BalanceCurrent
<1>. QED
  BY <1>2, <1>3 DEF SystemInv, SessionAuthentic

LEMMA SystemInvStep ==
  BankInv /\ AtmInv /\ AnswersBacked /\ SystemInv /\ [Next]_vars => SystemInv'
BY CommandInvStep, BalancesSeenStep, AuthenticStep, DispenseBackedStep, BalanceCurrentStep
DEF SystemInv

LEMMA SystemInvHolds == Spec => [](BankInv /\ AtmInv /\ AnswersBacked /\ SystemInv)
<1>1. Spec => [](BankInv /\ AnswersBacked)
  BY SystemImplementsBank, InvHolds, AnswersAreBacked, PTL
<1>2. Spec => []AtmInv
  BY SystemImplementsAtm, AtmInvInit, AtmInvStep, PTL DEF AtmSpec
<1>. QED
  BY <1>1, <1>2, SystemInvInit, SystemInvStep, PTL DEF Spec

\* Both factors of the account are needed for every session.
THEOREM SessionsAreAuthentic == Spec => []SessionAuthentic
<1>1. SystemInv => SessionAuthentic
  BY DEF SystemInv
<1>. QED
  BY <1>1, SystemInvHolds, PTL

\* Money leaves the machine only against a debit of the user in session, for this
\* command and by this amount.
THEOREM CashIsDebited == Spec => []DispenseBacked
<1>1. SystemInv => DispenseBacked
  BY DEF SystemInv
<1>. QED
  BY <1>1, SystemInvHolds, PTL

\* No stale balance is ever shown.
THEOREM BalancesAreCurrent == Spec => []BalanceCurrent
<1>1. SystemInv => BalanceCurrent
  BY DEF SystemInv
<1>. QED
  BY <1>1, SystemInvHolds, PTL

-----------------------------------------------------------------------------
(* Payments.                                                               *)

PaidType == [id : 0 .. MaxRequests, user : Name \cup {NoUser}, amount : Amount]

\* What was paid was paid for an earlier request than the one in progress.
PaidInv ==
  /\ dispensed \in Seq(PaidType)
  /\ \A i \in DOMAIN dispensed :
       /\ dispensed[i].id <= issued
       /\ pc = "waiting" => dispensed[i].id # pending.nonce

\* A payment is the outcome of the withdrawal the ATM was waiting for, backed by a
\* debit of the user in session.
LEMMA PayEffect ==
  ASSUME BankInv, AtmInv, AnswersBacked, CommandInv, AtmStep, Pay
  PROVE  \/ dispensed' = dispensed
         \/ /\ pc = "waiting" /\ pc' = "command" /\ UNCHANGED wireVars
            /\ \E w \in Debited \cap PaidType :
                 w.id = pending.nonce /\ dispensed' = Append(dispensed, w)
<1>1. CASE ~(pc = "waiting" /\ printed'.msg = "dispensed")
  BY <1>1 DEF Pay
<1>2. CASE pc = "waiting" /\ printed'.msg = "dispensed"
  <2>1. printed.msg # "dispensed"
    <3>1. printed = Blank
      BY <1>2 DEF CommandInv
    <3>. QED
      BY <3>1 DEF Blank, Line
  <2>2. ASSUME NEW d \in net, ShowBalance(d)
        PROVE  FALSE
    BY <1>2, <2>2 DEF ShowBalance, Done, Line
  <2>3. PICK d \in net : Dispense(d)
    BY <1>2, <2>1, <2>2, LineChanges
  <2>4. /\ IsAnswer(d) /\ d.body = Ok /\ pending.body.op = "withdraw"
        /\ printed'.nonce = pending.nonce /\ printed'.amount = pending.body.amount
        /\ pc' = "command" /\ UNCHANGED wireVars
    BY <2>3 DEF Dispense, Receive, Done, Line
  <2>5. PICK k \in DOMAIN debits : /\ debits[k].nonce = pending.nonce
                                   /\ debits[k].user = pending.body.user
                                   /\ debits[k].amount = pending.body.amount
    BY <1>2, <2>4, PendingBacked
  <2>6. pending.body.user = currentUser
    BY <1>2, <2>4 DEF CommandInv
  <2>. DEFINE w == Withdrawal(pending.nonce, currentUser, pending.body.amount)
  <2>7. dispensed' = Append(dispensed, w)
    BY <1>2, <2>4 DEF Pay
  <2>8. w \in Debited
    BY <2>5, <2>6 DEF Debited
  <2>9. w \in PaidType /\ w.id = pending.nonce
    <3>1. pending.nonce \in 0 .. MaxRequests /\ pending.body \in Request
      BY <1>2, PendingFields DEF AtmInv
    <3>2. pending.body.amount \in Amount /\ pending.body.user \in Name
      BY <2>4, <3>1, RequestParts
    <3>. QED
      BY <2>6, <3>1, <3>2 DEF PaidType, Withdrawal
  <2>. HIDE DEF w
  <2>. QED
    BY <1>2, <2>4, <2>7, <2>8, <2>9
<1>. QED
  BY <1>1, <1>2

LEMMA PaidStep ==
  ASSUME BankInv, AtmInv, AnswersBacked, CommandInv, PaidInv, [Next]_vars
  PROVE  PaidInv'
<1>0. issued \in Nat /\ dispensed \in Seq(PaidType)
  BY DEF BankInv, BankTypeOK, WireTypeOK, PaidInv
<1>1. CASE dispensed' = dispensed /\ UNCHANGED <<pc, pending>> /\ issued' = issued
  BY <1>1 DEF PaidInv
<1>2. CASE BankStep /\ UNCHANGED <<atmState, dispensed>>
  <2>1. issued' = issued
    BY <1>2, ServeIsAnAnswer DEF BankStep, CreateCard, AddAccount, Deposit, Restart, wireVars
  <2>. QED
    BY <1>1, <1>2, <2>1 DEF atmState
<1>3. CASE AtmStep /\ Pay
  <2>1. CASE dispensed' = dispensed
    <3>1. CASE pc' = "waiting" /\ issued' = issued + 1 /\ pending'.nonce = issued + 1
      <4>1. ASSUME NEW i \in DOMAIN dispensed
            PROVE  dispensed[i].id \in Nat /\ dispensed[i].id <= issued
        <5>1. dispensed[i] \in PaidType
          BY <1>0, <4>1
        <5>. QED
          BY <5>1, <4>1, WireAssumption DEF PaidInv, PaidType
      <4>. QED
        BY <1>0, <2>1, <3>1, <4>1 DEF PaidInv
    <3>2. CASE pc' # "waiting" /\ UNCHANGED wireVars
      BY <2>1, <3>2 DEF PaidInv, wireVars
    <3>. QED
      BY <1>1, <1>3, <2>1, <3>1, <3>2, CommandChanges DEF wireVars
  <2>2. ASSUME NEW w \in Debited \cap PaidType, w.id = pending.nonce,
               dispensed' = Append(dispensed, w), pc = "waiting", pc' = "command",
               UNCHANGED wireVars
        PROVE  PaidInv'
    <3>1. w.id <= issued
      BY <1>0, <2>2, PendingFields DEF AtmInv
    <3>2. /\ dispensed' \in Seq(PaidType)
          /\ \A i \in DOMAIN dispensed' :
               (i \in DOMAIN dispensed /\ dispensed'[i] = dispensed[i]) \/ dispensed'[i] = w
      BY <1>0, <2>2
    <3>. QED
      BY <2>2, <3>1, <3>2 DEF PaidInv, wireVars
  <2>. QED
    BY <1>3, <2>1, <2>2, PayEffect
<1>4. CASE UNCHANGED vars
  BY <1>1, <1>4 DEF vars, bankVars, wireVars, atmState
<1>. QED
  BY <1>2, <1>3, <1>4 DEF Next

-----------------------------------------------------------------------------
(* Balances by name.                                                       *)

\* The first account of a name is the only one.
LEMMA OnlyAccount ==
  ASSUME NEW table \in Seq(Account), NEW i \in DOMAIN table, NEW u, table[i].name = u,
         \A j \in DOMAIN table : table[j].name = u => j = i
  PROVE  (CHOOSE k \in DOMAIN table :
            /\ table[k].name = u
            /\ \A j \in DOMAIN table : table[j].name = u => k <= j) = i
OBVIOUS

\* The balance a name shows is that of its account.
BalancesByName ==
  /\ \A i \in DOMAIN users : /\ users[i].name \in Name
                             /\ Balances[users[i].name] = users[i].balance
                             /\ users[i].balance \in Amount
  /\ \A u \in Name : ~Known(u) => Balances[u] = Closed

LEMMA BalanceShown == BankInv => BalancesByName
<1>. SUFFICES ASSUME BankInv PROVE BalancesByName
  OBVIOUS
<1>1. users \in Seq(Account) /\ OneAccountPerName
  BY DEF BankInv, BankTypeOK, NamesInv
<1>2. ASSUME NEW i \in DOMAIN users
      PROVE  /\ users[i].name \in Name
             /\ Balances[users[i].name] = users[i].balance
             /\ users[i].balance \in Amount
  <2>1. users[i] \in Account
    BY <1>1, <1>2
  <2>2. FindUser(users[i].name) = i
    BY <1>1, OnlyAccount DEF FindUser, OneAccountPerName
  <2>. QED
    BY <2>1, <2>2 DEF Account, Balances, Known
<1>. QED
  BY <1>2 DEF Balances, BalancesByName

LEMMA BalanceShownNext == BankInv' => BalancesByName'
BY BalanceShown, PTL

\* A new balance of one account is a new balance of its name, and of no other.
LEMMA BalanceChange ==
  ASSUME BankInv, BankInv', NEW u \in Name, Known(u), NEW b \in Amount,
         users' = [users EXCEPT ![FindUser(u)].balance = b]
  PROVE  /\ Balances[u] = users[FindUser(u)].balance
         /\ Balances' = [Balances EXCEPT ![u] = b]
<1>0. BankTypeOK /\ OneAccountPerName /\ users \in Seq(Account)
  BY DEF BankInv, NamesInv, BankTypeOK
<1>1. FindUser(u) \in 1 .. Len(users) /\ users[FindUser(u)].name = u
  BY <1>0, FindUserFinds
<1>2. /\ DOMAIN users' = DOMAIN users
      /\ \A j \in DOMAIN users : users'[j].name = users[j].name
  BY <1>0, <1>1, BalanceUpdate
<1>3. /\ users'[FindUser(u)].balance = b
      /\ \A j \in DOMAIN users : j # FindUser(u) => users'[j] = users[j]
  BY <1>0, <1>1 DEF Account
<1>4. FindUser(u) \in DOMAIN users
  BY <1>0, <1>1
<1>5. Balances[u] = users[FindUser(u)].balance
  BY <1>1, <1>4, BalanceShown DEF BalancesByName
<1>6. Balances'[u] = b
  BY <1>1, <1>2, <1>3, <1>4, BalanceShownNext DEF BalancesByName
<1>7. ASSUME NEW v \in Name, v # u
      PROVE  Balances'[v] = Balances[v]
  <2>1. CASE Known(v)
    <3>1. PICK j \in DOMAIN users : users[j].name = v
      BY <2>1 DEF Known
    <3>2. users'[j] = users[j]
      BY <1>1, <1>3, <1>7, <3>1
    <3>3. Balances[v] = users[j].balance
      BY <3>1, BalanceShown DEF BalancesByName
    <3>4. Balances'[v] = users'[j].balance
      BY <1>2, <3>1, <3>2, BalanceShownNext DEF BalancesByName
    <3>. QED
      BY <3>2, <3>3, <3>4
  <2>2. CASE ~Known(v)
    <3>1. ~Known(v)'
      BY <1>2, <2>2 DEF Known
    <3>. QED
      BY <2>2, <3>1, BalanceShown, BalanceShownNext DEF BalancesByName
  <2>. QED
    BY <2>1, <2>2
<1>8. /\ Balances = [v \in Name |-> Balances[v]]
      /\ Balances' = [v \in Name |-> Balances'[v]]
  BY DEF Balances
<1>. QED
  BY <1>5, <1>6, <1>7, <1>8

-----------------------------------------------------------------------------
(* The steps of the teller.                                                *)

\* No request is debited twice: so while the ring has not wrapped around.
NonceDebitedOnce ==
  \A j, k \in DOMAIN debits : debits[j].nonce = debits[k].nonce => j = k

LEMMA DebitedOnce == BankInv /\ Len(accepted) <= RingSize => NonceDebitedOnce
<1>. SUFFICES ASSUME BankInv, Len(accepted) <= RingSize,
                     NEW j \in DOMAIN debits, NEW k \in DOMAIN debits,
                     debits[j].nonce = debits[k].nonce
              PROVE  j = k
  BY DEF NonceDebitedOnce
<1>1. /\ debits[j].at \in 1 .. Len(accepted) /\ debits[k].at \in 1 .. Len(accepted)
      /\ Len(accepted) \in Nat /\ RingSize \in Nat /\ j \in Int /\ k \in Int
  BY RingSizeAssumption DEF BankInv, DebitsInv, BankTypeOK
<1>2. j < k => debits[k].at - debits[j].at > RingSize
  BY DEF BankInv, DebitWindow
<1>3. k < j => debits[j].at - debits[k].at > RingSize
  BY DEF BankInv, DebitWindow
<1>. QED
  BY <1>1, <1>2, <1>3

\* Adding an account is opening it.
LEMMA AddIsOpen ==
  ASSUME BankInv, BankInv', AddAccount, UNCHANGED dispensed
  PROVE  \E u \in Name, b \in 0 .. IntMax : Promise!Open(u, b)
<1>0. /\ users \in Seq(Account) /\ creating[1] \in Account /\ 1 \in DOMAIN creating
      /\ OneAccountPerName /\ ~Known(creating[1].name)
  BY DEF AddAccount, Idle, BankInv, BankTypeOK, NamesInv
<1>. DEFINE u == creating[1].name
            b == creating[1].balance
<1>1. u \in Name /\ b \in Amount
  BY <1>0 DEF Account
<1>2. /\ DOMAIN users' = DOMAIN users \cup {Len(users) + 1}
      /\ users'[Len(users) + 1] = creating[1]
      /\ \A j \in DOMAIN users : users'[j] = users[j]
  BY <1>0 DEF AddAccount
<1>3. Balances[u] = Closed /\ u \notin {v \in Name : \E a \in opened : a.name = v}
  BY <1>0, <1>1, BalanceShown DEF BalancesByName, OneAccountPerName
<1>4. Balances'[u] = b
  BY <1>1, <1>2, BalanceShownNext DEF BalancesByName
<1>5. ASSUME NEW v \in Name, v # u
      PROVE  Balances'[v] = Balances[v]
  <2>1. CASE Known(v)
    <3>1. PICK j \in DOMAIN users : users[j].name = v
      BY <2>1 DEF Known
    <3>. QED
      BY <1>2, <3>1, BalanceShown, BalanceShownNext DEF BalancesByName
  <2>2. CASE ~Known(v)
    <3>1. ~Known(v)'
      BY <1>2, <1>5, <2>2 DEF Known
    <3>. QED
      BY <2>2, <3>1, BalanceShown, BalanceShownNext DEF BalancesByName
  <2>. QED
    BY <2>1, <2>2
<1>6. Balances' = [Balances EXCEPT ![u] = b]
  <2>1. /\ Balances = [v \in Name |-> Balances[v]]
        /\ Balances' = [v \in Name |-> Balances'[v]]
    BY DEF Balances
  <2>. QED
    BY <1>4, <1>5, <2>1
<1>7. {v \in Name : \E a \in opened' : a.name = v}
        = {v \in Name : \E a \in opened : a.name = v} \cup {u}
  <2>1. opened' = opened \cup {IdentityOf(creating[1])} /\ IdentityOf(creating[1]).name = u
    BY DEF AddAccount, IdentityOf
  <2>. HIDE DEF u
  <2>. QED
    BY <1>1, <2>1
<1>8. Debited' = Debited
  BY DEF AddAccount, Debited
<1>. HIDE DEF u, b
<1>9. Promise!Open(u, b)
  BY <1>3, <1>6, <1>7, <1>8 DEF Promise!Open
<1>. QED
  <2>1. u \in Name /\ b \in 0 .. IntMax
    BY <1>1 DEF Amount
  <2>. QED
    BY <1>9, <2>1 DEF Promise!Open

LEMMA DepositIsDeposit ==
  ASSUME BankInv, BankInv', NEW u \in Name, NEW a \in Amount, Deposit(u, a),
         UNCHANGED dispensed
  PROVE  Promise!Deposit(u, a)
<1>0. BankTypeOK /\ OneAccountPerName /\ Known(u)
  BY DEF BankInv, NamesInv, Deposit
<1>1. /\ users[FindUser(u)].balance + a \in Amount
      /\ users' = [users EXCEPT ![FindUser(u)].balance = users[FindUser(u)].balance + a]
  BY <1>0, DepositEffect
<1>2. /\ Balances[u] = users[FindUser(u)].balance
      /\ Balances' = [Balances EXCEPT ![u] = users[FindUser(u)].balance + a]
  BY <1>0, <1>1, BalanceChange
<1>3. users[FindUser(u)].balance \in Amount
  BY <1>0, FindUserFinds DEF Account
<1>4. Balances[u] # Closed /\ Balances[u] + a <= IntMax
  BY <1>1, <1>2, <1>3, AtmBankAssumption, WireAssumption DEF Amount
<1>5. Debited' = Debited /\ opened' = opened
  BY DEF Deposit, Debited
<1>. QED
  BY <1>2, <1>4, <1>5 DEF Promise!Deposit

LEMMA DebitIsDebit ==
  ASSUME BankInv, BankInv', NonceDebitedOnce', NEW d \in net, Debit(d),
         UNCHANGED dispensed
  PROVE  \E w \in [id : 1 .. MaxRequests, user : Name, amount : 0 .. IntMax] :
           Promise!Debit(w)
<1>. DEFINE u == d.body.user
            a == d.body.amount
            w == Withdrawal(d.nonce, u, a)
<1>0. BankTypeOK /\ OneAccountPerName /\ debits \in Seq(DebitRecord)
  BY DEF BankInv, NamesInv, BankTypeOK
<1>1. PICK record \in DebitRecord :
        /\ debits' = Append(debits, record)
        /\ record.nonce = d.nonce /\ record.user = u /\ record.amount = a
  BY <1>0, DebitEffect
<1>2. /\ Known(u) /\ u \in Name
      /\ users[FindUser(u)].balance - a \in Amount
      /\ users' = [users EXCEPT ![FindUser(u)].balance = users[FindUser(u)].balance - a]
  BY <1>0, DebitEffect
<1>3. /\ Balances[u] = users[FindUser(u)].balance
      /\ Balances' = [Balances EXCEPT ![u] = users[FindUser(u)].balance - a]
  BY <1>2, BalanceChange
<1>4. users[FindUser(u)].balance \in Amount /\ a <= users[FindUser(u)].balance
  BY <1>0, <1>2, FindUserFinds DEF Account, Debit, CanDebit
<1>5. w \in [id : 1 .. MaxRequests, user : Name, amount : 0 .. IntMax]
  BY <1>1 DEF DebitRecord, Withdrawal, Amount
<1>6. /\ DOMAIN debits' = DOMAIN debits \cup {Len(debits) + 1}
      /\ debits'[Len(debits) + 1] = record /\ Len(debits) + 1 \notin DOMAIN debits
      /\ \A k \in DOMAIN debits : debits'[k] = debits[k]
  BY <1>0, <1>1
<1>7. Debited' = Debited \cup {w}
  BY <1>1, <1>6 DEF Debited, Withdrawal
<1>8. ASSUME NEW v \in Debited
      PROVE  v.id # w.id
  <2>1. PICK k \in DOMAIN debits : v.id = debits[k].nonce
    BY DEF Debited, Withdrawal
  <2>2. debits'[k].nonce # debits'[Len(debits) + 1].nonce
    BY <1>6, <2>1 DEF NonceDebitedOnce
  <2>. QED
    BY <1>1, <1>6, <2>1, <2>2 DEF Withdrawal
<1>9. w.user = u /\ w.amount = a /\ opened' = opened /\ Balances[u] # Closed
  BY <1>3, <1>4, AtmBankAssumption DEF Withdrawal, Debit
<1>. HIDE DEF w, u, a
<1>10. Promise!Debit(w)
  BY <1>3, <1>4, <1>7, <1>8, <1>9 DEF Promise!Debit
<1>. QED
  BY <1>5, <1>10

\* A bank that starts again has closed its accounts.
LEMMA RestartClosesAll ==
  ASSUME Restart, UNCHANGED dispensed
  PROVE  Promise!CloseAll
<1>1. users' = <<>> /\ UNCHANGED <<opened, debits>>
  BY DEF Restart
<1>2. Balances' = [u \in Name |-> Closed]
  BY <1>1 DEF Balances, Known
<1>3. Debited' = Debited
  BY <1>1 DEF Debited
<1>. QED
  BY <1>1, <1>2, <1>3 DEF Promise!CloseAll

\* Steps that leave the accounts and the debits alone show nothing.
LEMMA Unseen ==
  ASSUME UNCHANGED <<users, opened, debits, dispensed>>
  PROVE  UNCHANGED Promise!vars
<1>1. Balances' = Balances
  BY DEF Balances, Known, FindUser
<1>2. Debited' = Debited
  BY DEF Debited
<1>. QED
  BY <1>1, <1>2 DEF Promise!vars

\* A payment is a payment of the teller, of something that was not paid before.
LEMMA PayIsPay ==
  ASSUME BankInv, AtmInv, AnswersBacked, CommandInv, PaidInv, AtmStep, Pay,
         UNCHANGED bankState
  PROVE  [Promise!Next]_(Promise!vars)
<1>1. UNCHANGED <<users, opened, debits>>
  BY DEF bankState
<1>2. CASE dispensed' = dispensed
  BY <1>1, <1>2, Unseen
<1>3. ASSUME NEW w \in Debited, w.id = pending.nonce, dispensed' = Append(dispensed, w),
             pc = "waiting"
      PROVE  Promise!Pay(w)
  <2>1. \A i \in DOMAIN dispensed : dispensed[i].id # w.id
    BY <1>3 DEF PaidInv
  <2>2. Balances' = Balances
    BY <1>1 DEF Balances, Known, FindUser
  <2>3. Debited' = Debited
    BY <1>1 DEF Debited
  <2>. QED
    BY <1>1, <1>3, <2>1, <2>2, <2>3 DEF Promise!Pay
<1>. QED
  BY <1>2, <1>3, PayEffect DEF Promise!Next, Promise!Pay

\* Every step of the system is a step of the teller, or shows nothing.
LEMMA StepKeepsPromise ==
  ASSUME BankInv, BankInv', AtmInv, AnswersBacked, CommandInv, PaidInv,
         NonceDebitedOnce', [Next]_vars
  PROVE  [Promise!Next]_(Promise!vars)
<1>1. CASE AtmStep /\ UNCHANGED bankState /\ Pay
  BY <1>1, PayIsPay
<1>2. CASE UNCHANGED vars
  BY <1>2, Unseen DEF vars, bankVars, bankState
<1>3. CASE BankStep /\ UNCHANGED dispensed
  <2>1. ASSUME NEW u \in Name, NEW p \in Pin, NEW s \in Secret, NEW b \in Amount,
               CreateCard(u, p, s, b)
        PROVE  [Promise!Next]_(Promise!vars)
    BY <1>3, <2>1, Unseen DEF CreateCard
  <2>2. CASE AddAccount
    BY <1>3, <2>2, AddIsOpen DEF Promise!Next, Promise!Open
  <2>3. ASSUME NEW u \in Name, NEW a \in Amount, Deposit(u, a)
        PROVE  [Promise!Next]_(Promise!vars)
    BY <1>3, <2>3, DepositIsDeposit DEF Promise!Next, Promise!Deposit, Amount
  <2>4. ASSUME NEW d \in net, Serve(d)
        PROVE  [Promise!Next]_(Promise!vars)
    <3>1. CASE Debit(d)
      BY <1>3, <3>1, DebitIsDebit DEF Promise!Next, Promise!Debit
    <3>2. CASE UNCHANGED <<users, debits>>
      BY <1>3, <2>4, <3>2, ServeEffect, Unseen DEF BankInv, NamesInv
    <3>. QED
      BY <2>4, <3>1, <3>2, ServeEffect DEF BankInv, NamesInv
  <2>5. CASE Restart
    BY <1>3, <2>5, RestartClosesAll DEF Promise!Next
  <2>. QED
    BY <1>3, <2>1, <2>2, <2>3, <2>4, <2>5 DEF BankStep
<1>. QED
  BY <1>1, <1>2, <1>3 DEF Next

LEMMA PaidInit == Init => PaidInv
BY EmptySeq DEF Init, PaidInv

LEMMA PromiseInit == Init => Promise!Init
<1>. SUFFICES ASSUME Init PROVE Promise!Init
  OBVIOUS
<1>1. users = <<>> /\ opened = {} /\ debits = <<>> /\ dispensed = <<>>
  BY DEF Init, BankInit
<1>2. Balances = [u \in Name |-> Closed]
  BY <1>1 DEF Balances, Known
<1>3. Debited = {}
  BY <1>1 DEF Debited
<1>. QED
  BY <1>1, <1>2, <1>3 DEF Promise!Init

LEMMA PaidInvHolds == Spec => []PaidInv
<1>1. BankInv /\ AtmInv /\ AnswersBacked /\ SystemInv /\ PaidInv /\ [Next]_vars => PaidInv'
  BY PaidStep DEF SystemInv
<1>. QED
  BY <1>1, PaidInit, SystemInvHolds, PTL DEF Spec

\* The promise rests on this alone.
LEMMA OncePromises == Spec /\ []NonceDebitedOnce => KeepsPromise
<1>1. BankInv /\ BankInv' /\ AtmInv /\ AnswersBacked /\ SystemInv /\ PaidInv
        /\ NonceDebitedOnce' /\ [Next]_vars
      => [Promise!Next]_(Promise!vars)
  BY StepKeepsPromise DEF SystemInv
<1>. QED
  BY <1>1, PromiseInit, PaidInvHolds, SystemInvHolds, PTL
  DEF Spec, KeepsPromise, Promise!Spec

\* Every command is debited once at most, paid once at most and paid only if debited,
\* and no account goes below zero or above INT_MAX, as long as the bank has accepted no
\* more requests than its replay filter holds: whatever the network loses, repeats,
\* delays or reorders, and whenever either process is killed.
THEOREM SystemKeepsPromise == Spec /\ [](Len(accepted) <= RingSize) => KeepsPromise
BY DebitedOnce, OncePromises, SystemInvHolds, PTL

LEMMA AcceptedIsBounded == Spec => [](Len(accepted) <= MaxAccepted)
<1>1. Init => Len(accepted) <= MaxAccepted
  BY BankAssumption DEF Init, BankInit
<1>2. ASSUME BankInv, Len(accepted) <= MaxAccepted, [Next]_vars
      PROVE  (Len(accepted) <= MaxAccepted)'
  <2>1. CASE UNCHANGED accepted
    BY <1>2, <2>1
  <2>2. ASSUME NEW d \in net, Serve(d)
        PROVE  (Len(accepted) <= MaxAccepted)'
    <3>1. Accept(d)
      BY <1>2, <2>2, ServeEffect DEF BankInv, NamesInv
    <3>2. Len(accepted') = Len(accepted) + 1 /\ Len(accepted) < MaxAccepted
          /\ Len(accepted) \in Nat
      BY <1>2, <3>1, AcceptEffect DEF Accept, BankInv, BankTypeOK
    <3>. QED
      BY <3>2, BankAssumption
  <2>. QED
    BY <1>2, <2>1, <2>2
    DEF Next, BankStep, CreateCard, AddAccount, Deposit, Restart, vars, bankVars, bankState
<1>3. BankInv /\ Len(accepted) <= MaxAccepted /\ [Next]_vars => (Len(accepted) <= MaxAccepted)'
  BY <1>2
<1>. QED
  BY <1>1, <1>3, SystemInvHolds, PTL DEF Spec

\* With a bound on the requests accepted in place of the premise.
COROLLARY ShortRunsKeepPromise ==
  ASSUME MaxAccepted <= RingSize
  PROVE  Spec => KeepsPromise
<1>1. BankInv /\ Len(accepted) <= MaxAccepted => Len(accepted) <= RingSize
  BY BankAssumption, RingSizeAssumption DEF BankInv, BankTypeOK
<1>. QED
  BY <1>1, AcceptedIsBounded, SystemInvHolds, SystemKeepsPromise, PTL

=============================================================================
