-------------------------------- MODULE Atm ---------------------------------
(***************************************************************************)
(* The ATM process (atm/atm.c, atm/atm-main.c): one user at a time, one    *)
(* request at a time.  A command that needs the bank sends a datagram and  *)
(* blocks in bank_request until the answer to it arrives, the socket times *)
(* out, or RecvAttempts datagrams that are not that answer have been read. *)
(*                                                                         *)
(* Usage errors print a message and change nothing; they are left out.     *)
(***************************************************************************)
EXTENDS Wire

CONSTANTS
  RecvAttempts,  \* ATM_RECV_ATTEMPTS
  NoUser         \* current_user when nobody is logged in

ASSUME AtmAssumption == RecvAttempts \in Nat \ {0} /\ NoUser \notin Name

VARIABLES
  pc,            \* where atm_process_command is: "command", "waiting" in
                 \* bank_request, or at the "pin" prompt
  pending,       \* the request being waited for, or begun with
  attempts,      \* datagrams read in vain for it
  loggedIn,      \* atm->logged_in
  currentUser,   \* atm->current_user
  credentials,   \* history: the auth request the session was granted on
  printed        \* the last line printed about a command

atmState == <<pc, pending, attempts, loggedIn, currentUser, credentials, printed>>
atmVars  == <<wireVars, atmState>>

NoRequest == RequestDatagram(0, [op |-> "none"])
NoLogin   == [op |-> "none"]

Line(msg, nonce, amount) == [msg |-> msg, nonce |-> nonce, amount |-> amount]
Blank == Line("", 0, 0)

\* What a command prints when bank_request fails or the answer is not the one
\* it wants: the two cases share a branch in the code.
FailureText(op) ==
  CASE op = "exists"   -> "No such user"
    [] op = "auth"     -> "Not authorized"
    [] op = "withdraw" -> "Insufficient funds"
    [] op = "balance"  -> "No user logged in"

-----------------------------------------------------------------------------
(* Commands.                                                               *)

\* Faulty variant: a request is sent under the nonce of the one before it.
AskUnderOldNonce(request) ==
  /\ issued < MaxRequests
  /\ issued' = IF issued = 0 THEN 1 ELSE issued
  /\ Send(RequestDatagram(issued', request))
  /\ pending' = RequestDatagram(issued', request)
  /\ attempts' = 0
  /\ pc' = "waiting"
  /\ printed' = Blank

\* The first half of bank_request, up to the receive loop.
Ask(request) ==
  /\ SendRequest(request)
  /\ pending' = RequestDatagram(issued + 1, request)
  /\ attempts' = 0
  /\ pc' = "waiting"
  /\ printed' = Blank

BeginSession(u) ==
  /\ pc = "command" /\ ~loggedIn
  /\ Ask(ExistsRequest(u))
  /\ UNCHANGED <<loggedIn, currentUser, credentials>>

Withdraw(amount) ==
  /\ pc = "command" /\ loggedIn
  /\ Ask(WithdrawRequest(currentUser, amount))
  /\ UNCHANGED <<loggedIn, currentUser, credentials>>

Balance ==
  /\ pc = "command" /\ loggedIn
  /\ Ask(BalanceRequest(currentUser))
  /\ UNCHANGED <<loggedIn, currentUser, credentials>>

EndSession ==
  /\ pc = "command" /\ loggedIn
  /\ loggedIn' = FALSE /\ currentUser' = NoUser /\ credentials' = NoLogin
  /\ printed' = Line("User logged out", 0, 0)
  /\ UNCHANGED <<wireVars, pc, pending, attempts>>

\* A command in the wrong session state is refused on the spot.
RefuseCommand ==
  /\ pc = "command"
  /\ printed' = Line(IF loggedIn THEN "A user is already logged in"
                                 ELSE "No user logged in", 0, 0)
  /\ UNCHANGED <<wireVars, pc, pending, attempts, loggedIn, currentUser, credentials>>

\* The card and the pin are read and the auth request is sent ...
EnterPin(p, s) ==
  /\ pc = "pin"
  /\ Ask(AuthRequest(pending.body.user, p, s))
  /\ UNCHANGED <<loggedIn, currentUser, credentials>>

Done(line) ==
  /\ pc' = "command" /\ pending' = NoRequest /\ attempts' = 0
  /\ printed' = line

\* ... unless the card cannot be opened, or it or the pin is malformed.
AbandonLogin ==
  /\ pc = "pin"
  /\ \E msg \in {"Unable to access card", "Not authorized"} : Done(Line(msg, 0, 0))
  /\ UNCHANGED <<wireVars, loggedIn, currentUser, credentials>>

\* bank_request returns 0 before anything is sent: no random nonce could be
\* drawn, or the request could not be sealed.
CannotAsk ==
  /\ \/ pc = "command" /\ ~loggedIn /\ Done(Line(FailureText("exists"), 0, 0))
     \/ pc = "pin" /\ Done(Line(FailureText("auth"), 0, 0))
     \/ /\ pc = "command" /\ loggedIn
        /\ \E op \in {"withdraw", "balance"} : Done(Line(FailureText(op), 0, 0))
  /\ UNCHANGED <<wireVars, loggedIn, currentUser, credentials>>

-----------------------------------------------------------------------------
(* The receive loop of bank_request, and what its caller does next.        *)

\* Faulty variant: the nonce of the answer is not compared.
IsAnswerAnyNonce(d) == d.tag = "A"

\* An answer, under the nonce just sent.
IsAnswer(d) == d.tag = "A" /\ d.nonce = pending.nonce

\* bank_request returns 0: no answer in time.
Fail == Done(Line(FailureText(pending.body.op), pending.nonce, 0))

\* Faulty variant: what does not open is skipped without being counted.
SkipUncounted(d) ==
  /\ pc = "waiting" /\ ~IsAnswer(d)
  /\ \/ d = Junk /\ UNCHANGED <<pc, pending, attempts, printed>>
     \/ d # Junk /\ attempts + 1 < RecvAttempts
                 /\ attempts' = attempts + 1 /\ UNCHANGED <<pc, pending, printed>>
     \/ d # Junk /\ attempts + 1 = RecvAttempts /\ Fail
  /\ UNCHANGED <<wireVars, loggedIn, currentUser, credentials>>

\* Faulty variant: one recvfrom per request.
SkipNone(d) ==
  /\ pc = "waiting" /\ ~IsAnswer(d)
  /\ Fail
  /\ UNCHANGED <<wireVars, loggedIn, currentUser, credentials>>

\* Anything else is skipped, RecvAttempts times at most.
Skip(d) ==
  /\ pc = "waiting" /\ ~IsAnswer(d)
  /\ \/ /\ attempts + 1 < RecvAttempts
        /\ attempts' = attempts + 1
        /\ UNCHANGED <<pc, pending, printed>>
     \/ /\ attempts + 1 = RecvAttempts
        /\ Fail
  /\ UNCHANGED <<wireVars, loggedIn, currentUser, credentials>>

\* SO_RCVTIMEO expires, or recvfrom fails.
Timeout ==
  /\ pc = "waiting"
  /\ Fail
  /\ UNCHANGED <<wireVars, loggedIn, currentUser, credentials>>

Receive(d, op) == pc = "waiting" /\ pending.body.op = op /\ IsAnswer(d)

UserExists(d) ==
  /\ Receive(d, "exists") /\ d.body = Ok
  /\ pc' = "pin" /\ attempts' = 0
  /\ UNCHANGED <<wireVars, pending, loggedIn, currentUser, credentials, printed>>

LogIn(d) ==
  /\ Receive(d, "auth") /\ d.body = Ok
  /\ loggedIn' = TRUE /\ currentUser' = pending.body.user
  /\ credentials' = pending.body
  /\ Done(Line("Authorized", pending.nonce, 0))
  /\ UNCHANGED wireVars

Dispense(d) ==
  /\ Receive(d, "withdraw") /\ d.body = Ok
  /\ Done(Line("dispensed", pending.nonce, pending.body.amount))
  /\ UNCHANGED <<wireVars, loggedIn, currentUser, credentials>>

ShowBalance(d) ==
  /\ Receive(d, "balance") /\ d.body.kind = "BAL"
  /\ Done(Line("balance", pending.nonce, d.body.balance))
  /\ UNCHANGED <<wireVars, loggedIn, currentUser, credentials>>

\* The answer is there and is not the one wanted.
Denied(d) ==
  /\ \/ \E op \in {"exists", "auth", "withdraw"} : Receive(d, op) /\ d.body # Ok
     \/ Receive(d, "balance") /\ d.body.kind # "BAL"
  /\ Fail
  /\ UNCHANGED <<wireVars, loggedIn, currentUser, credentials>>

-----------------------------------------------------------------------------
(* The process and its environment.                                        *)

\* The ATM stops (end of input) or is killed, and is started again.
AtmRestart ==
  /\ Done(Blank)
  /\ loggedIn' = FALSE /\ currentUser' = NoUser /\ credentials' = NoLogin
  /\ UNCHANGED wireVars

AtmInit ==
  /\ pc = "command" /\ pending = NoRequest /\ attempts = 0
  /\ loggedIn = FALSE /\ currentUser = NoUser /\ credentials = NoLogin
  /\ printed = Blank

\* One datagram is read from the socket.
Read ==
  \/ \E d \in net \cup {Junk} : Skip(d)
  \/ \E d \in net :
       UserExists(d) \/ LogIn(d) \/ Dispense(d) \/ ShowBalance(d) \/ Denied(d)

Command ==
  \/ \E u \in Name : BeginSession(u)
  \/ \E p \in Pin, s \in Secret : EnterPin(p, s)
  \/ AbandonLogin
  \/ \E a \in Amount : Withdraw(a)
  \/ Balance
  \/ EndSession
  \/ RefuseCommand
  \/ CannotAsk

AtmStep == Command \/ Read \/ Timeout \/ AtmRestart

\* The most general bank: any answer to any request made, true or not.
AnyAnswer ==
  /\ \E n \in 1 .. issued, reply \in Reply : Send(AnswerDatagram(n, reply))
  /\ UNCHANGED <<issued, atmState>>

AtmNext == AtmStep \/ AnyAnswer

AtmAloneInit == WireInit /\ AtmInit

AtmSpec == AtmAloneInit /\ [][AtmNext]_atmVars

-----------------------------------------------------------------------------
(* Properties.                                                             *)

Texts == {"", "User logged out", "A user is already logged in", "No user logged in",
          "Unable to access card", "Not authorized", "No such user",
          "Insufficient funds", "Authorized", "dispensed", "balance"}

\* Every variable has its type, and the session fields agree with each other:
\* current_user is set exactly while logged_in is, and a command waits for the
\* request it sent last.
AtmTypeOK ==
  /\ WireTypeOK
  /\ pc \in {"command", "waiting", "pin"}
  /\ pending \in {RequestDatagram(n, r) : n \in 1 .. issued, r \in Request} \cup {NoRequest}
  /\ attempts \in 0 .. RecvAttempts - 1
  /\ loggedIn \in BOOLEAN
  /\ currentUser \in Name \cup {NoUser}
  /\ credentials \in Request \cup {NoLogin}
  /\ printed \in [msg : Texts, nonce : 0 .. MaxRequests, amount : Amount]
  /\ loggedIn <=> currentUser # NoUser
  /\ pc = "command" <=> pending = NoRequest
  /\ pc = "waiting" => pending.nonce = issued

\* A favourable outcome on the screen is the bank's answer to that very command:
\* no stale, duplicated or misdelivered datagram is taken for it, however late
\* the answers to earlier commands arrive.
OutcomeWasAnswered ==
  LET Answered(request, reply) ==
        /\ RequestDatagram(printed.nonce, request) \in net
        /\ AnswerDatagram(printed.nonce, reply) \in net
  IN /\ printed.msg = "dispensed" =>
          \E u \in Name : Answered(WithdrawRequest(u, printed.amount), Ok)
     /\ printed.msg = "balance" =>
          \E u \in Name : Answered(BalanceRequest(u), Bal(printed.amount))
     /\ printed.msg = "Authorized" =>
          \E p \in Pin, s \in Secret : Answered(AuthRequest(currentUser, p, s), Ok)

=============================================================================
