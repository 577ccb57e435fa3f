----------------------------- MODULE SessionAtm -----------------------------
(***************************************************************************)
(* The ATM of the archived submission (break-it/6825f15e/atm/atm.c).  A    *)
(* command sends one request and reads one datagram: if that is not the    *)
(* right answer, or none comes in time, the command fails, and the session *)
(* with it.  A request that cannot be built or sent is one that gets lost. *)
(* Usage errors and commands in the wrong session state only print.        *)
(***************************************************************************)
EXTENDS SessionWire

CONSTANTS
  NoUser,          \* current_user when nobody is logged in
  NoSecret,        \* current_card_secret when it was cleared
  NoSessionKey     \* session_key when it was cleared

ASSUME SessionAtmAssumption == NoUser \notin Name

VARIABLES
  pc,              \* "command", "waiting" for a datagram, or at the "pin" prompt
  pending,         \* the request sent last
  session,         \* the ATM structure: user, secret, key, nextCounter
  printed          \* the outcome of the last command

atmState == <<pc, pending, session, printed>>

NoRequest == [kind |-> "NONE"]

\* clear_session
NoSession ==
  [user |-> NoUser, secret |-> NoSecret, key |-> NoSessionKey, nextCounter |-> 1]

loggedIn == session.user # NoUser

Line(msg, amount) == [msg |-> msg, amount |-> amount]
Blank == Line("", 0)

Ask(request) ==
  /\ Send(request)
  /\ pending' = request /\ pc' = "waiting" /\ printed' = Blank

-----------------------------------------------------------------------------
(* Commands.                                                               *)

BeginSession(u) ==
  /\ pc = "command" /\ ~loggedIn
  /\ clientNonces < MaxNonces /\ clientNonces' = clientNonces + 1
  /\ Ask(Exists(u, clientNonces'))
  /\ UNCHANGED <<serverNonces, session>>

\* The card is read, it names the user, and the pin is well-formed.
EnterPin(p, s) ==
  /\ pc = "pin"
  /\ clientNonces < MaxNonces /\ clientNonces' = clientNonces + 1
  /\ Ask(Auth(pending.user, clientNonces', p, s))
  /\ UNCHANGED <<serverNonces, session>>

SessionRequest(request) ==
  /\ pc = "command" /\ loggedIn
  /\ session.nextCounter <= MaxCounter
  /\ Ask(request)
  /\ UNCHANGED <<clientNonces, serverNonces, session>>

Balance == SessionRequest(BalanceOf(session.nextCounter, session.key))

WithdrawCash(a) == SessionRequest(Withdraw(a, session.nextCounter, session.key))

EndSession == SessionRequest(End(session.nextCounter, session.key))

-----------------------------------------------------------------------------
(* The datagram read.                                                      *)

Done(line) == pc' = "command" /\ pending' = NoRequest /\ printed' = line

Counted == session' = [session EXCEPT !.nextCounter = @ + 1]

UserExists(d) ==
  /\ pc = "waiting" /\ pending.kind = "EXISTS"
  /\ d = ExistsOk(pending.user, pending.nonce)
  /\ pc' = "pin"
  /\ UNCHANGED <<wireVars, pending, session, printed>>

NoSuchUser(d) ==
  /\ pc = "waiting" /\ pending.kind = "EXISTS"
  /\ d = ExistsNo(pending.user, pending.nonce)
  /\ Done(Line("No such user", 0))
  /\ UNCHANGED <<wireVars, session>>

\* Faulty variant: the HMAC covers neither the pin nor the nonce.
GrantsAnyLogin(d) ==
  /\ d.kind = "AUTH_OK"
  /\ d.key.user = pending.user /\ d.key.secret = pending.secret

\* Faulty variant: the two nonces are swapped in the message expected.
GrantsLoginSwapped(d) ==
  /\ d.kind = "AUTH_OK"
  /\ d.key.user = pending.user /\ d.key.pin = pending.pin
  /\ d.key.secret = pending.secret /\ d.key.server = pending.nonce

\* The HMAC of AUTH_OK covers the pin, the card secret and the nonce just sent.
GrantsLogin(d) ==
  /\ d.kind = "AUTH_OK"
  /\ d.key.user = pending.user /\ d.key.pin = pending.pin
  /\ d.key.secret = pending.secret /\ d.key.client = pending.nonce

LogIn(d) ==
  /\ pc = "waiting" /\ pending.kind = "AUTH" /\ GrantsLogin(d)
  /\ session' = [user |-> pending.user, secret |-> pending.secret, nextCounter |-> 1,
                 key |-> SessionKey(pending.user, pending.pin, pending.secret,
                                    pending.nonce, d.key.server)]
  /\ Done(Line("Authorized", 0))
  /\ UNCHANGED wireVars

\* Faulty variant: the counter of the answer is not compared.
AnswersAnyCounter(d, kind) == d.kind = kind /\ d.key = session.key

\* verify_balance_response, verify_withdraw_response
Answers(d, kind) ==
  /\ d.kind = kind
  /\ d.counter = session.nextCounter /\ d.key = session.key

ShowBalance(d) ==
  /\ pc = "waiting" /\ pending.kind = "BALANCE" /\ Answers(d, "BALANCE_IS")
  /\ Counted
  /\ Done(Line("balance", d.amount))
  /\ UNCHANGED wireVars

\* What is printed is the amount of the answer, not the one asked for.
DispenseCash(d) ==
  /\ pc = "waiting" /\ pending.kind = "WITHDRAW" /\ Answers(d, "DISPENSE")
  /\ Counted
  /\ Done(Line("dispensed", d.amount))
  /\ UNCHANGED wireVars

\* Faulty variant: next_counter stays where it is.
ShowInsufficientUncounted(d) ==
  /\ pc = "waiting" /\ pending.kind = "WITHDRAW" /\ Answers(d, "INSUFFICIENT")
  /\ Done(Line("Insufficient funds", 0))
  /\ UNCHANGED <<wireVars, session>>

ShowInsufficient(d) ==
  /\ pc = "waiting" /\ pending.kind = "WITHDRAW" /\ Answers(d, "INSUFFICIENT")
  /\ Counted
  /\ Done(Line("Insufficient funds", 0))
  /\ UNCHANGED wireVars

\* Whatever comes back for END, or nothing: the user is logged out.
LogOut ==
  /\ pc = "waiting" /\ pending.kind = "END"
  /\ session' = NoSession
  /\ Done(Line("User logged out", 0))
  /\ UNCHANGED wireVars

FailureText ==
  CASE pending.kind \in {"EXISTS", "AUTH"} -> "Not authorized"
    [] pending.kind = "WITHDRAW"           -> "Insufficient funds"
    [] pending.kind = "BALANCE"            -> "No user logged in"

\* Nothing in time, or any datagram but the ones above.
Fail ==
  /\ pc = "waiting" /\ pending.kind # "END"
  /\ session' = NoSession
  /\ Done(Line(FailureText, 0))
  /\ UNCHANGED wireVars

\* No card for this user, no input, or a malformed pin.
AbandonLogin ==
  /\ pc = "pin"
  /\ \E msg \in {"Unable to access card", "Not authorized"} : Done(Line(msg, 0))
  /\ UNCHANGED <<wireVars, session>>

AtmRestart ==
  /\ Done(Blank)
  /\ session' = NoSession
  /\ UNCHANGED wireVars

AtmInit ==
  /\ pc = "command" /\ pending = NoRequest /\ session = NoSession /\ printed = Blank

Command ==
  \/ \E u \in Name : BeginSession(u)
  \/ \E p \in Pin, s \in Secret : EnterPin(p, s)
  \/ AbandonLogin
  \/ Balance \/ EndSession
  \/ \E a \in Amount : WithdrawCash(a)

Read ==
  \E d \in net :
    \/ UserExists(d) \/ NoSuchUser(d) \/ LogIn(d)
    \/ ShowBalance(d) \/ DispenseCash(d) \/ ShowInsufficient(d)

AtmStep == Command \/ Read \/ LogOut \/ Fail \/ AtmRestart

=============================================================================
