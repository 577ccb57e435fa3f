--------------------------- MODULE SessionRouted ----------------------------
(***************************************************************************)
(* The archived submission on the network it is deployed on: UDP sockets   *)
(* and a router that repeats and reorders nothing.  The ATM reads a single *)
(* datagram per request, so that one that comes too late stays in its      *)
(* socket and is read in the place of the next answer.                     *)
(*                                                                         *)
(* A failure is a datagram that is lost, a timeout of the ATM although the *)
(* answer is on its way, or a process that is killed.                      *)
(***************************************************************************)
EXTENDS SessionSystem

CONSTANTS
  MaxFailures,     \* bound of the model: failures in a behaviour
  Grace            \* nonces the ATM may use up to recover from a failure

ASSUME SessionRoutedAssumption == MaxFailures \in Nat /\ Grace \in Nat

VARIABLES
  atRouter,        \* the router's receive buffer: datagrams with their source
  atBank,          \* the bank's
  atAtm,           \* the ATM's
  failures,        \* failures so far
  failedAt         \* history: nonces drawn when the last failure happened

sockets    == <<atRouter, atBank, atAtm>>
faults     == <<failures, failedAt>>
routedVars == <<vars, sockets, faults>>

\* "ERROR" and "AUTH_FAIL" are datagrams like any other.
Refusal == [kind |-> "REFUSED"]

Failure ==
  /\ failures < MaxFailures /\ failures' = failures + 1
  /\ failedAt' = clientNonces

Queue(source, d) == atRouter' = Append(atRouter, [from |-> source, datagram |-> d])

\* The datagram a step of the given process sends, if it sends one.
Transmit(source) ==
  \/ net' = net /\ UNCHANGED atRouter
  \/ \E d \in net' \ net : Queue(source, d)

-----------------------------------------------------------------------------
(* The router.                                                             *)

\* Faulty variant: a request passed on may be queued again.
ForwardRequeueing ==
  /\ atRouter # <<>>
  /\ \/ atRouter' = Tail(atRouter)
     \/ Head(atRouter).from = "atm" /\ atRouter' = Append(Tail(atRouter), Head(atRouter))
  /\ LET d == Head(atRouter).datagram
     IN  \/ Head(atRouter).from = "atm" /\ atBank' = Append(atBank, d) /\ UNCHANGED atAtm
         \/ Head(atRouter).from = "bank" /\ atAtm' = Append(atAtm, d) /\ UNCHANGED atBank
  /\ UNCHANGED <<vars, faults>>

Forward ==
  /\ atRouter # <<>>
  /\ atRouter' = Tail(atRouter)
  /\ LET d == Head(atRouter).datagram
     IN  \/ Head(atRouter).from = "atm" /\ atBank' = Append(atBank, d) /\ UNCHANGED atAtm
         \/ Head(atRouter).from = "bank" /\ atAtm' = Append(atAtm, d) /\ UNCHANGED atBank
  /\ UNCHANGED <<vars, faults>>

Front(buffer) == SubSeq(buffer, 1, Len(buffer) - 1)

\* The datagram that came last finds the buffer full.
Lose ==
  /\ Failure
  /\ \/ atRouter # <<>> /\ atRouter' = Front(atRouter) /\ UNCHANGED <<atBank, atAtm>>
     \/ atBank # <<>> /\ atBank' = Front(atBank) /\ UNCHANGED <<atRouter, atAtm>>
     \/ atAtm # <<>> /\ atAtm' = Front(atAtm) /\ UNCHANGED <<atRouter, atBank>>
  /\ UNCHANGED vars

-----------------------------------------------------------------------------
(* The bank, at its socket.                                                *)

\* What is not served is answered as well.
Refused(d) ==
  \/ d.kind = "AUTH" /\ ~ProvesIdentity(d)
  \/ d.kind \in {"BALANCE", "WITHDRAW", "END"} /\ ~Acceptable(d)

BankReceives ==
  /\ atBank # <<>>
  /\ atBank' = Tail(atBank)
  /\ LET d == Head(atBank)
     IN  \/ /\ \/ ServeExists(d) \/ ServeAuth(d)
               \/ ServeBalance(d) \/ ServeWithdraw(d) \/ RefuseWithdraw(d) \/ ServeEnd(d)
            /\ Transmit("bank")
         \/ /\ Refused(d)
            /\ UNCHANGED <<wireVars, bankState>> /\ Queue("bank", Refusal)
  /\ UNCHANGED <<atmState, dispensed, atAtm, faults>> /\ Watch

BankConsole ==
  /\ \/ \E u \in Name, p \in Pin, s \in Secret, b \in Amount : CreateUser(u, p, s, b)
     \/ \E u \in Name : CreateUserFails(u)
     \/ \E u \in Name, a \in Amount : Deposit(u, a)
  /\ UNCHANGED <<atmState, dispensed, sockets, faults>> /\ Watch

BankCrash ==
  /\ Restart /\ Failure
  /\ atBank' = <<>>
  /\ UNCHANGED <<atmState, dispensed, atRouter, atAtm>> /\ Watch

-----------------------------------------------------------------------------
(* The ATM, at its socket.                                                 *)

AtmCommand ==
  /\ Command
  /\ Transmit("atm")
  /\ UNCHANGED <<bankState, atBank, atAtm, faults>> /\ Watch /\ Pay

\* The answer the command accepts.
Expected(d) ==
  \/ pending.kind = "EXISTS"   /\ d \in {ExistsOk(pending.user, pending.nonce),
                                        ExistsNo(pending.user, pending.nonce)}
  \/ pending.kind = "AUTH"     /\ GrantsLogin(d)
  \/ pending.kind = "BALANCE"  /\ Answers(d, "BALANCE_IS")
  \/ pending.kind = "WITHDRAW" /\ (Answers(d, "DISPENSE") \/ Answers(d, "INSUFFICIENT"))

\* One datagram is read, and it decides.
AtmReceives ==
  /\ atAtm # <<>>
  /\ LET d == Head(atAtm)
     IN  \/ UserExists(d) \/ NoSuchUser(d) \/ LogIn(d)
         \/ ShowBalance(d) \/ DispenseCash(d) \/ ShowInsufficient(d)
         \/ LogOut
         \/ ~Expected(d) /\ Fail
  /\ atAtm' = Tail(atAtm)
  /\ UNCHANGED <<bankState, atRouter, atBank, faults>> /\ Watch /\ Pay

\* Something is still on its way to the ATM.
Underway == atRouter # <<>> \/ atBank # <<>>

\* recvfrom times out only while there is nothing to receive.
AtmTimeout ==
  /\ atAtm = <<>> /\ (Fail \/ LogOut)
  /\ IF Underway THEN Failure ELSE UNCHANGED faults
  /\ UNCHANGED <<bankState, sockets>> /\ Watch /\ Pay

AtmCrash ==
  /\ AtmRestart /\ Failure
  /\ atAtm' = <<>>
  /\ UNCHANGED <<bankState, atRouter, atBank>> /\ Watch /\ Pay

RoutedInit ==
  /\ Init
  /\ atRouter = <<>> /\ atBank = <<>> /\ atAtm = <<>>
  /\ failures = 0 /\ failedAt = 0

RoutedNext ==
  \/ Forward \/ Lose
  \/ BankReceives \/ BankConsole \/ BankCrash
  \/ AtmCommand \/ AtmReceives \/ AtmTimeout \/ AtmCrash

\* The router and both receivers keep running, and a blocked recvfrom returns
\* after two seconds when nothing is to come.
RoutedSpec ==
  /\ RoutedInit /\ [][RoutedNext]_routedVars
  /\ WF_routedVars(Forward) /\ WF_routedVars(BankReceives)
  /\ WF_routedVars(AtmReceives) /\ WF_routedVars(~Underway /\ AtmTimeout)

-----------------------------------------------------------------------------
(* Properties.                                                             *)

\* The ATM falls behind by one datagram for each failure at most: whatever happens,
\* no more datagrams are on their way than there were failures, but for the round
\* trip being waited for.
BacklogIsBounded ==
  Len(atRouter) + Len(atBank) + Len(atAtm) <= failures + IF pc = "waiting" THEN 1 ELSE 0

\* Without failures the bank refuses no request made within a session: counters,
\* keys and the session itself agree whenever one arrives, although each side
\* changes its own on its own.
HonestRequestsAreServed ==
  failures = 0 /\ atBank # <<>> /\ Head(atBank).kind \in {"BALANCE", "WITHDRAW", "END"}
    => Acceptable(Head(atBank))

\* The right card and pin log a user in unless something fails meanwhile.
LoginSucceeds ==
  failures = 0 /\ pc = "waiting" /\ pending.kind = "AUTH" /\ ProvesIdentity(pending)
    ~> printed.msg = "Authorized" \/ failures > 0

\* A withdrawal that is covered when it reaches the bank is paid unless something
\* fails meanwhile.
CoveredCashIsPaid ==
  /\ failures = 0 /\ atBank # <<>> /\ Head(atBank).kind = "WITHDRAW"
  /\ accounts[session.user].balance >= Head(atBank).amount
  ~> printed.msg = "dispensed" \/ failures > 0

\* The ATM recovers from failures: once it has used up Grace nonces without a
\* further one, a begin-session that reaches the bank for a user it knows gets to
\* the pin prompt (atm.md).
CatchesUp ==
  \A n \in 1 .. MaxNonces :
    /\ pc = "waiting" /\ pending.kind = "EXISTS" /\ pending.nonce = n
    /\ atBank = <<pending>> /\ Known(pending.user)
    /\ n > failedAt + Grace
    ~> failedAt >= n \/ (pc = "pin" /\ pending.nonce = n)

=============================================================================
