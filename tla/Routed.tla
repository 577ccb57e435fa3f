------------------------------- MODULE Routed -------------------------------
(***************************************************************************)
(* The system on the network it is deployed on: three UDP sockets and a    *)
(* router that passes every datagram on by the port it came from           *)
(* (router/router-main.c, router/router.c).  The router neither repeats    *)
(* nor reorders.  What can go wrong is a failure: a datagram is lost (a    *)
(* receive buffer is full), the timeout of the ATM fires although the      *)
(* answer is on its way, or a process is killed.  There are finitely many  *)
(* failures, and liveness is about what follows the last of them.          *)
(*                                                                         *)
(* The variable net of Wire is now a history of what was ever sent, and    *)
(* every step here is a step of AtmBank or changes the sockets alone.      *)
(***************************************************************************)
EXTENDS AtmBank

CONSTANT MaxFailures     \* bound of the model: failures in a behaviour

ASSUME RoutedAssumption == MaxFailures \in Nat \ {0}

VARIABLES
  atRouter,    \* the router's receive buffer: datagrams with their source
  atBank,      \* the bank's
  atAtm,       \* the ATM's
  failures,    \* failures so far
  noisy        \* do datagrams of other programs keep arriving at the ATM?

sockets    == <<atRouter, atBank, atAtm>>
routedVars == <<vars, sockets, failures, noisy>>

Failure == failures < MaxFailures /\ failures' = failures + 1

\* The datagram a step of the given process sends, if it sends one.
Transmit(source) ==
  \/ net' = net /\ UNCHANGED atRouter
  \/ \E d \in net' \ net : atRouter' = Append(atRouter, [from |-> source, datagram |-> d])

\* What the router and the bank have yet to read, and whether the request being
\* waited for, or its answer, is among it.
Underway ==
  {atRouter[i].datagram : i \in DOMAIN atRouter} \cup {atBank[i] : i \in DOMAIN atBank}

AnswerUnderway == \E d \in Underway : d.nonce = pending.nonce

-----------------------------------------------------------------------------
(* The router and the network around it.                                   *)

Forward ==
  /\ atRouter # <<>>
  /\ atRouter' = Tail(atRouter)
  /\ \/ /\ Head(atRouter).from = "atm"
        /\ atBank' = Append(atBank, Head(atRouter).datagram)
        /\ UNCHANGED atAtm
     \/ /\ Head(atRouter).from = "bank"
        /\ atAtm' = Append(atAtm, Head(atRouter).datagram)
        /\ UNCHANGED atBank
  /\ UNCHANGED <<vars, failures, noisy>>

Front(buffer) == SubSeq(buffer, 1, Len(buffer) - 1)

\* The datagram that came last finds the buffer full.
Lose ==
  /\ Failure
  /\ \/ atRouter # <<>> /\ atRouter' = Front(atRouter) /\ UNCHANGED <<atBank, atAtm>>
     \/ atBank # <<>> /\ atBank' = Front(atBank) /\ UNCHANGED <<atRouter, atAtm>>
     \/ atAtm # <<>> /\ atAtm' = Front(atAtm) /\ UNCHANGED <<atRouter, atBank>>
  /\ UNCHANGED <<vars, noisy>>

\* Any program may send to the ATM's port.  (What arrives while the ATM waits, and
\* after the last failure, is enough to keep it waiting.)
Stray ==
  /\ noisy /\ failures = MaxFailures
  /\ pc = "waiting" /\ atAtm = <<>>
  /\ atAtm' = <<Junk>>
  /\ UNCHANGED <<vars, atRouter, atBank, failures, noisy>>

-----------------------------------------------------------------------------
(* The two processes, at their sockets.                                    *)

BankReceives ==
  /\ atBank # <<>> /\ Serve(Head(atBank))
  /\ atBank' = Tail(atBank)
  /\ Transmit("bank")
  /\ UNCHANGED <<atmState, dispensed, atAtm, failures, noisy>> /\ Watch

BankConsole ==
  /\ \/ \E u \in Name, p \in Pin, s \in Secret, b \in Amount : CreateCard(u, p, s, b)
     \/ AddAccount
     \/ \E u \in Name, a \in Amount : Deposit(u, a)
  /\ UNCHANGED <<atmState, dispensed, sockets, failures, noisy>> /\ Watch

BankCrash ==
  /\ Restart /\ Failure
  /\ atBank' = <<>>
  /\ UNCHANGED <<atmState, dispensed, atRouter, atAtm, noisy>> /\ Watch

AtmCommand ==
  /\ Command
  /\ Transmit("atm")
  /\ UNCHANGED <<bankState, atBank, atAtm, failures, noisy>> /\ Watch /\ Pay

AtmReceives ==
  /\ atAtm # <<>>
  /\ LET d == Head(atAtm)
     IN  Skip(d) \/ UserExists(d) \/ LogIn(d) \/ Dispense(d) \/ ShowBalance(d) \/ Denied(d)
  /\ atAtm' = Tail(atAtm)
  /\ UNCHANGED <<bankState, atRouter, atBank, failures, noisy>> /\ Watch /\ Pay

\* recvfrom times out only while there is nothing to receive; when the answer
\* is on its way all the same, that is a failure.
AtmTimeout ==
  /\ atAtm = <<>> /\ Timeout
  /\ IF AnswerUnderway THEN Failure ELSE UNCHANGED failures
  /\ UNCHANGED <<bankState, sockets, noisy>> /\ Watch /\ Pay

AtmCrash ==
  /\ AtmRestart /\ Failure
  /\ atAtm' = <<>>
  /\ UNCHANGED <<bankState, atRouter, atBank, noisy>> /\ Watch /\ Pay

\* Where there is noise, one failure is all that is looked at.
RoutedInit ==
  /\ Init
  /\ atRouter = <<>> /\ atBank = <<>> /\ atAtm = <<>>
  /\ noisy \in BOOLEAN /\ failures = IF noisy THEN MaxFailures - 1 ELSE 0

RoutedNext ==
  \/ Forward \/ Lose \/ Stray
  \/ BankReceives \/ BankConsole \/ BankCrash
  \/ AtmCommand \/ AtmReceives \/ AtmTimeout \/ AtmCrash

\* The router and both receive loops keep running, a blocked recvfrom returns
\* after 500 ms when nothing is to come, and create-user completes.
RoutedSpec ==
  /\ RoutedInit /\ [][RoutedNext]_routedVars
  /\ WF_routedVars(Forward) /\ WF_routedVars(BankReceives)
  /\ WF_routedVars(AtmReceives) /\ WF_routedVars(~AnswerUnderway /\ AtmTimeout)
  /\ WF_routedVars(BankConsole /\ AddAccount)

-----------------------------------------------------------------------------
(* Properties.                                                             *)

\* Without failures every "No such user" and "No user logged in" is true, and no account
\* was charged for a withdrawal that "Insufficient funds" was printed for: the three
\* ways in which this can be false (atm.md) need a late or lost answer.
FailureMessagesAreTrue ==
  failures = 0 /\ ~noisy => RefusedNotDebited /\ NoSuchUserIsTrue /\ NoUserLoggedInIsTrue

\* A command never hangs on the network: however many foreign or stale datagrams
\* keep arriving, bank_request returns.
BankRequestReturns == pc = "waiting" ~> pc # "waiting"

\* A withdrawal that is covered when it is requested is paid out once failures
\* have ended: answers to earlier commands may still be under way, and are read
\* before its own.  (They are fewer than RecvAttempts.)
CoveredWithdrawalIsPaid ==
  /\ failures = MaxFailures /\ ~noisy
  /\ pc = "waiting" /\ pending.body.op = "withdraw" /\ CanDebit(pending.body)
  /\ {d \in Underway : d.tag = "R"} = {pending}
  ~> printed.msg = "dispensed"

=============================================================================
