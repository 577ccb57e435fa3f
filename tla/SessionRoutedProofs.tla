------------------------ MODULE SessionRoutedProofs -------------------------
(***************************************************************************)
(* The archived submission behind its router is the archived submission on *)
(* an arbitrary network, for which SessionSystemProofs keeps the promise.  *)
(* Moreover its backlog is bounded by the failures, and without failures   *)
(* the bank serves every request made within a session.                    *)
(***************************************************************************)
EXTENDS SessionRouted, SessionSystemProofs, SequenceTheorems

-----------------------------------------------------------------------------
(* Sequences.                                                              *)

LEMMA SeqGrows ==
  ASSUME NEW S, NEW T, S \subseteq T
  PROVE  Seq(S) \subseteq Seq(T)
<1>. SUFFICES ASSUME NEW s \in Seq(S) PROVE s \in Seq(T)
  OBVIOUS
<1>1. Len(s) \in Nat /\ s \in [1 .. Len(s) -> S]
  OBVIOUS
<1>2. s \in [1 .. Len(s) -> T]
  BY <1>1
<1>. QED
  BY <1>1, <1>2

LEMMA HeadTail ==
  ASSUME NEW S, NEW s \in Seq(S), s # <<>>
  PROVE  /\ Head(s) \in S /\ Tail(s) \in Seq(S)
         /\ Len(s) \in Nat /\ Len(s) > 0 /\ Len(Tail(s)) = Len(s) - 1
OBVIOUS

LEMMA FrontIsSeq ==
  ASSUME NEW S, NEW s \in Seq(S), s # <<>>
  PROVE  Front(s) \in Seq(S) /\ Len(Front(s)) = Len(s) - 1
<1>1. Len(s) \in Nat /\ Len(s) > 0 /\ \A i \in 1 .. Len(s) - 1 : s[i] \in S
  OBVIOUS
<1>. DEFINE n == Len(s) - 1
            t == SubSeq(s, 1, n)
<1>2. n \in Int /\ n >= 0 /\ \A i \in 1 .. n : s[i] \in S
  BY <1>1
<1>. HIDE DEF n
<1>3. t \in Seq(S) /\ Len(t) = IF 1 <= n THEN n - 1 + 1 ELSE 0
  BY <1>2, SubSeqProperties
<1>4. Front(s) = t
  BY DEF Front, n
<1>. HIDE DEF t
<1>5. Len(t) = n
  BY <1>2, <1>3
<1>. QED
  BY <1>3, <1>4, <1>5 DEF n

\* A sequence of one.
LEMMA OneElement ==
  ASSUME NEW x
  PROVE  /\ <<x>> # <<>> /\ Head(<<x>>) = x /\ Tail(<<x>>) = <<>>
         /\ Append(<<>>, x) = <<x>>
OBVIOUS

-----------------------------------------------------------------------------
(* Refinement.                                                             *)

\* The sockets hold datagrams that were sent, and refusals of the bank.
Queued ==
  [from : {"atm"}, datagram : net] \cup [from : {"bank"}, datagram : net \cup {Refusal}]

InTransit ==
  /\ atRouter \in Seq(Queued)
  /\ atBank \in Seq(net)
  /\ atAtm \in Seq(net \cup {Refusal})

\* What is witnessed is up to date, so that a step that changes nothing else adds
\* nothing to it.
WitnessInv ==
  /\ pending.kind = "BALANCE" => Snapshot(accounts, session.user) \subseteq witnessed
  /\ pending.kind # "BALANCE" /\ printed.msg # "balance" => witnessed = {}

LEMMA WitnessStep ==
  ASSUME WitnessInv, PhaseInv', [Next]_vars
  PROVE  WitnessInv'
<1>1. CASE Watch
  <2>1. CASE pending'.kind = "BALANCE"
    <3>1. printed'.msg # "balance"
      BY <2>1, Asked DEF PhaseInv
    <3>2. Snapshot(accounts', session'.user) \subseteq witnessed'
      BY <1>1, <2>1, <3>1 DEF Watch
    <3>. QED
      BY <2>1, <3>2 DEF WitnessInv, Snapshot
  <2>2. CASE pending'.kind # "BALANCE"
    BY <1>1, <2>2 DEF Watch, WitnessInv
  <2>. QED
    BY <2>1, <2>2
<1>2. CASE UNCHANGED vars
  BY <1>2 DEF vars, bankState, atmState, WitnessInv, Snapshot
<1>. QED
  BY <1>1, <1>2 DEF Next

LEMMA NothingToWitness ==
  ASSUME PhaseInv, WitnessInv, UNCHANGED <<bankState, atmState>>, Watch
  PROVE  witnessed' = witnessed
<1>1. UNCHANGED <<accounts, pc, pending, session, printed>>
  BY DEF bankState, atmState
<1>2. pending.kind = "BALANCE" => pc = "waiting" /\ printed.msg # "balance"
  BY Asked DEF PhaseInv
<1>3. CASE pending.kind = "BALANCE"
  <2>1. witnessed' = Snapshot(accounts', session'.user) \cup witnessed
    BY <1>1, <1>2, <1>3 DEF Watch
  <2>2. Snapshot(accounts', session'.user) = Snapshot(accounts, session.user)
    BY <1>1 DEF Snapshot
  <2>. QED
    BY <1>3, <2>1, <2>2 DEF WitnessInv
<1>4. CASE pending.kind # "BALANCE"
  BY <1>1, <1>4 DEF Watch, WitnessInv
<1>. QED
  BY <1>3, <1>4

\* Nothing sent is forgotten.
LEMMA NetGrows ==
  ASSUME [Next]_vars
  PROVE  net \subseteq net'
<1>1. ASSUME NEW d, Send(d) PROVE net \subseteq net'
  BY <1>1 DEF Send
<1>2. CASE BankStep
  BY <1>1, <1>2 DEF BankStep, CreateUser, CreateUserFails, Deposit, ServeExists, ServeAuth,
     ServeBalance, ServeWithdraw, RefuseWithdraw, ServeEnd, Restart, wireVars
<1>3. CASE Command
  BY <1>1, <1>3 DEF Command, BeginSession, EnterPin, AbandonLogin, Balance, EndSession,
     WithdrawCash, SessionRequest, Ask, wireVars
<1>4. CASE Read \/ LogOut \/ Fail \/ AtmRestart
  BY <1>4 DEF Read, UserExists, NoSuchUser, LogIn, ShowBalance, DispenseCash,
     ShowInsufficient, LogOut, Fail, AtmRestart, wireVars
<1>5. CASE UNCHANGED vars
  BY <1>5 DEF vars, wireVars
<1>. QED
  BY <1>2, <1>3, <1>4, <1>5 DEF Next, AtmStep

\* The ATM takes no refusal for an answer.
LEMMA RefusalIsNoAnswer ==
  ASSUME NEW d, UserExists(d) \/ NoSuchUser(d) \/ LogIn(d)
                \/ ShowBalance(d) \/ DispenseCash(d) \/ ShowInsufficient(d)
  PROVE  d # Refusal
<1>1. CASE UserExists(d) \/ NoSuchUser(d)
  <2>1. d.kind \in {"EXISTS_OK", "EXISTS_NO"}
    <3>1. CASE d = ExistsOk(pending.user, pending.nonce)
      BY <3>1 DEF ExistsOk
    <3>2. CASE d = ExistsNo(pending.user, pending.nonce)
      BY <3>2 DEF ExistsNo
    <3>. QED
      BY <1>1, <3>1, <3>2 DEF UserExists, NoSuchUser
  <2>. QED
    BY <2>1 DEF Refusal
<1>2. CASE LogIn(d)
  BY <1>2 DEF LogIn, GrantsLogin, Refusal
<1>3. CASE ShowBalance(d) \/ DispenseCash(d) \/ ShowInsufficient(d)
  <2>1. d.kind \in {"BALANCE_IS", "DISPENSE", "INSUFFICIENT"}
    BY <1>3 DEF ShowBalance, DispenseCash, ShowInsufficient, Answers
  <2>. QED
    BY <2>1 DEF Refusal
<1>. QED
  BY <1>1, <1>2, <1>3

\* Every step behind the router is a step of the system or leaves it alone.
LEMMA RoutedIsSystem ==
  ASSUME InTransit, PhaseInv, WitnessInv, [RoutedNext]_routedVars
  PROVE  [Next]_vars
<1>1. CASE Forward \/ Lose \/ UNCHANGED routedVars
  BY <1>1 DEF Forward, Lose, routedVars
<1>2. CASE BankReceives
  <2>1. Head(atBank) \in net
    BY <1>2, HeadTail DEF BankReceives, InTransit
  <2>2. CASE UNCHANGED <<wireVars, bankState>>
    BY <1>2, <2>2, NothingToWitness DEF BankReceives, vars
  <2>3. CASE ~UNCHANGED <<wireVars, bankState>>
    BY <1>2, <2>1, <2>3 DEF BankReceives, Next, BankStep
  <2>. QED
    BY <2>2, <2>3
<1>3. CASE BankConsole
  BY <1>3 DEF BankConsole, Next, BankStep
<1>4. CASE BankCrash
  BY <1>4 DEF BankCrash, Next, BankStep
<1>5. CASE AtmCommand
  BY <1>5 DEF AtmCommand, Next, AtmStep
<1>6. CASE AtmReceives
  <2>1. Head(atAtm) \in net \cup {Refusal}
    BY <1>6, HeadTail DEF AtmReceives, InTransit
  <2>2. CASE LogOut \/ Fail
    BY <1>6, <2>2 DEF AtmReceives, Next, AtmStep
  <2>3. ASSUME NEW d, d = Head(atAtm),
               UserExists(d) \/ NoSuchUser(d) \/ LogIn(d)
               \/ ShowBalance(d) \/ DispenseCash(d) \/ ShowInsufficient(d)
        PROVE  Next
    <3>1. d \in net
      BY <2>1, <2>3, RefusalIsNoAnswer
    <3>2. Read
      BY <2>3, <3>1 DEF Read
    <3>. QED
      BY <1>6, <3>2 DEF AtmReceives, Next, AtmStep
  <2>. QED
    BY <1>6, <2>2, <2>3 DEF AtmReceives
<1>7. CASE AtmTimeout
  BY <1>7 DEF AtmTimeout, Next, AtmStep
<1>8. CASE AtmCrash
  BY <1>8 DEF AtmCrash, Next, AtmStep
<1>. QED
  BY <1>1, <1>2, <1>3, <1>4, <1>5, <1>6, <1>7, <1>8 DEF RoutedNext

LEMMA InTransitStep ==
  ASSUME InTransit, [RoutedNext]_routedVars, net \subseteq net'
  PROVE  InTransit'
<1>2. /\ atRouter \in Seq(Queued')
      /\ atBank \in Seq(net') /\ atAtm \in Seq(net' \cup {Refusal})
  <2>1. Queued \subseteq Queued'
    BY DEF Queued
  <2>2. atRouter \in Seq(Queued')
    BY <2>1, SeqGrows DEF InTransit
  <2>3. atBank \in Seq(net')
    BY SeqGrows DEF InTransit
  <2>4. net \cup {Refusal} \subseteq net' \cup {Refusal}
    OBVIOUS
  <2>5. atAtm \in Seq(net' \cup {Refusal})
    BY <2>4, SeqGrows DEF InTransit
  <2>. QED
    BY <2>2, <2>3, <2>5
<1>3. ASSUME NEW source \in {"atm", "bank"}, Transmit(source)
      PROVE  atRouter' \in Seq(Queued')
  <2>1. ASSUME NEW d \in net' \ net, Queue(source, d)
        PROVE  atRouter' \in Seq(Queued')
    <3>1. [from |-> source, datagram |-> d] \in Queued'
      BY DEF Queued
    <3>. QED
      BY <1>2, <2>1, <3>1 DEF Queue
  <2>. QED
    BY <1>2, <1>3, <2>1 DEF Transmit
<1>4. CASE Forward
  <2>1. Head(atRouter) \in Queued' /\ Tail(atRouter) \in Seq(Queued')
    BY <1>2, <1>4, HeadTail DEF Forward
  <2>2. CASE Head(atRouter).from = "atm" /\ atBank' = Append(atBank, Head(atRouter).datagram)
             /\ UNCHANGED atAtm
    <3>1. Head(atRouter).datagram \in net'
      BY <2>1, <2>2 DEF Queued
    <3>2. Append(atBank, Head(atRouter).datagram) \in Seq(net')
      BY <1>2, <3>1
    <3>. QED
      BY <1>2, <1>4, <2>1, <2>2, <3>2 DEF Forward, InTransit
  <2>3. CASE atAtm' = Append(atAtm, Head(atRouter).datagram) /\ UNCHANGED atBank
    <3>1. Head(atRouter).datagram \in net' \cup {Refusal}
      BY <2>1 DEF Queued
    <3>2. Append(atAtm, Head(atRouter).datagram) \in Seq(net' \cup {Refusal})
      BY <1>2, <3>1
    <3>. QED
      BY <1>2, <1>4, <2>1, <2>3, <3>2 DEF Forward, InTransit
  <2>. QED
    BY <1>4, <2>2, <2>3 DEF Forward
<1>5. CASE Lose
  BY <1>2, <1>5, FrontIsSeq DEF Lose, InTransit
<1>6. CASE BankReceives
  <2>1. CASE Transmit("bank")
    BY <1>2, <1>3, <1>6, <2>1, HeadTail DEF BankReceives, InTransit
  <2>2. CASE Queue("bank", Refusal)
    <3>1. [from |-> "bank", datagram |-> Refusal] \in Queued'
      BY DEF Queued
    <3>2. atRouter' \in Seq(Queued')
      BY <1>2, <2>2, <3>1 DEF Queue
    <3>. QED
      BY <1>2, <1>6, <3>2, HeadTail DEF BankReceives, InTransit
  <2>. QED
    BY <1>6, <2>1, <2>2 DEF BankReceives
<1>7. CASE BankConsole
  BY <1>2, <1>7 DEF BankConsole, InTransit, sockets
<1>8. CASE BankCrash
  BY <1>2, <1>8 DEF BankCrash, InTransit
<1>9. CASE AtmCommand
  BY <1>2, <1>3, <1>9 DEF AtmCommand, InTransit
<1>10. CASE AtmReceives
  BY <1>2, <1>10, HeadTail DEF AtmReceives, InTransit
<1>11. CASE AtmTimeout
  BY <1>2, <1>11 DEF AtmTimeout, InTransit, sockets
<1>12. CASE AtmCrash
  BY <1>2, <1>12 DEF AtmCrash, InTransit
<1>13. CASE UNCHANGED routedVars
  BY <1>2, <1>13 DEF routedVars, InTransit, sockets
<1>. QED
  BY <1>4, <1>5, <1>6, <1>7, <1>8, <1>9, <1>10, <1>11, <1>12, <1>13 DEF RoutedNext

Sound == Inv /\ SessionInv /\ SystemInv /\ InTransit /\ WitnessInv

LEMMA SoundStep ==
  ASSUME Sound, [RoutedNext]_routedVars
  PROVE  Sound' /\ [Next]_vars
<1>1. [Next]_vars
  BY RoutedIsSystem DEF Sound, SystemInv
<1>2. Inv' /\ SessionInv'
  BY <1>1, NextInv DEF Sound
<1>3. SystemInv'
  BY <1>1, BankStepKeeps, AtmStepKeeps, StutterKeeps DEF Next, Sound
<1>4. InTransit'
  BY <1>1, NetGrows, InTransitStep DEF Sound
<1>5. WitnessInv'
  BY <1>1, <1>3, WitnessStep DEF Sound, SystemInv
<1>. QED
  BY <1>1, <1>2, <1>3, <1>4, <1>5 DEF Sound

LEMMA SoundInit == RoutedInit => Init /\ Sound
<1>. SUFFICES ASSUME RoutedInit PROVE Init /\ Sound
  OBVIOUS
<1>1. Init /\ InTransit
  BY DEF RoutedInit, InTransit
<1>2. SessionInv
  BY <1>1, NoSessionHolds DEF Init, AtmInit
<1>3. WitnessInv
  BY <1>1, Asked DEF Init, AtmInit, WitnessInv
<1>. QED
  BY <1>1, <1>2, <1>3, InitInv, SystemInit DEF Sound

LEMMA RoutedSound == RoutedSpec => []Sound
BY SoundInit, SoundStep, PTL DEF RoutedSpec

\* Behind the router the two sides meet the network of SessionWire, and less: nothing
\* is repeated or reordered there, and a refusal is as good as nothing.
THEOREM RoutedImplementsSystem == RoutedSpec => Spec
BY SoundInit, SoundStep, RoutedSound, PTL DEF RoutedSpec, Spec

\* What is proved of the archived ATM and bank on an arbitrary network.
COROLLARY RoutedKeepsSystem ==
  RoutedSpec =>
    /\ [](SessionTypeOK /\ CardOpensAccount /\ OneSession /\ LoginIsAuthentic)
    /\ [](CountersAgree /\ BalanceWasCurrent)
    /\ PaidAsAsked
BY RoutedImplementsSystem, SessionTypesHold, CardsOpenAccounts, OneSessionAtATime,
   LoginsAreAuthentic, CountersStayInStep, BalancesWereCurrent, CashIsPaidAsAsked, PTL

\* The promise of Teller, behind the router.
COROLLARY RoutedKeepsPromise == RoutedSpec => SessionKeepsPromise
BY RoutedImplementsSystem, SystemKeepsPromise, PTL

-----------------------------------------------------------------------------
(* The backlog.                                                            *)

Backlog == Len(atRouter) + Len(atBank) + Len(atAtm)

BacklogInv == BacklogIsBounded /\ failures \in Nat

LEMMA Lengths ==
  ASSUME InTransit
  PROVE  Len(atRouter) \in Nat /\ Len(atBank) \in Nat /\ Len(atAtm) \in Nat
BY LenProperties DEF InTransit

\* What is sent adds one datagram to the router's buffer at most.
LEMMA TransmitAdds ==
  ASSUME InTransit, NEW source, Transmit(source) \/ Queue(source, Refusal)
  PROVE  /\ Len(atRouter') \in Nat /\ Len(atRouter') <= Len(atRouter) + 1
         /\ Transmit(source) /\ net' = net => atRouter' = atRouter
<1>1. ASSUME NEW d, Queue(source, d)
      PROVE  Len(atRouter') = Len(atRouter) + 1
  BY <1>1 DEF InTransit, Queue
<1>. QED
  BY <1>1, Lengths DEF Transmit

\* A command is asked for once, and answered once or given up.
LEMMA AskedOnce == Command => pc # "waiting" /\ (pc' = "waiting" \/ net' = net)
<1>1. AbandonLogin => pc # "waiting" /\ net' = net
  BY DEF AbandonLogin, wireVars
<1>. QED
  BY <1>1 DEF Command, BeginSession, EnterPin, Balance, EndSession, WithdrawCash,
              SessionRequest, Ask

LEMMA AnsweredOnce ==
  ASSUME NEW d, \/ UserExists(d) \/ NoSuchUser(d) \/ LogIn(d)
                \/ ShowBalance(d) \/ DispenseCash(d) \/ ShowInsufficient(d)
                \/ LogOut \/ Fail
  PROVE  pc = "waiting" /\ pc' # "waiting"
BY DEF UserExists, NoSuchUser, LogIn, ShowBalance, DispenseCash, ShowInsufficient,
       LogOut, Fail, Done

LEMMA BacklogStep ==
  ASSUME InTransit, InTransit', BacklogInv, [RoutedNext]_routedVars
  PROVE  BacklogInv'
<1>1. /\ Len(atRouter) \in Nat /\ Len(atBank) \in Nat /\ Len(atAtm) \in Nat
      /\ Len(atRouter') \in Nat /\ Len(atBank') \in Nat /\ Len(atAtm') \in Nat
      /\ failures \in Nat
      /\ Len(atRouter) + Len(atBank) + Len(atAtm) <= failures + IF pc = "waiting" THEN 1 ELSE 0
  <2>1. InTransit' => Len(atRouter') \in Nat /\ Len(atBank') \in Nat /\ Len(atAtm') \in Nat
    BY LenProperties DEF InTransit
  <2>. QED
    BY <2>1, Lengths DEF BacklogInv, BacklogIsBounded
<1>2. CASE Forward
  <2>1. Len(atRouter') = Len(atRouter) - 1
    BY <1>2, HeadTail DEF Forward, InTransit
  <2>2. \/ Len(atBank') = Len(atBank) + 1 /\ atAtm' = atAtm
        \/ Len(atAtm') = Len(atAtm) + 1 /\ atBank' = atBank
    BY <1>2 DEF Forward, InTransit
  <2>3. pc' = pc /\ failures' = failures
    BY <1>2 DEF Forward, vars, atmState, faults
  <2>. QED
    BY <1>1, <2>1, <2>2, <2>3 DEF BacklogInv, BacklogIsBounded
<1>3. CASE Lose
  <2>1. /\ pc' = pc /\ failures' = failures + 1
        /\ Len(atRouter') <= Len(atRouter) /\ Len(atBank') <= Len(atBank)
        /\ Len(atAtm') <= Len(atAtm)
    <3>1. pc' = pc /\ failures' = failures + 1
      BY <1>3 DEF Lose, Failure, vars, atmState
    <3>2. CASE atRouter # <<>> /\ atRouter' = Front(atRouter) /\ UNCHANGED <<atBank, atAtm>>
      BY <1>1, <3>1, <3>2, FrontIsSeq DEF InTransit
    <3>3. CASE atBank # <<>> /\ atBank' = Front(atBank) /\ UNCHANGED <<atRouter, atAtm>>
      BY <1>1, <3>1, <3>3, FrontIsSeq DEF InTransit
    <3>4. CASE atAtm # <<>> /\ atAtm' = Front(atAtm) /\ UNCHANGED <<atRouter, atBank>>
      BY <1>1, <3>1, <3>4, FrontIsSeq DEF InTransit
    <3>. QED
      BY <1>3, <3>2, <3>3, <3>4 DEF Lose
  <2>. QED
    BY <1>1, <2>1 DEF BacklogInv, BacklogIsBounded
<1>4. CASE BankReceives
  <2>1. Len(atBank') = Len(atBank) - 1 /\ atAtm' = atAtm /\ pc' = pc /\ failures' = failures
    BY <1>4, HeadTail DEF BankReceives, InTransit, atmState, faults
  <2>2. Len(atRouter') <= Len(atRouter) + 1
    BY <1>4, TransmitAdds DEF BankReceives
  <2>. QED
    BY <1>1, <2>1, <2>2 DEF BacklogInv, BacklogIsBounded
<1>5. CASE BankConsole \/ UNCHANGED routedVars
  <2>1. UNCHANGED <<sockets, pc, failures>>
    BY <1>5 DEF BankConsole, routedVars, vars, atmState, faults
  <2>. QED
    BY <1>1, <2>1 DEF BacklogInv, BacklogIsBounded, sockets
<1>6. CASE BankCrash
  <2>1. /\ atBank' = <<>> /\ atRouter' = atRouter /\ atAtm' = atAtm /\ pc' = pc
        /\ failures' = failures + 1
    BY <1>6 DEF BankCrash, Failure, atmState
  <2>. QED
    BY <1>1, <2>1 DEF BacklogInv, BacklogIsBounded
<1>7. CASE AtmCommand
  <2>1. pc # "waiting" /\ (pc' = "waiting" \/ net' = net)
    BY <1>7, AskedOnce DEF AtmCommand
  <2>2. /\ atBank' = atBank /\ atAtm' = atAtm /\ failures' = failures
        /\ Len(atRouter') <= Len(atRouter) + 1
        /\ net' = net => atRouter' = atRouter
    BY <1>7, TransmitAdds DEF AtmCommand, faults
  <2>. QED
    BY <1>1, <2>1, <2>2 DEF BacklogInv, BacklogIsBounded
<1>8. CASE AtmReceives
  <2>1. pc = "waiting" /\ pc' # "waiting"
    BY <1>8, AnsweredOnce DEF AtmReceives
  <2>2. /\ Len(atAtm') = Len(atAtm) - 1 /\ atRouter' = atRouter /\ atBank' = atBank
        /\ failures' = failures
    BY <1>8, HeadTail DEF AtmReceives, InTransit, faults
  <2>. QED
    BY <1>1, <2>1, <2>2 DEF BacklogInv, BacklogIsBounded
<1>9. CASE AtmTimeout
  <2>1. pc = "waiting" /\ pc' # "waiting"
    BY <1>9, AnsweredOnce DEF AtmTimeout
  <2>2. UNCHANGED sockets /\ atAtm = <<>>
    BY <1>9 DEF AtmTimeout
  <2>3. CASE Underway
    BY <1>1, <1>9, <2>1, <2>2, <2>3
       DEF AtmTimeout, Failure, sockets, BacklogInv, BacklogIsBounded
  <2>4. CASE ~Underway
    BY <1>1, <1>9, <2>1, <2>2, <2>4
       DEF AtmTimeout, Underway, faults, sockets, BacklogInv, BacklogIsBounded
  <2>. QED
    BY <2>3, <2>4
<1>10. CASE AtmCrash
  <2>1. pc' # "waiting"
    BY <1>10 DEF AtmCrash, AtmRestart, Done
  <2>2. /\ atAtm' = <<>> /\ atRouter' = atRouter /\ atBank' = atBank
        /\ failures' = failures + 1
    BY <1>10 DEF AtmCrash, Failure
  <2>. QED
    BY <1>1, <2>1, <2>2 DEF BacklogInv, BacklogIsBounded
<1>. QED
  BY <1>2, <1>3, <1>4, <1>5, <1>6, <1>7, <1>8, <1>9, <1>10 DEF RoutedNext

LEMMA BacklogHolds == RoutedSpec => []BacklogInv
<1>1. RoutedInit => BacklogInv
  BY DEF RoutedInit, BacklogInv, BacklogIsBounded
<1>2. Sound /\ Sound' /\ BacklogInv /\ [RoutedNext]_routedVars => BacklogInv'
  BY BacklogStep DEF Sound
<1>. QED
  BY <1>1, <1>2, RoutedSound, PTL DEF RoutedSpec

\* The ATM, which reads one datagram for each request, falls behind by one datagram
\* for each failure at most, for any number of them.
THEOREM BacklogStaysBounded == RoutedSpec => []BacklogIsBounded
BY BacklogHolds, PTL DEF BacklogInv

-----------------------------------------------------------------------------
(* While nothing fails.                                                    *)

\* The two sides share a session key, and the bank accepts the next counter ...
Agree ==
  \E u \in ActiveUsers :
    accounts[u].key = session.key /\ accounts[u].lastCounter < session.nextCounter

\* ... or has just accepted it.
AgreeOnAnswer ==
  \E u \in ActiveUsers :
    accounts[u].key = session.key /\ accounts[u].lastCounter <= session.nextCounter

Granted(k) == \E u \in ActiveUsers : accounts[u].key = k /\ accounts[u].lastCounter = 0

\* What the ATM takes from an answer, the bank has already.
Honours(d) ==
  /\ pending.kind = "AUTH" /\ GrantsLogin(d) => Granted(d.key)
  /\ pending.kind \in {"BALANCE", "WITHDRAW"} => AgreeOnAnswer

FromAtm     == <<[from |-> "atm", datagram |-> pending]>>
FromBank(d) == <<[from |-> "bank", datagram |-> d]>>

\* Between commands nothing is on its way ...
Quiet ==
  /\ atRouter = <<>> /\ atBank = <<>> /\ atAtm = <<>>
  /\ loggedIn /\ pc # "waiting" => Agree

\* ... and while one waits, its request ...
RequestUnderway ==
  /\ pc = "waiting" /\ atAtm = <<>>
  /\ loggedIn => Agree
  /\ \/ atRouter = FromAtm /\ atBank = <<>>
     \/ atRouter = <<>> /\ atBank = <<pending>>

\* ... or the answer to it.
ReplyUnderway ==
  /\ pc = "waiting" /\ atBank = <<>>
  /\ \E d \in net \cup {Refusal} :
       /\ Honours(d)
       /\ \/ atRouter = FromBank(d) /\ atAtm = <<>>
          \/ atRouter = <<>> /\ atAtm = <<d>>

CalmInv == failures = 0 => Quiet \/ RequestUnderway \/ ReplyUnderway

\* The one user in session is the one whose key is shared.
LEMMA TheUser ==
  ASSUME Inv, NEW u \in ActiveUsers
  PROVE  ActiveUser = u /\ ActiveUsers # {}
BY DEF Inv, OneSession, ActiveUser

\* The next request of a session that is shared is accepted.
LEMMA NextIsAcceptable ==
  ASSUME Inv, PhaseInv, pending.kind \in CommandKinds, loggedIn => Agree
  PROVE  Acceptable(pending)
<1>1. /\ loggedIn /\ pending.key = session.key /\ pending.counter = session.nextCounter
  BY DEF PhaseInv
<1>2. PICK u \in ActiveUsers :
        accounts[u].key = session.key /\ accounts[u].lastCounter < session.nextCounter
  BY <1>1 DEF Agree
<1>. QED
  BY <1>1, <1>2, TheUser DEF Acceptable

\* What keeps the sessions of the bank keeps what the ATM knows of them.
LEMMA SharedKept ==
  ASSUME UNCHANGED <<pending, session>>,
         \A u \in ActiveUsers : /\ u \in ActiveUsers'
                                /\ accounts'[u].key = accounts[u].key
                                /\ accounts'[u].lastCounter = accounts[u].lastCounter
  PROVE  /\ Agree => Agree'
         /\ \A d : Honours(d) => Honours(d)'
<1>1. Agree => Agree'
  BY DEF Agree
<1>2. AgreeOnAnswer => AgreeOnAnswer'
  BY DEF AgreeOnAnswer
<1>3. \A k : Granted(k) => Granted(k)'
  BY DEF Granted
<1>4. \A d : GrantsLogin(d)' <=> GrantsLogin(d)
  BY DEF GrantsLogin
<1>. QED
  BY <1>1, <1>2, <1>3, <1>4 DEF Honours

LEMMA CalmForward ==
  ASSUME Quiet \/ RequestUnderway \/ ReplyUnderway, Forward
  PROVE  (Quiet \/ RequestUnderway \/ ReplyUnderway)'
<1>1. UNCHANGED <<net, accounts, pc, pending, session>>
  BY DEF Forward, vars, wireVars, bankState, atmState
<1>2. (Agree => Agree') /\ (\A d : Honours(d) => Honours(d)') /\ loggedIn' = loggedIn
  BY <1>1, SharedKept DEF ActiveUsers, loggedIn
<1>3. ~Quiet
  BY DEF Quiet, Forward
<1>4. CASE RequestUnderway
  <2>1. /\ Head(atRouter) = [from |-> "atm", datagram |-> pending] /\ Tail(atRouter) = <<>>
        /\ atBank = <<>> /\ atAtm = <<>>
    BY <1>4, OneElement DEF RequestUnderway, FromAtm, Forward
  <2>2. atRouter' = <<>> /\ atBank' = <<pending>> /\ atAtm' = <<>>
    BY <2>1, OneElement DEF Forward
  <2>3. RequestUnderway'
    BY <1>1, <1>2, <1>4, <2>2 DEF RequestUnderway
  <2>. QED
    BY <2>3
<1>5. CASE ReplyUnderway
  <2>1. PICK d \in net \cup {Refusal} :
          /\ pc = "waiting" /\ atBank = <<>> /\ Honours(d)
          /\ \/ atRouter = FromBank(d) /\ atAtm = <<>>
             \/ atRouter = <<>> /\ atAtm = <<d>>
    BY <1>5 DEF ReplyUnderway
  <2>2. /\ Head(atRouter) = [from |-> "bank", datagram |-> d] /\ Tail(atRouter) = <<>>
        /\ atAtm = <<>>
    BY <2>1, OneElement DEF FromBank, Forward
  <2>3. atRouter' = <<>> /\ atAtm' = <<d>> /\ atBank' = <<>>
    BY <2>1, <2>2, OneElement DEF Forward
  <2>4. ReplyUnderway'
    BY <1>1, <1>2, <2>1, <2>3 DEF ReplyUnderway
  <2>. QED
    BY <2>4
<1>. QED
  BY <1>3, <1>4, <1>5

\* The console ends no session.
LEMMA CalmConsole ==
  ASSUME Inv, Quiet \/ RequestUnderway \/ ReplyUnderway, BankConsole
  PROVE  (Quiet \/ RequestUnderway \/ ReplyUnderway)'
<1>1. UNCHANGED <<net, pc, pending, session, atRouter, atBank, atAtm>>
  BY DEF BankConsole, CreateUser, CreateUserFails, Deposit, wireVars, atmState, sockets
<1>2. ASSUME NEW v \in ActiveUsers
      PROVE  /\ v \in ActiveUsers'
             /\ accounts'[v].key = accounts[v].key
             /\ accounts'[v].lastCounter = accounts[v].lastCounter
  <2>1. v \in DOMAIN accounts /\ accounts[v] \in Account /\ accounts[v].active
    BY DEF ActiveUsers, Inv, AccountsType
  <2>2. ASSUME NEW u \in Name, NEW p \in Pin, NEW s \in Secret, NEW b \in Amount,
               CreateUser(u, p, s, b)
        PROVE  accounts'[v] = accounts[v] /\ v \in DOMAIN accounts'
    BY <2>1, <2>2 DEF CreateUser, With, Known
  <2>3. ASSUME NEW u \in Name, CreateUserFails(u)
        PROVE  accounts'[v] = accounts[v] /\ v \in DOMAIN accounts'
    BY <2>1, <2>3 DEF CreateUserFails
  <2>4. ASSUME NEW u \in Name, NEW a \in Amount, Deposit(u, a)
        PROVE  /\ v \in DOMAIN accounts' /\ accounts'[v].active
               /\ accounts'[v].key = accounts[v].key
               /\ accounts'[v].lastCounter = accounts[v].lastCounter
    <3>1. accounts' = [accounts EXCEPT ![u] =
                         [accounts[u] EXCEPT !.balance = accounts[u].balance + a]]
      BY <2>4 DEF Deposit
    <3>2. CASE v = u
      BY <2>1, <3>1, <3>2 DEF Account
    <3>3. CASE v # u
      BY <2>1, <3>1, <3>3
    <3>. QED
      BY <3>2, <3>3
  <2>. QED
    BY <2>1, <2>2, <2>3, <2>4 DEF BankConsole, ActiveUsers
<1>3. (Agree => Agree') /\ (\A d : Honours(d) => Honours(d)') /\ loggedIn' = loggedIn
  BY <1>1, <1>2, SharedKept DEF loggedIn
<1>4. CASE Quiet
  BY <1>1, <1>3, <1>4 DEF Quiet
<1>5. CASE RequestUnderway
  BY <1>1, <1>3, <1>5 DEF RequestUnderway, FromAtm
<1>6. CASE ReplyUnderway
  BY <1>1, <1>3, <1>6 DEF ReplyUnderway, FromBank
<1>. QED
  BY <1>4, <1>5, <1>6

\* The bank has what its answer tells the ATM.
LEMMA AnswerIsHonoured ==
  ASSUME Inv, SessionInv, PhaseInv, loggedIn => Agree, UNCHANGED atmState,
         NEW r, r \notin net, r \in net',
         \/ ServeExists(pending) \/ ServeAuth(pending) \/ ServeBalance(pending)
         \/ ServeWithdraw(pending) \/ RefuseWithdraw(pending) \/ ServeEnd(pending)
  PROVE  Honours(r)'
<1>1. UNCHANGED <<pc, pending, session>>
  BY DEF atmState
<1>2. CASE pending.kind = "AUTH"
  <2>. DEFINE k == SessionKey(pending.user, pending.pin, pending.secret, pending.nonce,
                              serverNonces + 1)
  <2>1. ServeAuth(pending)
    BY <1>2 DEF ServeExists, ServeBalance, ServeWithdraw, RefuseWithdraw, ServeEnd
  <2>2. /\ pending.user \in DOMAIN accounts /\ net' = net \cup {AuthOk(k)}
        /\ accounts' = [v \in DOMAIN accounts |->
                          IF v = pending.user
                            THEN [accounts[pending.user] EXCEPT !.active = TRUE, !.key = k,
                                                                !.lastCounter = 0]
                            ELSE Cleared(accounts[v])]
    BY <2>1 DEF ServeAuth, ProvesIdentity, Known, Grant, Send
  <2>. HIDE DEF k
  <2>3. accounts[pending.user] \in Account
    BY <2>2 DEF Inv, AccountsType
  <2>4. /\ pending.user \in DOMAIN accounts' /\ accounts'[pending.user].active
        /\ accounts'[pending.user].key = k /\ accounts'[pending.user].lastCounter = 0
    BY <2>2, <2>3 DEF Account
  <2>5. r.key = k
    BY <2>2 DEF AuthOk
  <2>6. Granted(r.key)'
    BY <2>4, <2>5 DEF Granted, ActiveUsers
  <2>. QED
    BY <1>1, <1>2, <2>6 DEF Honours
<1>3. CASE pending.kind \in {"BALANCE", "WITHDRAW"}
  <2>1. /\ loggedIn /\ pending.counter = session.nextCounter
    BY <1>3 DEF PhaseInv, CommandKinds
  <2>2. PICK u \in ActiveUsers :
          accounts[u].key = session.key /\ accounts[u].lastCounter < session.nextCounter
    BY <2>1 DEF Agree
  <2>3. ActiveUser = u /\ u \in DOMAIN accounts /\ accounts[u] \in Account /\ accounts[u].active
    BY TheUser DEF Inv, AccountsType, ActiveUsers
  <2>4. \/ accounts' = [accounts EXCEPT ![u].lastCounter = pending.counter]
        \/ accounts' = [accounts EXCEPT ![u].lastCounter = pending.counter,
                                        ![u].balance = @ - pending.amount]
    BY <1>3, <2>3 DEF ServeExists, ServeAuth, ServeBalance, ServeWithdraw, RefuseWithdraw,
                      ServeEnd
  <2>5. /\ u \in DOMAIN accounts' /\ accounts'[u].active
        /\ accounts'[u].key = session.key /\ accounts'[u].lastCounter = session.nextCounter
    BY <2>1, <2>2, <2>3, <2>4 DEF Account
  <2>6. session.nextCounter <= session.nextCounter
    <3>1. session.nextCounter \in Nat
      BY DEF SessionInv, SessionShape
    <3>. QED
      BY <3>1
  <2>7. AgreeOnAnswer'
    BY <1>1, <2>5, <2>6 DEF AgreeOnAnswer, ActiveUsers
  <2>. QED
    BY <1>1, <1>3, <2>7 DEF Honours
<1>4. CASE pending.kind \notin {"AUTH", "BALANCE", "WITHDRAW"}
  BY <1>1, <1>4 DEF Honours
<1>. QED
  BY <1>2, <1>3, <1>4

LEMMA CalmBank ==
  ASSUME Sound, Sound', Quiet \/ RequestUnderway \/ ReplyUnderway, BankReceives
  PROVE  (Quiet \/ RequestUnderway \/ ReplyUnderway)'
<1>1. UNCHANGED <<pc, pending, session, atAtm>>
  BY DEF BankReceives, atmState
<1>2. RequestUnderway /\ atRouter = <<>> /\ atBank = <<pending>> /\ atAtm = <<>>
  BY DEF Quiet, RequestUnderway, ReplyUnderway, BankReceives
<1>3. Head(atBank) = pending /\ atBank' = <<>> /\ atAtm' = <<>> /\ pc' = "waiting"
  BY <1>1, <1>2, OneElement DEF RequestUnderway, BankReceives
<1>4. ASSUME NEW r, Queue("bank", r), Honours(r)', r \in net' \cup {Refusal}
      PROVE  ReplyUnderway'
  <2>1. atRouter' = FromBank(r)
    BY <1>2, <1>4, OneElement DEF Queue, FromBank
  <2>2. atRouter' = FromBank(r)'
    BY <2>1 DEF FromBank
  <2>. QED
    BY <1>3, <1>4, <2>2 DEF ReplyUnderway
<1>5. CASE /\ \/ ServeExists(pending) \/ ServeAuth(pending) \/ ServeBalance(pending)
              \/ ServeWithdraw(pending) \/ RefuseWithdraw(pending) \/ ServeEnd(pending)
           /\ Transmit("bank")
  <2>1. CASE net' = net /\ UNCHANGED atRouter
    BY <1>2, <1>3, <2>1 DEF Quiet
  <2>2. ASSUME NEW r \in net' \ net, Queue("bank", r)
        PROVE  ReplyUnderway'
    <3>1. Honours(r)'
      BY <1>2, <1>5, <2>2, AnswerIsHonoured DEF Sound, SystemInv, RequestUnderway, BankReceives
    <3>. QED
      BY <1>4, <2>2, <3>1
  <2>. QED
    BY <1>5, <2>1, <2>2 DEF Transmit
<1>6. CASE UNCHANGED <<wireVars, bankState>> /\ Queue("bank", Refusal)
  <2>1. UNCHANGED accounts
    BY <1>6 DEF bankState
  <2>2. Agree => AgreeOnAnswer'
    <3>1. ASSUME Agree PROVE AgreeOnAnswer
      <4>1. PICK u \in ActiveUsers :
              accounts[u].key = session.key /\ accounts[u].lastCounter < session.nextCounter
        BY <3>1 DEF Agree
      <4>2. accounts[u].lastCounter \in Nat /\ session.nextCounter \in Nat
        BY DEF ActiveUsers, Sound, Inv, AccountsType, Account, SessionInv, SessionShape
      <4>. QED
        BY <4>1, <4>2 DEF AgreeOnAnswer
    <3>2. AgreeOnAnswer => AgreeOnAnswer'
      BY <1>1, <2>1 DEF AgreeOnAnswer, ActiveUsers
    <3>. QED
      BY <3>1, <3>2
  <2>3. pending.kind \in {"BALANCE", "WITHDRAW"} => loggedIn
    BY DEF Sound, SystemInv, PhaseInv, CommandKinds
  <2>4. ~GrantsLogin(Refusal)'
    BY DEF GrantsLogin, Refusal
  <2>5. Honours(Refusal)'
    BY <1>1, <1>2, <2>2, <2>3, <2>4 DEF Honours, RequestUnderway
  <2>. QED
    BY <1>4, <1>6, <2>5
<1>. QED
  BY <1>3, <1>5, <1>6 DEF BankReceives

\* A command sends what it waits for.
LEMMA CommandSends ==
  ASSUME Command
  PROVE  /\ session' = session
         /\ net' # net => net' = net \cup {pending'} /\ pc' = "waiting"
<1>1. AbandonLogin => session' = session /\ net' = net
  BY DEF AbandonLogin, wireVars
<1>2. ASSUME NEW request, Ask(request)
      PROVE  net' = net \cup {pending'} /\ pc' = "waiting"
  BY <1>2 DEF Ask, Send
<1>. QED
  BY <1>1, <1>2 DEF Command, BeginSession, EnterPin, Balance, EndSession, WithdrawCash,
                    SessionRequest

LEMMA CalmCommand ==
  ASSUME Quiet \/ RequestUnderway \/ ReplyUnderway, AtmCommand
  PROVE  (Quiet \/ RequestUnderway \/ ReplyUnderway)'
<1>1. pc # "waiting" /\ UNCHANGED <<accounts, session, atBank, atAtm>>
  BY AskedOnce, CommandSends DEF AtmCommand, bankState
<1>2. Quiet
  BY <1>1 DEF RequestUnderway, ReplyUnderway
<1>3. (loggedIn => Agree)'
  BY <1>1, <1>2 DEF Quiet, Agree, ActiveUsers, loggedIn
<1>4. CASE net' = net /\ UNCHANGED atRouter
  BY <1>1, <1>2, <1>3, <1>4 DEF Quiet
<1>5. ASSUME NEW d \in net' \ net, Queue("atm", d)
      PROVE  RequestUnderway'
  <2>1. d = pending' /\ pc' = "waiting"
    BY <1>5, CommandSends DEF AtmCommand
  <2>2. atRouter' = <<[from |-> "atm", datagram |-> pending']>>
    BY <1>2, <1>5, <2>1, OneElement DEF Queue, Quiet
  <2>3. atRouter' = FromAtm' /\ atBank' = <<>> /\ atAtm' = <<>>
    BY <1>1, <1>2, <2>2 DEF FromAtm, Quiet
  <2>. QED
    BY <1>3, <2>1, <2>3 DEF RequestUnderway
<1>. QED
  BY <1>4, <1>5 DEF AtmCommand, Transmit

\* Whatever ends the wait without an answer ends the session.
LEMMA GivenUp ==
  ASSUME LogOut \/ Fail
  PROVE  ~loggedIn'
<1>1. session' = NoSession
  BY DEF LogOut, Fail
<1>. QED
  BY <1>1 DEF NoSession, loggedIn

LEMMA CalmAnswer ==
  ASSUME Sound, Quiet \/ RequestUnderway \/ ReplyUnderway, AtmReceives
  PROVE  Quiet'
<1>1. UNCHANGED <<accounts, atRouter, atBank>>
  BY DEF AtmReceives, bankState
<1>2. ReplyUnderway
  BY DEF Quiet, RequestUnderway, AtmReceives
<1>3. PICK d \in net \cup {Refusal} :
        /\ Honours(d) /\ atRouter = <<>> /\ atAtm = <<d>> /\ atBank = <<>>
  BY <1>2 DEF ReplyUnderway, AtmReceives
<1>4. Head(atAtm) = d /\ atAtm' = <<>> /\ atRouter' = <<>> /\ atBank' = <<>>
  BY <1>1, <1>3, OneElement DEF AtmReceives
<1>5. CASE UserExists(d) \/ NoSuchUser(d)
  <2>1. session' = session /\ ~loggedIn
    BY <1>5 DEF UserExists, NoSuchUser, Sound, SystemInv, PhaseInv
  <2>2. ~loggedIn'
    BY <2>1 DEF loggedIn
  <2>. QED
    BY <1>4, <2>2 DEF Quiet
<1>6. CASE LogIn(d)
  <2>1. d \in net /\ d.kind = "AUTH_OK" /\ d.key \in Key
    BY <1>6, RefusalIsNoAnswer DEF LogIn, GrantsLogin, Sound, SystemInv, KeysInv, GrantedKeys
  <2>2. d.key = SessionKey(pending.user, pending.pin, pending.secret, pending.nonce, d.key.server)
    BY <1>6, <2>1 DEF LogIn, GrantsLogin, SessionKey, Key
  <2>3. session'.key = d.key /\ session'.nextCounter = 1
    BY <1>6, <2>2 DEF LogIn
  <2>4. PICK u \in ActiveUsers : accounts[u].key = d.key /\ accounts[u].lastCounter = 0
    BY <1>3, <1>6 DEF LogIn, Honours, Granted
  <2>5. Agree'
    BY <1>1, <2>3, <2>4 DEF Agree, ActiveUsers
  <2>. QED
    BY <1>4, <2>5 DEF Quiet
<1>7. CASE ShowBalance(d) \/ DispenseCash(d) \/ ShowInsufficient(d)
  <2>1. pending.kind \in {"BALANCE", "WITHDRAW"} /\ Counted
    BY <1>7 DEF ShowBalance, DispenseCash, ShowInsufficient
  <2>2. /\ session'.key = session.key /\ session.nextCounter \in Nat
        /\ session'.nextCounter = session.nextCounter + 1
    <3>1. session' = [user |-> session.user, secret |-> session.secret, key |-> session.key,
                      nextCounter |-> session.nextCounter + 1]
      BY <2>1 DEF Counted, Sound, SessionInv, SessionShape
    <3>. QED
      BY <3>1 DEF Sound, SessionInv, SessionShape
  <2>3. PICK u \in ActiveUsers :
          accounts[u].key = session.key /\ accounts[u].lastCounter <= session.nextCounter
    BY <1>3, <2>1 DEF Honours, AgreeOnAnswer
  <2>4. accounts[u].lastCounter \in Nat
    BY DEF ActiveUsers, Sound, Inv, AccountsType, Account
  <2>5. accounts[u].lastCounter < session'.nextCounter
    BY <2>2, <2>3, <2>4
  <2>6. Agree'
    BY <1>1, <2>2, <2>3, <2>5 DEF Agree, ActiveUsers
  <2>. QED
    BY <1>4, <2>6 DEF Quiet
<1>8. CASE LogOut \/ Fail
  BY <1>4, <1>8, GivenUp DEF Quiet
<1>. QED
  BY <1>4, <1>5, <1>6, <1>7, <1>8 DEF AtmReceives

LEMMA CalmStep ==
  ASSUME Sound, Sound', failures \in Nat, CalmInv, [RoutedNext]_routedVars
  PROVE  CalmInv'
<1>. SUFFICES ASSUME failures' = 0
              PROVE  (Quiet \/ RequestUnderway \/ ReplyUnderway)'
  BY DEF CalmInv
<1>1. ~Failure
  BY DEF Failure
<1>2. failures = 0
  BY <1>1 DEF RoutedNext, routedVars, faults, Forward, Lose, BankReceives, BankConsole,
              BankCrash, AtmCommand, AtmReceives, AtmTimeout, AtmCrash
<1>3. Quiet \/ RequestUnderway \/ ReplyUnderway
  BY <1>2 DEF CalmInv
<1>4. CASE AtmTimeout
  <2>1. ~Underway /\ atAtm = <<>> /\ UNCHANGED sockets /\ ~loggedIn'
    BY <1>1, <1>4, GivenUp DEF AtmTimeout
  <2>. QED
    BY <2>1 DEF Underway, sockets, Quiet
<1>5. CASE UNCHANGED routedVars
  <2>1. UNCHANGED <<net, accounts, pc, pending, session, atRouter, atBank, atAtm>>
    BY <1>5 DEF routedVars, vars, wireVars, bankState, atmState, sockets
  <2>2. (Agree => Agree') /\ (\A d : Honours(d) => Honours(d)') /\ loggedIn' = loggedIn
    BY <2>1, SharedKept DEF ActiveUsers, loggedIn
  <2>. QED
    BY <1>3, <2>1, <2>2 DEF Quiet, RequestUnderway, ReplyUnderway, FromAtm, FromBank
<1>6. CASE Lose \/ BankCrash \/ AtmCrash
  BY <1>1, <1>6 DEF Lose, BankCrash, AtmCrash
<1>. QED
  BY <1>3, <1>4, <1>5, <1>6, CalmForward, CalmConsole, CalmBank, CalmCommand, CalmAnswer
     DEF RoutedNext, Sound

\* As long as nothing fails the bank refuses no request made within a session: each
\* side keeps its own counter and its own idea of the session, and they agree whenever
\* a request arrives.
THEOREM HonestRequestsServed == RoutedSpec => []HonestRequestsAreServed
<1>1. RoutedInit => CalmInv
  BY DEF RoutedInit, Init, AtmInit, NoSession, loggedIn, CalmInv, Quiet
<1>2. Sound /\ Sound' /\ BacklogInv /\ CalmInv /\ [RoutedNext]_routedVars => CalmInv'
  BY CalmStep DEF BacklogInv
<1>3. Sound /\ CalmInv => HonestRequestsAreServed
  <2>. SUFFICES ASSUME Sound, CalmInv, failures = 0, atBank # <<>>,
                       Head(atBank).kind \in {"BALANCE", "WITHDRAW", "END"}
                PROVE  Acceptable(Head(atBank))
    BY DEF HonestRequestsAreServed
  <2>1. RequestUnderway /\ atBank = <<pending>>
    BY DEF CalmInv, Quiet, RequestUnderway, ReplyUnderway
  <2>2. Head(atBank) = pending
    BY <2>1, OneElement
  <2>. QED
    BY <2>1, <2>2, NextIsAcceptable DEF Sound, SystemInv, RequestUnderway, CommandKinds
<1>. QED
  BY <1>1, <1>2, <1>3, RoutedSound, BacklogHolds, PTL DEF RoutedSpec

=============================================================================
