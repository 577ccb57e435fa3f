---------------------------- MODULE RoutedProofs ----------------------------
(***************************************************************************)
(* The system behind its router is a system on an arbitrary network: what  *)
(* AtmBankProofs shows of that one holds behind the router as well, and    *)
(* the promise of Teller even where the replay filter has forgotten.       *)
(* While nothing fails, what the ATM prints about a command that did not   *)
(* succeed is true.                                                        *)
(***************************************************************************)
EXTENDS Routed, AtmBankProofs

-----------------------------------------------------------------------------
(* Refinement: the sockets hold datagrams that were sent.                  *)

Queued == [from : {"atm", "bank"}, datagram : net]

InTransit ==
  /\ atRouter \in Seq(Queued)
  /\ atBank \in Seq(net)
  /\ atAtm \in Seq(net \cup {Junk})

\* Nothing sent is forgotten.
LEMMA NetGrows ==
  ASSUME [Next]_vars
  PROVE  net \subseteq net'
<1>1. ASSUME NEW d \in net, Serve(d) PROVE net \subseteq net'
  BY <1>1 DEF Serve, ServeExists, ServeAuth, ServeBalance, Debit, RefuseDebit, Answer, Send
<1>2. CASE BankStep
  BY <1>1, <1>2 DEF BankStep, CreateCard, AddAccount, Deposit, Restart, wireVars
<1>3. ASSUME NEW r, Ask(r) PROVE net \subseteq net'
  BY <1>3 DEF Ask, SendRequest, Send
<1>4. CASE Command
  BY <1>3, <1>4 DEF Command, BeginSession, EnterPin, Withdraw, Balance, AbandonLogin,
                    EndSession, RefuseCommand, CannotAsk, wireVars
<1>5. CASE Read \/ Timeout \/ AtmRestart
  BY <1>5 DEF Read, Skip, UserExists, LogIn, Dispense, ShowBalance, Denied, Timeout,
              AtmRestart, wireVars
<1>6. CASE UNCHANGED vars
  BY <1>6 DEF vars, bankVars, wireVars
<1>. QED
  BY <1>2, <1>4, <1>5, <1>6 DEF Next, AtmStep

\* The sockets move datagrams about, and the sequences they hold stay sequences of
\* what was sent when more is sent.
LEMMA SeqGrows ==
  ASSUME NEW S, NEW T, S \subseteq T
  PROVE  Seq(S) \subseteq Seq(T)
<1>. SUFFICES ASSUME NEW s \in Seq(S) PROVE s \in Seq(T)
  OBVIOUS
<1>1. Len(s) \in Nat /\ s \in [1 .. Len(s) -> S]
  OBVIOUS
<1>2. s \in [1 .. Len(s) -> T]
  BY <1>1
<1>. QED
  BY <1>1, <1>2

LEMMA HeadTail ==
  ASSUME NEW S, NEW s \in Seq(S), s # <<>>
  PROVE  Head(s) \in S /\ Tail(s) \in Seq(S)
OBVIOUS

LEMMA FrontIsSeq ==
  ASSUME NEW S, NEW s \in Seq(S), s # <<>>
  PROVE  Front(s) \in Seq(S)
BY DEF Front

\* Every step behind the router is a step of the system or leaves it alone.
LEMMA RoutedIsSystem ==
  ASSUME InTransit, [RoutedNext]_routedVars
  PROVE  [Next]_vars
<1>1. CASE Forward \/ Lose \/ Stray \/ UNCHANGED routedVars
  BY <1>1 DEF Forward, Lose, Stray, routedVars
<1>2. CASE BankReceives
  <2>1. Head(atBank) \in net
    BY <1>2, HeadTail DEF BankReceives, InTransit
  <2>. QED
    BY <1>2, <2>1 DEF BankReceives, Next, BankStep
<1>3. CASE BankConsole
  BY <1>3 DEF BankConsole, Next, BankStep
<1>4. CASE BankCrash
  BY <1>4 DEF BankCrash, Next, BankStep
<1>5. CASE AtmCommand
  BY <1>5 DEF AtmCommand, Next, AtmStep
<1>6. CASE AtmReceives
  <2>1. PICK d \in net \cup {Junk} :
          Skip(d) \/ UserExists(d) \/ LogIn(d) \/ Dispense(d) \/ ShowBalance(d) \/ Denied(d)
    BY <1>6, HeadTail DEF AtmReceives, InTransit
  <2>2. CASE Skip(d)
    BY <1>6, <2>2 DEF AtmReceives, Next, AtmStep, Read
  <2>3. CASE UserExists(d) \/ LogIn(d) \/ Dispense(d) \/ ShowBalance(d) \/ Denied(d)
    <3>1. d.tag = "A"
      BY <2>3 DEF UserExists, LogIn, Dispense, ShowBalance, Denied, Receive, IsAnswer
    <3>2. d # Junk
      BY <3>1 DEF Junk
    <3>. QED
      BY <1>6, <2>3, <3>2 DEF AtmReceives, Next, AtmStep, Read
  <2>. QED
    BY <2>1, <2>2, <2>3
<1>7. CASE AtmTimeout
  BY <1>7 DEF AtmTimeout, Next, AtmStep
<1>8. CASE AtmCrash
  BY <1>8 DEF AtmCrash, Next, AtmStep
<1>. QED
  BY <1>1, <1>2, <1>3, <1>4, <1>5, <1>6, <1>7, <1>8 DEF RoutedNext

LEMMA InTransitStep ==
  ASSUME InTransit, [RoutedNext]_routedVars
  PROVE  InTransit'
<1>1. net \subseteq net'
  BY RoutedIsSystem, NetGrows
<1>2. /\ atRouter \in Seq(Queued')
      /\ atBank \in Seq(net') /\ atAtm \in Seq(net' \cup {Junk})
  <2>1. Queued \subseteq Queued'
    BY <1>1 DEF Queued
  <2>2. atRouter \in Seq(Queued')
    BY <2>1, SeqGrows DEF InTransit
  <2>3. atBank \in Seq(net')
    BY <1>1, SeqGrows DEF InTransit
  <2>4. net \cup {Junk} \subseteq net' \cup {Junk}
    BY <1>1
  <2>5. atAtm \in Seq(net' \cup {Junk})
    BY <2>4, SeqGrows DEF InTransit
  <2>. QED
    BY <2>2, <2>3, <2>5
<1>3. ASSUME NEW source \in {"atm", "bank"}, Transmit(source)
      PROVE  atRouter' \in Seq(Queued')
  <2>1. ASSUME NEW d \in net' \ net,
               atRouter' = Append(atRouter, [from |-> source, datagram |-> d])
        PROVE  atRouter' \in Seq(Queued')
    <3>1. [from |-> source, datagram |-> d] \in Queued'
      BY DEF Queued
    <3>. QED
      BY <1>2, <2>1, <3>1
  <2>. QED
    BY <1>2, <1>3, <2>1 DEF Transmit
<1>4. CASE Forward
  <2>1. Head(atRouter) \in Queued' /\ Tail(atRouter) \in Seq(Queued')
    BY <1>2, <1>4, HeadTail DEF Forward
  <2>2. Head(atRouter).datagram \in net'
    BY <2>1 DEF Queued
  <2>3. /\ Append(atBank, Head(atRouter).datagram) \in Seq(net')
        /\ Append(atAtm, Head(atRouter).datagram) \in Seq(net' \cup {Junk})
    BY <1>2, <2>2
  <2>. QED
    BY <1>2, <1>4, <2>1, <2>3 DEF Forward, InTransit
<1>5. CASE Lose
  BY <1>2, <1>5, FrontIsSeq DEF Lose, InTransit
<1>6. CASE Stray
  BY <1>2, <1>6 DEF Stray, InTransit
<1>7. CASE BankReceives
  BY <1>2, <1>3, <1>7, HeadTail DEF BankReceives, InTransit
<1>8. CASE BankConsole
  BY <1>2, <1>8 DEF BankConsole, InTransit, sockets
<1>9. CASE BankCrash
  BY <1>2, <1>9 DEF BankCrash, InTransit
<1>10. CASE AtmCommand
  BY <1>2, <1>3, <1>10 DEF AtmCommand, InTransit
<1>11. CASE AtmReceives
  BY <1>2, <1>11, HeadTail DEF AtmReceives, InTransit
<1>12. CASE AtmTimeout
  BY <1>2, <1>12 DEF AtmTimeout, InTransit, sockets
<1>13. CASE AtmCrash
  BY <1>2, <1>13 DEF AtmCrash, InTransit
<1>14. CASE UNCHANGED routedVars
  BY <1>2, <1>14 DEF routedVars, InTransit, sockets
<1>. QED
  BY <1>4, <1>5, <1>6, <1>7, <1>8, <1>9, <1>10, <1>11, <1>12, <1>13, <1>14 DEF RoutedNext

\* Behind the router the ATM and the bank meet the network of Wire, and less: nothing
\* is repeated or reordered there.
THEOREM RoutedImplementsSystem == RoutedSpec => Spec
<1>1. RoutedInit => Init /\ InTransit
  BY DEF RoutedInit, InTransit
<1>2. InTransit /\ [RoutedNext]_routedVars => InTransit' /\ [Next]_vars
  BY InTransitStep, RoutedIsSystem
<1>. QED
  BY <1>1, <1>2, PTL DEF RoutedSpec, Spec

LEMMA InTransitHolds == RoutedSpec => []InTransit
<1>1. RoutedInit => InTransit
  BY DEF RoutedInit, InTransit
<1>. QED
  BY <1>1, InTransitStep, PTL DEF RoutedSpec

\* What is proved of the ATM and the bank on an arbitrary network.
COROLLARY RoutedKeepsSystem ==
  RoutedSpec =>
    BankSpec /\ [](OutcomeWasAnswered /\ SessionAuthentic /\ DispenseBacked /\ BalanceCurrent)
BY RoutedImplementsSystem, SystemImplementsBank, SystemKeepsAtm, SessionsAreAuthentic,
   CashIsDebited, BalancesAreCurrent, PTL

-----------------------------------------------------------------------------
(* The promise: the router repeats nothing, and the bank reads requests in  *)
(* the order in which they were made.                                      *)

\* The positions of the requests in the router's buffer.
ToBank == {i \in DOMAIN atRouter : atRouter[i].from = "atm"}

InOrder ==
  /\ \A i, j \in DOMAIN atBank : i < j => atBank[i].nonce < atBank[j].nonce
  /\ \A i, j \in ToBank :
       i < j => atRouter[i].datagram.nonce < atRouter[j].datagram.nonce
  /\ \A i \in DOMAIN atBank, j \in ToBank : atBank[i].nonce < atRouter[j].datagram.nonce

\* What has been debited was read before what is still to be read.
DebitedBefore ==
  \A k \in DOMAIN debits :
    /\ \A i \in DOMAIN atBank : debits[k].nonce < atBank[i].nonce
    /\ \A j \in ToBank : debits[k].nonce < atRouter[j].datagram.nonce

OnceInv == InOrder /\ DebitedBefore /\ NonceDebitedOnce

LEMMA TailAt ==
  ASSUME NEW S, NEW s \in Seq(S), s # <<>>
  PROVE  /\ Len(s) \in Nat /\ 1 \in DOMAIN s /\ Head(s) = s[1]
         /\ DOMAIN Tail(s) = 1 .. Len(s) - 1
         /\ \A i \in DOMAIN Tail(s) : i \in Int /\ i + 1 \in DOMAIN s /\ Tail(s)[i] = s[i + 1]
OBVIOUS

LEMMA FrontAt ==
  ASSUME NEW S, NEW s \in Seq(S), s # <<>>
  PROVE  /\ DOMAIN Front(s) \subseteq DOMAIN s
         /\ \A i \in DOMAIN Front(s) : Front(s)[i] = s[i]
BY DEF Front

LEMMA AppendAt ==
  ASSUME NEW S, NEW s \in Seq(S), NEW x
  PROVE  /\ Len(s) \in Nat /\ DOMAIN s = 1 .. Len(s)
         /\ DOMAIN Append(s, x) = DOMAIN s \cup {Len(s) + 1}
         /\ \A i \in DOMAIN s : Append(s, x)[i] = s[i]
         /\ Append(s, x)[Len(s) + 1] = x
OBVIOUS

\* A buffer that loses elements keeps its order.
LEMMA ForwardInOrder ==
  ASSUME InTransit, OnceInv, Forward
  PROVE  OnceInv'
<1>1. /\ atRouter \in Seq(Queued) /\ atBank \in Seq(net) /\ atRouter # <<>>
      /\ atRouter' = Tail(atRouter) /\ debits' = debits
  BY DEF InTransit, Forward, vars, bankVars, bankState
<1>2. /\ \A i \in ToBank' : i \in Int /\ i + 1 \in ToBank /\ atRouter'[i] = atRouter[i + 1]
      /\ 1 \in DOMAIN atRouter /\ Head(atRouter) = atRouter[1]
  BY <1>1, TailAt DEF ToBank
<1>3. \A i \in ToBank' : 1 < i + 1
  <2>1. DOMAIN Tail(atRouter) = 1 .. Len(atRouter) - 1 /\ Len(atRouter) \in Nat
    BY <1>1, TailAt
  <2>. QED
    BY <1>1, <2>1 DEF ToBank
<1>4. CASE atBank' = atBank
  <2>1. \A i, j \in ToBank' : i < j => atRouter'[i].datagram.nonce < atRouter'[j].datagram.nonce
    BY <1>2 DEF OnceInv, InOrder
  <2>2. InOrder'
    BY <1>2, <1>4, <2>1 DEF OnceInv, InOrder
  <2>3. DebitedBefore'
    BY <1>1, <1>2, <1>4 DEF OnceInv, DebitedBefore
  <2>. QED
    BY <1>1, <2>2, <2>3 DEF OnceInv, NonceDebitedOnce
<1>5. CASE Head(atRouter).from = "atm" /\ atBank' = Append(atBank, Head(atRouter).datagram)
  <2>1. 1 \in ToBank /\ Head(atRouter).datagram = atRouter[1].datagram
    BY <1>2, <1>5 DEF ToBank
  <2>2. /\ DOMAIN atBank' = DOMAIN atBank \cup {Len(atBank) + 1}
        /\ \A i \in DOMAIN atBank : atBank'[i] = atBank[i] /\ i < Len(atBank) + 1
        /\ atBank'[Len(atBank) + 1] = atRouter[1].datagram
        /\ Len(atBank) \in Nat
    BY <1>1, <1>5, <2>1, AppendAt
  <2>3. \A i, j \in DOMAIN atBank' : i < j => atBank'[i].nonce < atBank'[j].nonce
    BY <2>1, <2>2 DEF OnceInv, InOrder
  <2>4. \A i, j \in ToBank' : i < j => atRouter'[i].datagram.nonce < atRouter'[j].datagram.nonce
    BY <1>2 DEF OnceInv, InOrder
  <2>5. \A i \in DOMAIN atBank', j \in ToBank' : atBank'[i].nonce < atRouter'[j].datagram.nonce
    BY <1>2, <1>3, <2>1, <2>2 DEF OnceInv, InOrder
  <2>6. DebitedBefore'
    BY <1>1, <1>2, <2>1, <2>2 DEF OnceInv, DebitedBefore
  <2>. QED
    BY <1>1, <2>3, <2>4, <2>5, <2>6 DEF OnceInv, InOrder, NonceDebitedOnce
<1>. QED
  BY <1>4, <1>5 DEF Forward

LEMMA LoseInOrder ==
  ASSUME InTransit, OnceInv, Lose
  PROVE  OnceInv'
<1>1. atRouter \in Seq(Queued) /\ atBank \in Seq(net) /\ debits' = debits
  BY DEF InTransit, Lose, vars, bankVars, bankState
<1>2. /\ DOMAIN atRouter' \subseteq DOMAIN atRouter
      /\ \A i \in DOMAIN atRouter' : atRouter'[i] = atRouter[i]
  BY <1>1, FrontAt DEF Lose
<1>3. /\ DOMAIN atBank' \subseteq DOMAIN atBank
      /\ \A i \in DOMAIN atBank' : atBank'[i] = atBank[i]
  BY <1>1, FrontAt DEF Lose
<1>4. ToBank' \subseteq ToBank
  BY <1>2 DEF ToBank
<1>. QED
  BY <1>1, <1>2, <1>3, <1>4 DEF OnceInv, InOrder, DebitedBefore, NonceDebitedOnce, ToBank

\* A datagram is read by the bank, and debits only what is still to be debited.
LEMMA ServeInOrder ==
  ASSUME BankInv, InTransit, OnceInv, BankReceives
  PROVE  OnceInv'
<1>. DEFINE d == Head(atBank)
<1>1. /\ atRouter \in Seq(Queued) /\ atBank \in Seq(net) /\ atBank # <<>> /\ d \in net
      /\ atBank' = Tail(atBank) /\ Serve(d) /\ Transmit("bank")
  BY HeadTail DEF InTransit, BankReceives
<1>2. /\ \A i \in DOMAIN atBank' : /\ i \in Int /\ i + 1 \in DOMAIN atBank /\ 1 < i + 1
                                   /\ atBank'[i] = atBank[i + 1]
      /\ 1 \in DOMAIN atBank /\ d = atBank[1]
  <2>1. DOMAIN Tail(atBank) = 1 .. Len(atBank) - 1 /\ Len(atBank) \in Nat
    BY <1>1, TailAt
  <2>. QED
    BY <1>1, <2>1, TailAt
<1>3. \A i \in ToBank' : i \in ToBank /\ atRouter'[i] = atRouter[i]
  <2>1. CASE atRouter' = atRouter
    BY <2>1 DEF ToBank
  <2>2. ASSUME NEW e, atRouter' = Append(atRouter, [from |-> "bank", datagram |-> e])
        PROVE  \A i \in ToBank' : i \in ToBank /\ atRouter'[i] = atRouter[i]
    <3>. DEFINE q == [from |-> "bank", datagram |-> e]
    <3>1. q.from # "atm"
      OBVIOUS
    <3>. HIDE DEF q
    <3>2. /\ DOMAIN atRouter' = DOMAIN atRouter \cup {Len(atRouter) + 1}
          /\ \A i \in DOMAIN atRouter : atRouter'[i] = atRouter[i]
          /\ atRouter'[Len(atRouter) + 1] = q
      BY <1>1, <2>2, AppendAt DEF q
    <3>. QED
      BY <3>1, <3>2 DEF ToBank
  <2>. QED
    BY <1>1, <2>1, <2>2 DEF Transmit
<1>4. /\ \A i \in DOMAIN atBank' : d.nonce < atBank'[i].nonce
      /\ \A j \in ToBank' : d.nonce < atRouter'[j].datagram.nonce
  BY <1>2, <1>3 DEF OnceInv, InOrder
<1>5. InOrder'
  BY <1>2, <1>3 DEF OnceInv, InOrder
<1>. HIDE DEF d
<1>6. CASE debits' = debits
  BY <1>2, <1>3, <1>5, <1>6 DEF OnceInv, DebitedBefore, NonceDebitedOnce
<1>7. CASE Debit(d)
  <2>1. PICK record \in DebitRecord : debits' = Append(debits, record) /\ record.nonce = d.nonce
    BY <1>1, <1>7, DebitEffect DEF BankInv, NamesInv
  <2>2. /\ DOMAIN debits' = DOMAIN debits \cup {Len(debits) + 1}
        /\ \A k \in DOMAIN debits : debits'[k] = debits[k]
        /\ debits'[Len(debits) + 1] = record
    BY <2>1, AppendAt DEF BankInv, BankTypeOK
  <2>3. DebitedBefore'
    BY <1>2, <1>3, <1>4, <2>1, <2>2 DEF OnceInv, DebitedBefore
  <2>4. \A k \in DOMAIN debits : debits[k].nonce # d.nonce
    <3>1. d.nonce \in Int
      BY <2>1, WireAssumption DEF DebitRecord
    <3>2. \A k \in DOMAIN debits : debits[k].nonce < d.nonce
      BY <1>2 DEF OnceInv, DebitedBefore
    <3>3. ASSUME NEW k \in DOMAIN debits PROVE debits[k].nonce \in Int
      <4>1. debits[k] \in DebitRecord
        BY DEF BankInv, BankTypeOK
      <4>. QED
        BY <4>1, WireAssumption DEF DebitRecord
    <3>. QED
      BY <3>1, <3>2, <3>3
  <2>5. NonceDebitedOnce'
    BY <2>1, <2>2, <2>4 DEF OnceInv, NonceDebitedOnce
  <2>. QED
    BY <1>5, <2>3, <2>5 DEF OnceInv
<1>. QED
  BY <1>1, <1>6, <1>7, ServeEffect DEF BankInv, NamesInv

\* A request is made under a nonce above all others.
LEMMA CommandInOrder ==
  ASSUME BankInv, UserKnown, InTransit, OnceInv, AtmCommand
  PROVE  OnceInv'
<1>1. /\ atRouter \in Seq(Queued) /\ atBank \in Seq(net) /\ atBank' = atBank
      /\ debits' = debits /\ Transmit("atm")
  BY DEF InTransit, AtmCommand, bankState
<1>2. issued \in Int /\ \A d \in net : d.nonce <= issued /\ d.nonce \in Int
  <2>1. issued \in 0 .. MaxRequests /\ net \subseteq Datagram /\ MaxRequests \in Nat
    BY WireAssumption DEF BankInv, BankTypeOK, WireTypeOK
  <2>2. ASSUME NEW d \in Datagram PROVE d.nonce \in Int
    BY <2>1 DEF Datagram, RequestDatagram, AnswerDatagram
  <2>. QED
    BY <2>1, <2>2 DEF BankInv, RequestsInv
<1>3. ASSUME NEW d \in net' \ net PROVE d.nonce = issued + 1
  <2>1. ClientRequest \/ UNCHANGED bankVars
    BY CommandIsClient DEF AtmCommand
  <2>. QED
    BY <1>3, <2>1 DEF ClientRequest, SendRequest, Send, RequestDatagram, bankVars, wireVars
<1>4. CASE atRouter' = atRouter
  BY <1>1, <1>4 DEF OnceInv, InOrder, DebitedBefore, NonceDebitedOnce, ToBank
<1>5. ASSUME NEW d \in net' \ net,
             atRouter' = Append(atRouter, [from |-> "atm", datagram |-> d])
      PROVE  OnceInv'
  <2>. DEFINE q == [from |-> "atm", datagram |-> d]
  <2>1. q.datagram.nonce = issued + 1
    BY <1>3
  <2>. HIDE DEF q
  <2>2. /\ DOMAIN atRouter' = DOMAIN atRouter \cup {Len(atRouter) + 1}
        /\ \A i \in DOMAIN atRouter : atRouter'[i] = atRouter[i] /\ i < Len(atRouter) + 1
        /\ atRouter'[Len(atRouter) + 1] = q /\ Len(atRouter) \in Nat
    BY <1>1, <1>5, AppendAt DEF q
  <2>3. ToBank' \subseteq ToBank \cup {Len(atRouter) + 1} /\ ToBank \subseteq DOMAIN atRouter
    BY <2>2 DEF ToBank
  <2>4. \A i \in DOMAIN atBank : atBank[i].nonce < issued + 1
    BY <1>1, <1>2
  <2>5. \A i \in DOMAIN atRouter : atRouter[i].datagram.nonce < issued + 1
    <3>1. ASSUME NEW i \in DOMAIN atRouter PROVE atRouter[i].datagram \in net
      <4>1. atRouter[i] \in Queued
        BY <1>1
      <4>. QED
        BY <4>1 DEF Queued
    <3>. QED
      BY <1>2, <3>1
  <2>6. \A k \in DOMAIN debits : debits[k].nonce < issued + 1
    BY <1>2 DEF BankInv, DebitsInv
  <2>7. InOrder'
    BY <1>1, <2>1, <2>2, <2>3, <2>4, <2>5 DEF OnceInv, InOrder
  <2>8. DebitedBefore'
    BY <1>1, <2>1, <2>2, <2>3, <2>6 DEF OnceInv, DebitedBefore
  <2>. QED
    BY <1>1, <2>7, <2>8 DEF OnceInv, NonceDebitedOnce
<1>. QED
  BY <1>1, <1>4, <1>5 DEF Transmit

LEMMA OnceInvStep ==
  ASSUME BankInv, UserKnown, InTransit, OnceInv, [RoutedNext]_routedVars
  PROVE  OnceInv'
<1>1. CASE UNCHANGED <<atRouter, atBank, debits>>
  BY <1>1 DEF OnceInv, InOrder, DebitedBefore, NonceDebitedOnce, ToBank
<1>2. CASE AtmCommand
  BY <1>2, CommandInOrder
<1>3. CASE BankCrash
  <2>1. DOMAIN atBank' = {} /\ atRouter' = atRouter /\ debits' = debits
    BY <1>3 DEF BankCrash, Restart
  <2>. QED
    BY <2>1 DEF OnceInv, InOrder, DebitedBefore, NonceDebitedOnce, ToBank
<1>4. CASE BankConsole \/ Stray
  BY <1>1, <1>4 DEF BankConsole, Stray, CreateCard, AddAccount, Deposit, sockets, vars,
                    bankVars, bankState
<1>5. CASE AtmReceives \/ AtmTimeout \/ AtmCrash \/ UNCHANGED routedVars
  BY <1>1, <1>5 DEF AtmReceives, AtmTimeout, AtmCrash, routedVars, sockets, vars, bankVars,
                    bankState
<1>. QED
  BY <1>2, <1>3, <1>4, <1>5, ForwardInOrder, LoseInOrder, ServeInOrder DEF RoutedNext

\* Behind the router every command is debited once at most, paid once at most and paid
\* only if debited, however small the replay filter is and however often it wraps around.
THEOREM RoutedKeepsPromise == RoutedSpec => KeepsPromise
<1>1. RoutedInit => OnceInv
  BY DEF RoutedInit, Init, BankInit, OnceInv, InOrder, DebitedBefore, NonceDebitedOnce, ToBank
<1>2. BankInv /\ UserKnown /\ InTransit /\ OnceInv /\ [RoutedNext]_routedVars => OnceInv'
  BY OnceInvStep
<1>3. OnceInv => NonceDebitedOnce
  BY DEF OnceInv
<1>. QED
  BY <1>1, <1>2, <1>3, InTransitHolds, RoutedImplementsSystem, UserKnownHolds, SystemInvHolds,
     OncePromises, PTL
  DEF RoutedSpec

-----------------------------------------------------------------------------
(* While nothing fails.                                                    *)

Calm == failures = 0 /\ ~noisy

NotDebited == \A k \in DOMAIN debits : debits[k].nonce # pending.nonce

Unserved == NotDebited /\ \A e \in net : e.tag = "A" => e.nonce # pending.nonce

\* An answer that denies the pending command does so with reason.
Truthful(d) ==
  /\ pending.body.op = "withdraw" /\ d.body # Ok => NotDebited
  /\ pending.body.op = "exists" /\ d.body # Ok => {} \in witnessed
  /\ pending.body.op = "balance" => d.body.kind = "BAL"

FromAtm  == <<[from |-> "atm", datagram |-> pending]>>
FromBank(d) == <<[from |-> "bank", datagram |-> d]>>

\* Between commands nothing is on its way ...
Quiet == pc # "waiting" /\ atRouter = <<>> /\ atBank = <<>> /\ atAtm = <<>>

\* ... and while one waits, its request, which the bank has not seen yet, ...
RequestUnderway ==
  /\ pc = "waiting" /\ Unserved /\ atAtm = <<>>
  /\ \/ atRouter = FromAtm /\ atBank = <<>>
     \/ atRouter = <<>> /\ atBank = <<pending>>

\* ... or the answer to it.
ReplyUnderway ==
  /\ pc = "waiting" /\ atBank = <<>>
  /\ \E d \in net :
       /\ IsAnswer(d) /\ Truthful(d)
       /\ \/ atRouter = FromBank(d) /\ atAtm = <<>>
          \/ atRouter = <<>> /\ atAtm = <<d>>

\* The bank, never restarted, knows every account.
AllKnown == \A a \in opened : Known(a.name)

SaidTruly ==
  /\ RefusedNotDebited /\ NoSuchUserIsTrue
  /\ printed.msg = "No user logged in" => printed.nonce = 0

CalmInv ==
  Calm => (Quiet \/ RequestUnderway \/ ReplyUnderway) /\ AllKnown /\ SaidTruly

\* A balance is asked for by the user in session, and failures are counted.
OwnBalance ==
  /\ pc = "waiting" /\ pending.body.op = "balance" =>
       loggedIn /\ pending.body.user = currentUser
  /\ failures \in Nat

LEMMA OwnBalanceStep ==
  ASSUME OwnBalance, [Next]_vars, failures' = failures \/ Failure
  PROVE  OwnBalance'
<1>1. failures' \in Nat
  BY DEF OwnBalance, Failure
<1>2. ASSUME NEW r, Ask(r), UNCHANGED <<loggedIn, currentUser>>,
             r.op = "balance" => loggedIn /\ r.user = currentUser
      PROVE  OwnBalance'
  BY <1>1, <1>2 DEF Ask, RequestDatagram, OwnBalance
<1>3. CASE Command
  <2>1. ASSUME NEW u \in Name, BeginSession(u) PROVE OwnBalance'
    BY <1>2, <2>1 DEF BeginSession, ExistsRequest
  <2>2. ASSUME NEW q \in Pin, NEW t \in Secret, EnterPin(q, t) PROVE OwnBalance'
    BY <1>2, <2>2 DEF EnterPin, AuthRequest
  <2>3. ASSUME NEW a \in Amount, Withdraw(a) PROVE OwnBalance'
    BY <1>2, <2>3 DEF Withdraw, WithdrawRequest
  <2>4. CASE Balance
    BY <1>2, <2>4 DEF Balance, BalanceRequest
  <2>5. CASE AbandonLogin \/ CannotAsk
    <3>1. pc' = "command"
      BY <2>5, Zenon DEF AbandonLogin, CannotAsk, Done
    <3>. QED
      BY <1>1, <3>1 DEF OwnBalance
  <2>6. CASE EndSession \/ RefuseCommand
    BY <1>1, <2>6 DEF EndSession, RefuseCommand, OwnBalance
  <2>. QED
    BY <1>3, <2>1, <2>2, <2>3, <2>4, <2>5, <2>6 DEF Command
<1>4. CASE Read
  BY <1>1, <1>4 DEF Read, Skip, UserExists, LogIn, Dispense, ShowBalance, Denied, Receive,
                    Fail, Done, OwnBalance
<1>5. CASE Timeout \/ AtmRestart
  BY <1>1, <1>5 DEF Timeout, AtmRestart, Fail, Done, OwnBalance
<1>6. CASE UNCHANGED atmState
  BY <1>1, <1>6 DEF atmState, OwnBalance
<1>. QED
  BY <1>3, <1>4, <1>5, <1>6 DEF Next, AtmStep, vars

\* A sequence of one.
LEMMA OneElement ==
  ASSUME NEW x
  PROVE  /\ <<x>> # <<>> /\ Head(<<x>>) = x /\ Tail(<<x>>) = <<>>
         /\ Append(<<>>, x) = <<x>>
OBVIOUS

\* The router passes on the one datagram there is.
LEMMA CalmForward ==
  ASSUME Calm, CalmInv, Forward
  PROVE  (Quiet \/ RequestUnderway \/ ReplyUnderway)' /\ AllKnown' /\ SaidTruly'
<1>1. UNCHANGED vars /\ UNCHANGED <<pc, pending, debits, net, witnessed, opened, users, printed,
                                    loggedIn>>
  BY DEF Forward, vars, atmState, bankVars, bankState, wireVars
<1>2. AllKnown' /\ SaidTruly'
  BY <1>1 DEF CalmInv, AllKnown, Known, SaidTruly, RefusedNotDebited, NoSuchUserIsTrue
<1>3. CASE Quiet
  BY <1>3 DEF Quiet, Forward
<1>4. CASE RequestUnderway
  <2>1. Head(atRouter) = [from |-> "atm", datagram |-> pending] /\ Tail(atRouter) = <<>>
        /\ atBank = <<>> /\ atAtm = <<>>
    BY <1>4, OneElement DEF RequestUnderway, FromAtm, Forward
  <2>2. atRouter' = <<>> /\ atBank' = <<pending>> /\ atAtm' = <<>>
    BY <2>1, OneElement DEF Forward
  <2>3. RequestUnderway'
    BY <1>1, <1>4, <2>2 DEF RequestUnderway, Unserved, NotDebited
  <2>. QED
    BY <1>2, <2>3
<1>5. CASE ReplyUnderway
  <2>1. PICK d \in net : /\ pc = "waiting" /\ atBank = <<>> /\ IsAnswer(d) /\ Truthful(d)
                         /\ \/ atRouter = FromBank(d) /\ atAtm = <<>>
                            \/ atRouter = <<>> /\ atAtm = <<d>>
    BY <1>5 DEF ReplyUnderway
  <2>2. Head(atRouter) = [from |-> "bank", datagram |-> d] /\ Tail(atRouter) = <<>>
        /\ atAtm = <<>>
    BY <2>1, OneElement DEF FromBank, Forward
  <2>3. atRouter' = <<>> /\ atAtm' = <<d>> /\ atBank' = <<>>
    BY <2>1, <2>2, OneElement DEF Forward
  <2>4. IsAnswer(d)' /\ Truthful(d)'
    BY <1>1, <2>1 DEF IsAnswer, Truthful, NotDebited
  <2>5. ReplyUnderway'
    BY <1>1, <2>1, <2>3, <2>4 DEF ReplyUnderway
  <2>. QED
    BY <1>2, <2>5
<1>. QED
  BY <1>3, <1>4, <1>5 DEF CalmInv

\* A step that keeps the accounts known keeps what was said true, unless it debits.
LEMMA SaidKept ==
  ASSUME SaidTruly, UNCHANGED <<printed, loggedIn>>, witnessed \subseteq witnessed',
         debits' = debits \/ printed = Blank
  PROVE  SaidTruly'
<1>1. CASE printed = Blank
  <2>1. printed'.msg = ""
    BY <1>1 DEF Blank, Line
  <2>. QED
    BY <2>1 DEF SaidTruly, RefusedNotDebited, NoSuchUserIsTrue
<1>2. CASE debits' = debits
  BY <1>2 DEF SaidTruly, RefusedNotDebited, NoSuchUserIsTrue
<1>. QED
  BY <1>1, <1>2

\* The console changes nothing that is underway.
LEMMA CalmConsole ==
  ASSUME BankInv, Calm, CalmInv, BankConsole
  PROVE  (Quiet \/ RequestUnderway \/ ReplyUnderway)' /\ AllKnown' /\ SaidTruly'
<1>1. /\ UNCHANGED <<net, issued, debits>> /\ UNCHANGED <<pc, pending, printed, loggedIn>>
      /\ UNCHANGED <<atRouter, atBank, atAtm>>
  BY DEF BankConsole, CreateCard, AddAccount, Deposit, wireVars, atmState, sockets
<1>2. witnessed \subseteq witnessed'
  BY <1>1 DEF BankConsole, Watch
<1>3. SaidTruly'
  BY <1>1, <1>2, SaidKept DEF CalmInv
<1>4. AllKnown'
  <2>1. CASE \E u \in Name, q \in Pin, t \in Secret, b \in Amount : CreateCard(u, q, t, b)
    BY <2>1 DEF CreateCard, CalmInv, AllKnown, Known
  <2>2. CASE AddAccount
    <3>1. /\ users' = Append(users, creating[1]) /\ opened' = opened \cup {IdentityOf(creating[1])}
          /\ users \in Seq(Account) /\ IdentityOf(creating[1]).name = creating[1].name
      BY <2>2 DEF AddAccount, BankInv, BankTypeOK, IdentityOf
    <3>2. /\ Len(users) + 1 \in DOMAIN users' /\ users'[Len(users) + 1] = creating[1]
          /\ \A i \in DOMAIN users : i \in DOMAIN users' /\ users'[i] = users[i]
      BY <3>1
    <3>. QED
      BY <3>1, <3>2 DEF CalmInv, AllKnown, Known
  <2>3. ASSUME NEW u \in Name, NEW a \in Amount, Deposit(u, a)
        PROVE  AllKnown'
    <3>1. \A v : Known(v) => Known(v)'
      BY <2>3 DEF Deposit, Known, BankInv, BankTypeOK, Account
    <3>. QED
      BY <2>3, <3>1 DEF CalmInv, AllKnown, Deposit
  <2>. QED
    BY <2>1, <2>2, <2>3 DEF BankConsole
<1>5. CASE Quiet
  BY <1>1, <1>3, <1>4, <1>5 DEF Quiet
<1>6. CASE RequestUnderway
  BY <1>1, <1>3, <1>4, <1>6 DEF RequestUnderway, Unserved, NotDebited, FromAtm
<1>7. CASE ReplyUnderway
  <2>1. PICK d \in net : /\ pc = "waiting" /\ atBank = <<>> /\ IsAnswer(d) /\ Truthful(d)
                         /\ \/ atRouter = FromBank(d) /\ atAtm = <<>>
                            \/ atRouter = <<>> /\ atAtm = <<d>>
    BY <1>7 DEF ReplyUnderway
  <2>2. IsAnswer(d)' /\ Truthful(d)'
    BY <1>1, <1>2, <2>1 DEF IsAnswer, Truthful, NotDebited
  <2>. QED
    BY <1>1, <1>3, <1>4, <2>1, <2>2 DEF ReplyUnderway, FromBank
<1>. QED
  BY <1>5, <1>6, <1>7 DEF CalmInv

\* The bank answers the one request there is, and by the truth.
LEMMA CalmServe ==
  ASSUME BankInv, AtmInv, SystemInv, OwnBalance, Calm, CalmInv, BankReceives
  PROVE  ReplyUnderway' /\ AllKnown' /\ SaidTruly'
<1>1. pc = "waiting" /\ Unserved /\ atAtm = <<>> /\ atRouter = <<>> /\ atBank = <<pending>>
  BY DEF CalmInv, Quiet, RequestUnderway, ReplyUnderway, BankReceives
<1>2. /\ Serve(pending) /\ atBank' = <<>> /\ atAtm' = <<>> /\ Transmit("bank")
      /\ UNCHANGED <<pc, pending, printed, loggedIn, currentUser>> /\ Watch
      /\ AllKnown /\ SaidTruly
  BY <1>1, OneElement DEF BankReceives, atmState, CalmInv
<1>3. pending \in net /\ OneAccountPerName /\ BankTypeOK /\ NamesInv
  BY <1>1 DEF AtmInv, PendingWasSent, BankInv, NamesInv
<1>4. /\ UNCHANGED <<issued, opened>>
      /\ UNCHANGED <<users, debits>> \/ Debit(pending)
  BY <1>2, <1>3, ServeEffect
<1>5. \A u : Known(u) => Known(u)'
  <2>1. CASE Debit(pending)
    BY <1>3, <2>1, DebitEffect, BalanceUpdate DEF Known
  <2>. QED
    BY <1>4, <2>1 DEF Known
<1>6. witnessed \subseteq witnessed' /\ Snapshot(users', pending.body.user) \in witnessed'
  BY <1>1, <1>2, <1>4 DEF Watch
<1>7. printed = Blank
  BY <1>1 DEF SystemInv, CommandInv
<1>8. AllKnown' /\ SaidTruly'
  BY <1>2, <1>4, <1>5, <1>6, <1>7, SaidKept DEF AllKnown
\* Which answer it is.
<1>9. PICK reply \in Reply :
        /\ Answer(pending, reply)
        /\ pending.body.op = "withdraw" /\ reply # Ok => debits' = debits
        /\ pending.body.op = "exists" /\ reply # Ok => users' = users /\ ~Known(pending.body.user)
        /\ pending.body.op = "balance" => reply.kind = "BAL"
  <2>1. CASE ServeExists(pending)
    BY <2>1 DEF ServeExists, Reply
  <2>2. CASE ServeAuth(pending)
    BY <2>2 DEF ServeAuth, Reply
  <2>3. CASE ServeBalance(pending)
    <3>1. Known(pending.body.user)
      <4>1. loggedIn /\ pending.body.user = currentUser
        BY <1>1, <2>3 DEF OwnBalance, ServeBalance
      <4>2. [name |-> currentUser, pin |-> credentials.pin, secret |-> credentials.secret]
              \in opened
        BY <4>1 DEF SystemInv, SessionAuthentic
      <4>3. [name |-> currentUser, pin |-> credentials.pin,
             secret |-> credentials.secret].name = currentUser
        OBVIOUS
      <4>. QED
        BY <1>2, <4>1, <4>2, <4>3 DEF AllKnown
    <3>2. /\ Answer(pending, Bal(users[FindUser(pending.body.user)].balance))
          /\ pending.body.op = "balance"
      BY <2>3, <3>1 DEF ServeBalance
    <3>3. users[FindUser(pending.body.user)].balance \in Amount
      BY <1>3, <3>1, FindUserFinds DEF Account
    <3>4. /\ Bal(users[FindUser(pending.body.user)].balance) \in Reply
          /\ Bal(users[FindUser(pending.body.user)].balance).kind = "BAL"
      BY <3>3 DEF Reply, Bal
    <3>. QED
      BY <3>2, <3>4
  <2>4. CASE Debit(pending)
    BY <2>4 DEF Debit, Reply
  <2>5. CASE RefuseDebit(pending)
    BY <2>5 DEF RefuseDebit, Reply
  <2>. QED
    BY <1>2, <2>1, <2>2, <2>3, <2>4, <2>5 DEF Serve
<1>10. PICK d : d = AnswerDatagram(pending.nonce, reply)
  OBVIOUS
<1>11. /\ net' = net \cup {d} /\ d.tag = "A" /\ d.nonce = pending.nonce /\ d.body = reply
  BY <1>9, <1>10 DEF Answer, Send, AnswerDatagram
<1>12. d \notin net
  BY <1>1, <1>11 DEF Unserved
<1>13. atRouter' = FromBank(d)
  BY <1>1, <1>2, <1>11, <1>12, OneElement DEF Transmit, FromBank
<1>14. Truthful(d)'
  <2>1. pending.body.op = "exists" /\ reply # Ok => {} \in witnessed'
    BY <1>6, <1>9 DEF Snapshot, Known
  <2>. QED
    BY <1>1, <1>2, <1>9, <1>11, <2>1 DEF Truthful, NotDebited, Unserved
<1>15. ReplyUnderway'
  BY <1>1, <1>2, <1>11, <1>13, <1>14 DEF ReplyUnderway, IsAnswer, FromBank
<1>. QED
  BY <1>8, <1>15

\* Nothing the ATM says of its own accord is a claim about the bank.
LEMMA SaidAtOnce ==
  ASSUME BankInv', printed'.nonce = 0
  PROVE  SaidTruly'
<1>1. \A k \in DOMAIN debits' : debits'[k].nonce \in 1 .. MaxRequests
  <2>1. debits' \in Seq(DebitRecord)
    BY DEF BankInv, BankTypeOK
  <2>2. \A k \in DOMAIN debits' : debits'[k] \in DebitRecord
    BY <2>1
  <2>. QED
    BY <2>2 DEF DebitRecord
<1>2. 0 \notin 1 .. MaxRequests /\ ~(0 > 0)
  BY WireAssumption
<1>3. RefusedNotDebited'
  BY <1>1, <1>2 DEF RefusedNotDebited
<1>4. NoSuchUserIsTrue'
  BY <1>2 DEF NoSuchUserIsTrue
<1>. QED
  BY <1>3, <1>4 DEF SaidTruly

\* A command sends one request, or is over.
LEMMA CalmCommand ==
  ASSUME BankInv, BankInv', Calm, CalmInv, AtmCommand
  PROVE  (Quiet \/ RequestUnderway \/ ReplyUnderway)' /\ AllKnown' /\ SaidTruly'
<1>1. /\ atBank' = atBank /\ atAtm' = atAtm /\ Command /\ Transmit("atm")
      /\ UNCHANGED <<users, debits, opened>>
  BY DEF AtmCommand, bankState
<1>2. AllKnown'
  BY <1>1 DEF CalmInv, AllKnown, Known
<1>3. pc \in {"command", "pin"}
  BY <1>1 DEF Command, BeginSession, EnterPin, AbandonLogin, Withdraw, Balance,
              EndSession, RefuseCommand, CannotAsk
<1>4. atRouter = <<>> /\ atBank = <<>> /\ atAtm = <<>>
  BY <1>3 DEF CalmInv, Quiet, RequestUnderway, ReplyUnderway
<1>5. ASSUME NEW request, Ask(request)
      PROVE  RequestUnderway' /\ SaidTruly'
  <2>1. /\ pc' = "waiting" /\ printed' = Blank
        /\ net' = net \cup {pending'} /\ pending'.nonce = issued + 1 /\ pending'.tag = "R"
    BY <1>5 DEF Ask, SendRequest, Send, RequestDatagram
  <2>2. issued \in Nat /\ \A e \in net : e.nonce <= issued
    BY DEF BankInv, BankTypeOK, WireTypeOK, RequestsInv
  <2>3. \A e \in net : e.nonce # issued + 1
    BY <2>2 DEF BankInv, BankTypeOK, WireTypeOK
  <2>4. \A k \in DOMAIN debits : debits[k].nonce # issued + 1
    BY <2>3 DEF BankInv, DebitsInv
  <2>5. Unserved'
    BY <1>1, <2>1, <2>3, <2>4 DEF Unserved, NotDebited
  <2>6. pending' \notin net
    BY <2>1, <2>3
  <2>7. atRouter' = FromAtm'
    BY <1>1, <1>4, <2>1, <2>6, OneElement DEF Transmit, FromAtm
  <2>8. printed'.nonce = 0
    BY <2>1 DEF Blank, Line
  <2>. QED
    BY <1>1, <1>4, <2>1, <2>5, <2>7, <2>8, SaidAtOnce DEF RequestUnderway
<1>6. ASSUME net' = net, pc' # "waiting", printed'.nonce = 0
      PROVE  Quiet' /\ SaidTruly'
  BY <1>1, <1>4, <1>6, SaidAtOnce DEF Transmit, Quiet
<1>7. CASE AbandonLogin
  <2>1. net' = net /\ pc' = "command"
    BY <1>7, Zenon DEF AbandonLogin, Done, wireVars
  <2>2. PICK msg : printed' = Line(msg, 0, 0)
    BY <1>7, Zenon DEF AbandonLogin, Done
  <2>. QED
    BY <1>2, <1>6, <2>1, <2>2 DEF Line
<1>8. CASE CannotAsk
  <2>1. net' = net /\ pc' = "command"
    BY <1>8, Zenon DEF CannotAsk, Done, wireVars
  <2>2. PICK msg : printed' = Line(msg, 0, 0)
    BY <1>8, Zenon DEF CannotAsk, Done
  <2>. QED
    BY <1>2, <1>6, <2>1, <2>2 DEF Line
<1>9. CASE EndSession \/ RefuseCommand
  <2>1. net' = net /\ pc' = "command"
    BY <1>9 DEF EndSession, RefuseCommand, wireVars
  <2>2. PICK msg : printed' = Line(msg, 0, 0)
    BY <1>9 DEF EndSession, RefuseCommand
  <2>. QED
    BY <1>2, <1>6, <2>1, <2>2 DEF Line
<1>. QED
  BY <1>1, <1>2, <1>5, <1>7, <1>8, <1>9
  DEF Command, BeginSession, EnterPin, Withdraw, Balance

\* The ATM reads the answer to its request, and nothing else.
LEMMA CalmReceive ==
  ASSUME BankInv, AtmInv, SystemInv, Calm, CalmInv, AtmReceives
  PROVE  Quiet' /\ AllKnown' /\ SaidTruly'
<1>1. PICK d \in net : /\ pc = "waiting" /\ atBank = <<>> /\ IsAnswer(d) /\ Truthful(d)
                       /\ \/ atRouter = FromBank(d) /\ atAtm = <<>>
                          \/ atRouter = <<>> /\ atAtm = <<d>>
  BY DEF CalmInv, Quiet, RequestUnderway, ReplyUnderway, AtmReceives
<1>2. Head(atAtm) = d /\ Tail(atAtm) = <<>> /\ atRouter = <<>>
  BY <1>1, OneElement DEF AtmReceives
<1>3. /\ UserExists(d) \/ LogIn(d) \/ Dispense(d) \/ ShowBalance(d) \/ Denied(d)
      /\ UNCHANGED <<users, debits, opened, issued>>
      /\ atRouter' = <<>> /\ atBank' = <<>> /\ atAtm' = <<>> /\ Watch
  BY <1>1, <1>2 DEF AtmReceives, Skip, bankState, UserExists, LogIn, Dispense, ShowBalance,
                    Denied, wireVars
<1>4. witnessed \subseteq witnessed'
  BY <1>3 DEF Watch
<1>5. AllKnown'
  BY <1>3 DEF CalmInv, AllKnown, Known
<1>6. pc' \in {"pin", "command"}
  BY <1>3 DEF UserExists, LogIn, Dispense, ShowBalance, Denied, Fail, Done
<1>7. SaidTruly'
  <2>1. CASE UserExists(d)
    BY <1>1, <1>3, <1>4, <2>1, SaidKept DEF UserExists, CalmInv
  <2>2. ASSUME printed'.msg \notin {"Insufficient funds", "No such user", "No user logged in"}
        PROVE  SaidTruly'
    BY <2>2 DEF SaidTruly, RefusedNotDebited, NoSuchUserIsTrue
  <2>3. CASE LogIn(d)
    BY <2>2, <2>3 DEF LogIn, Done, Line
  <2>4. CASE Dispense(d)
    BY <2>2, <2>4 DEF Dispense, Done, Line
  <2>5. CASE ShowBalance(d)
    BY <2>2, <2>5 DEF ShowBalance, Done, Line
  <2>6. CASE Denied(d)
    <3>1. printed'.msg = FailureText(pending.body.op) /\ printed'.nonce = pending.nonce
      BY <2>6 DEF Denied, Fail, Done, Line
    <3>2. CASE pending.body.op = "exists"
      <4>1. d.body # Ok
        BY <2>6, <3>2 DEF Denied, Receive
      <4>2. {} \in witnessed' /\ printed'.msg = "No such user"
        BY <1>1, <1>4, <3>1, <3>2, <4>1 DEF Truthful, FailureText
      <4>. QED
        BY <4>2 DEF SaidTruly, RefusedNotDebited, NoSuchUserIsTrue
    <3>3. CASE pending.body.op = "auth"
      BY <2>2, <3>1, <3>3 DEF FailureText
    <3>4. CASE pending.body.op = "withdraw"
      <4>1. d.body # Ok
        BY <2>6, <3>4 DEF Denied, Receive
      <4>2. NotDebited /\ printed'.msg = "Insufficient funds"
        BY <1>1, <3>1, <3>4, <4>1 DEF Truthful, FailureText
      <4>. QED
        BY <1>3, <3>1, <4>2 DEF SaidTruly, RefusedNotDebited, NoSuchUserIsTrue, NotDebited
    <3>5. pending.body.op # "balance"
      BY <1>1, <2>6 DEF Denied, Receive, Truthful
    <3>. QED
      BY <2>6, <3>2, <3>3, <3>4, <3>5 DEF Denied, Receive
  <2>. QED
    BY <1>3, <2>1, <2>3, <2>4, <2>5, <2>6
<1>. QED
  BY <1>3, <1>5, <1>6, <1>7 DEF Quiet

\* The ATM never gives up on an answer that is underway without a failure.
LEMMA CalmTimeout ==
  ASSUME Calm, CalmInv, AtmTimeout
  PROVE  ~Calm'
<1>1. pc = "waiting" /\ atAtm = <<>>
  BY DEF AtmTimeout, Timeout
<1>2. AnswerUnderway
  <2>1. CASE atRouter = FromAtm
    <3>1. 1 \in DOMAIN atRouter /\ atRouter[1].datagram = pending
      BY <2>1 DEF FromAtm
    <3>. QED
      BY <3>1 DEF AnswerUnderway, Underway
  <2>2. CASE atBank = <<pending>>
    <3>1. 1 \in DOMAIN atBank /\ atBank[1] = pending
      BY <2>2
    <3>. QED
      BY <3>1 DEF AnswerUnderway, Underway
  <2>3. ASSUME NEW d, IsAnswer(d), atRouter = FromBank(d)
        PROVE  AnswerUnderway
    <3>1. 1 \in DOMAIN atRouter /\ atRouter[1].datagram = d
      BY <2>3 DEF FromBank
    <3>. QED
      BY <2>3, <3>1 DEF AnswerUnderway, Underway, IsAnswer
  <2>4. \A d : atAtm # <<d>>
    BY <1>1
  <2>. QED
    BY <1>1, <2>1, <2>2, <2>3, <2>4 DEF CalmInv, Quiet, RequestUnderway, ReplyUnderway
<1>3. failures' = 1
  BY <1>2 DEF AtmTimeout, Failure, Calm
<1>. QED
  BY <1>3 DEF Calm

\* Failures do not go away.
LEMMA CalmBefore ==
  ASSUME OwnBalance, [RoutedNext]_routedVars
  PROVE  /\ failures' = failures \/ Failure
         /\ Calm' => Calm
<1>1. (failures' = failures \/ Failure) /\ noisy' = noisy
  BY DEF RoutedNext, routedVars, Forward, Lose, Stray, BankReceives, BankConsole, BankCrash,
         AtmCommand, AtmReceives, AtmTimeout, AtmCrash
<1>. QED
  BY <1>1 DEF Failure, Calm, OwnBalance

LEMMA CalmStep ==
  ASSUME BankInv, BankInv', AtmInv, SystemInv, OwnBalance, CalmInv, [RoutedNext]_routedVars
  PROVE  CalmInv'
<1>. SUFFICES ASSUME Calm'
              PROVE  (Quiet \/ RequestUnderway \/ ReplyUnderway)' /\ AllKnown' /\ SaidTruly'
  BY DEF CalmInv
<1>1. Calm
  BY CalmBefore
<1>2. CASE Lose \/ BankCrash \/ AtmCrash \/ Stray
  <2>1. Failure \/ noisy
    BY <1>2 DEF Lose, BankCrash, AtmCrash, Stray
  <2>. QED
    BY <1>1, <2>1 DEF Failure, Calm
<1>3. CASE UNCHANGED routedVars
  <2>1. UNCHANGED <<pc, pending, debits, net, witnessed, opened, users, printed, loggedIn>>
        /\ UNCHANGED <<atRouter, atBank, atAtm>>
    BY <1>3 DEF routedVars, sockets, vars, atmState, bankVars, bankState, wireVars
  <2>2. AllKnown' /\ SaidTruly'
    BY <1>1, <2>1 DEF CalmInv, AllKnown, Known, SaidTruly, RefusedNotDebited, NoSuchUserIsTrue
  <2>3. (Quiet \/ RequestUnderway \/ ReplyUnderway)'
    BY <1>1, <2>1 DEF CalmInv, Quiet, RequestUnderway, ReplyUnderway, Unserved, NotDebited,
                      Truthful, IsAnswer, FromAtm, FromBank
  <2>. QED
    BY <2>2, <2>3
<1>. QED
  BY <1>1, <1>2, <1>3, CalmForward, CalmConsole, CalmServe, CalmCommand, CalmReceive, CalmTimeout
  DEF RoutedNext

LEMMA CalmHolds == RoutedSpec => []CalmInv
<1>1. RoutedInit => CalmInv /\ OwnBalance
  <2>. SUFFICES ASSUME RoutedInit PROVE CalmInv /\ OwnBalance
    OBVIOUS
  <2>1. /\ pc = "command" /\ opened = {} /\ printed = Blank
        /\ atRouter = <<>> /\ atBank = <<>> /\ atAtm = <<>>
        /\ failures \in Nat
    BY RoutedAssumption DEF RoutedInit, Init, AtmInit, BankInit
  <2>2. printed.msg = ""
    BY <2>1 DEF Blank, Line
  <2>. QED
    BY <2>1, <2>2 DEF CalmInv, OwnBalance, Quiet, AllKnown, SaidTruly, RefusedNotDebited,
                      NoSuchUserIsTrue
<1>2. InTransit /\ OwnBalance /\ [RoutedNext]_routedVars => OwnBalance'
  BY RoutedIsSystem, CalmBefore, OwnBalanceStep
<1>3. RoutedSpec => [](BankInv /\ AtmInv /\ SystemInv)
  BY RoutedImplementsSystem, SystemInvHolds, PTL
<1>4. BankInv /\ BankInv' /\ AtmInv /\ SystemInv /\ OwnBalance /\ CalmInv /\ [RoutedNext]_routedVars
      => CalmInv'
  BY CalmStep
<1>. QED
  BY <1>1, <1>2, <1>3, <1>4, InTransitHolds, PTL DEF RoutedSpec

\* Without failures "No such user" and "No user logged in" are true and nothing was
\* charged where "Insufficient funds" was printed, although each of the three is also
\* what the ATM prints for want of an answer.
THEOREM FailureMessagesHold == RoutedSpec => []FailureMessagesAreTrue
<1>1. CalmInv => FailureMessagesAreTrue
  <2>1. ~(0 > 0)
    OBVIOUS
  <2>2. SaidTruly => NoUserLoggedInIsTrue
    BY <2>1 DEF SaidTruly, NoUserLoggedInIsTrue
  <2>. QED
    BY <2>2 DEF CalmInv, Calm, SaidTruly, FailureMessagesAreTrue
<1>. QED
  BY <1>1, CalmHolds, PTL

=============================================================================
