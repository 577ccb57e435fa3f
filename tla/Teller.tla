------------------------------- MODULE Teller -------------------------------
(***************************************************************************)
(* What a user may expect of the bank and its ATM, without processes,      *)
(* datagrams or nonces: a withdrawal is one debit of an account and at     *)
(* most one payment.  A debit may remain unpaid (its answer was lost); a   *)
(* payment without its debit, a second debit or a second payment of one    *)
(* command, and a debit beyond the balance never happen.                   *)
(***************************************************************************)
EXTENDS Integers, Sequences

CONSTANTS Name, IntMax, Closed, Ids

VARIABLES
  balance,   \* per name, an amount or Closed
  named,     \* the names accounts were ever opened under
  debited,   \* the withdrawals debited
  paid       \* the withdrawals paid out, in order

vars == <<balance, named, debited, paid>>

Open(u, b) ==
  /\ balance[u] = Closed /\ u \notin named
  /\ balance' = [balance EXCEPT ![u] = b]
  /\ named' = named \cup {u}
  /\ UNCHANGED <<debited, paid>>

Deposit(u, a) ==
  /\ balance[u] # Closed /\ balance[u] + a <= IntMax
  /\ balance' = [balance EXCEPT ![u] = @ + a]
  /\ UNCHANGED <<named, debited, paid>>

Debit(w) ==
  /\ balance[w.user] # Closed /\ w.amount <= balance[w.user]
  /\ \A v \in debited : v.id # w.id
  /\ balance' = [balance EXCEPT ![w.user] = @ - w.amount]
  /\ debited' = debited \cup {w}
  /\ UNCHANGED <<named, paid>>

Pay(w) ==
  /\ w \in debited
  /\ \A i \in DOMAIN paid : paid[i].id # w.id
  /\ paid' = Append(paid, w)
  /\ UNCHANGED <<balance, named, debited>>

\* The bank stops: its accounts are gone, and their names are not given again.
CloseAll ==
  /\ balance' = [u \in Name |-> Closed]
  /\ UNCHANGED <<named, debited, paid>>

Init ==
  /\ balance = [u \in Name |-> Closed]
  /\ named = {} /\ debited = {} /\ paid = <<>>

Next ==
  \/ \E u \in Name, b \in 0 .. IntMax : Open(u, b) \/ Deposit(u, b)
  \/ \E w \in [id : Ids, user : Name, amount : 0 .. IntMax] : Debit(w)
  \/ \E w \in debited : Pay(w)
  \/ CloseAll

Spec == Init /\ [][Next]_vars

=============================================================================
