---------------------------- MODULE SessionWire -----------------------------
(***************************************************************************)
(* What travels between the ATM and the bank of the archived submission    *)
(* (break-it/6825f15e).  Datagrams are in the clear and carry an HMAC:     *)
(* under the master key while logging in, under a session key afterwards.  *)
(* A field only the HMAC covers (the pin, the card secret, the key itself) *)
(* is part of the record here, and is looked at only by comparing it.      *)
(*                                                                         *)
(* net is the set of datagrams ever sent; a receiver may be handed any of  *)
(* them at any time, never, or twice.  "ERROR" and "AUTH_FAIL", which      *)
(* carry no HMAC, count as junk: the ATM treats them as it treats junk,    *)
(* so sending them is left out.                                            *)
(***************************************************************************)
EXTENDS Naturals

CONSTANTS
  Name, Pin, Secret,
  IntMax,          \* INT_MAX
  MaxNonces,       \* bound of the model: nonces the ATM draws
  MaxSessions,     \* bound of the model: nonces the bank draws, one per session
  MaxCounter       \* bound of the model: requests of one session

ASSUME SessionWireAssumption ==
  /\ IntMax \in Nat /\ MaxNonces \in Nat /\ MaxSessions \in Nat /\ MaxCounter \in Nat

VARIABLES
  net,             \* every authentic datagram sent so far
  clientNonces,    \* nonces drawn by the ATM so far
  serverNonces     \* nonces drawn by the bank so far

wireVars == <<net, clientNonces, serverNonces>>

Amount == 0 .. IntMax

\* What derive_session_key hashes on both sides; equal inputs, equal keys.
SessionKey(u, p, s, client, server) ==
  [user |-> u, pin |-> p, secret |-> s, client |-> client, server |-> server]

\* Requests.  counter is next_counter; a request of END or BALANCE has no amount.
Exists(u, n)       == [kind |-> "EXISTS", user |-> u, nonce |-> n]
Auth(u, n, p, s)   == [kind |-> "AUTH", user |-> u, nonce |-> n, pin |-> p, secret |-> s]
BalanceOf(c, k)    == [kind |-> "BALANCE", counter |-> c, key |-> k]
Withdraw(a, c, k)  == [kind |-> "WITHDRAW", amount |-> a, counter |-> c, key |-> k]
End(c, k)          == [kind |-> "END", counter |-> c, key |-> k]

\* Replies.  A balance reply is told from a balance request by its extra field.
ExistsOk(u, n)     == [kind |-> "EXISTS_OK", user |-> u, nonce |-> n]
ExistsNo(u, n)     == [kind |-> "EXISTS_NO", user |-> u, nonce |-> n]
AuthOk(k)          == [kind |-> "AUTH_OK", key |-> k]
BalanceIs(a, c, k) == [kind |-> "BALANCE_IS", amount |-> a, counter |-> c, key |-> k]
Dispense(a, c, k)  == [kind |-> "DISPENSE", amount |-> a, counter |-> c, key |-> k]
Insufficient(c, k) == [kind |-> "INSUFFICIENT", counter |-> c, key |-> k]
EndOk(c, k)        == [kind |-> "END_OK", counter |-> c, key |-> k]

Send(datagram) == net' = net \cup {datagram}

WireInit == net = {} /\ clientNonces = 0 /\ serverNonces = 0

=============================================================================
