-------------------------------- MODULE Wire --------------------------------
(***************************************************************************)
(* What travels between the ATM and the bank.  A datagram is sealed with   *)
(* the shared key and carries a tag ("R" request, "A" answer), the nonce   *)
(* of the request and a body.  Sealing and opening (util/crypto.c) are     *)
(* abstracted to: an authentic datagram arrives as it was sent, anything   *)
(* else is Junk and fails to open.                                         *)
(*                                                                         *)
(* The network is UDP through the router: net is the set of all datagrams  *)
(* ever sent, and a receiver may be handed any of them at any time, never, *)
(* or twice: loss, delay, reordering, duplication and misdelivery.         *)
(***************************************************************************)
EXTENDS Naturals

CONSTANTS
  Name,          \* valid user names
  Pin,           \* four-digit pins
  Secret,        \* card secrets
  IntMax,        \* INT_MAX
  MaxRequests    \* bound of the model: requests the ATM sends in a behaviour

ASSUME WireAssumption == IntMax \in Nat /\ MaxRequests \in Nat

VARIABLES
  net,           \* every authentic datagram sent so far
  issued         \* nonces drawn so far: nonce n is the n-th one

wireVars == <<net, issued>>

Amount == 0 .. IntMax

\* The four requests bank_request is called with.
ExistsRequest(u)       == [op |-> "exists", user |-> u]
AuthRequest(u, p, s)   == [op |-> "auth", user |-> u, pin |-> p, secret |-> s]
BalanceRequest(u)      == [op |-> "balance", user |-> u]
WithdrawRequest(u, a)  == [op |-> "withdraw", user |-> u, amount |-> a]

Request ==
  {ExistsRequest(u) : u \in Name}
    \cup {AuthRequest(u, p, s) : u \in Name, p \in Pin, s \in Secret}
    \cup {BalanceRequest(u) : u \in Name}
    \cup {WithdrawRequest(u, a) : u \in Name, a \in Amount}

\* The replies handle_request can write.
Ok     == [kind |-> "OK"]
No     == [kind |-> "NO"]
Nsf    == [kind |-> "NSF"]
Bal(b) == [kind |-> "BAL", balance |-> b]

Reply == {Ok, No, Nsf} \cup {Bal(b) : b \in Amount}

RequestDatagram(n, request) == [tag |-> "R", nonce |-> n, body |-> request]
AnswerDatagram(n, reply)    == [tag |-> "A", nonce |-> n, body |-> reply]

Junk == [tag |-> "junk"]

Datagram ==
  {RequestDatagram(n, r) : n \in 1 .. MaxRequests, r \in Request}
    \cup {AnswerDatagram(n, r) : n \in 1 .. MaxRequests, r \in Reply}

Send(datagram) == net' = net \cup {datagram}

\* A request goes out under a nonce that was never used before (RAND_bytes draws
\* 8 bytes; a repetition is left out of the model).
SendRequest(request) ==
  /\ issued < MaxRequests
  /\ issued' = issued + 1
  /\ Send(RequestDatagram(issued + 1, request))

WireInit == net = {} /\ issued = 0

WireTypeOK ==
  /\ net \subseteq Datagram
  /\ issued \in 0 .. MaxRequests

=============================================================================
