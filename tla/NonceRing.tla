----------------------------- MODULE NonceRing -----------------------------
(***************************************************************************)
(* The bank's replay filter (bank/bank.h, bank/bank.c): a ring of the      *)
(* RingSize nonces accepted last, searched in full before a request is     *)
(* served and overwritten one slot at a time.                              *)
(***************************************************************************)
EXTENDS Naturals

CONSTANT RingSize              \* BANK_NONCE_RING

ASSUME RingSizeAssumption == RingSize \in Nat \ {0}

Slots == 0 .. RingSize - 1

\* bank_create clears only nonce_used and nonce_idx: the slots themselves hold
\* whatever malloc returned.
EmptyRing(garbage) ==
  [nonces |-> garbage, used |-> [i \in Slots |-> FALSE], idx |-> 0]

\* Faulty variant: compares slots that were never written.
NonceSeenInGarbage(ring, nonce) ==
  \E i \in Slots : ring.nonces[i] = nonce

NonceSeen(ring, nonce) ==
  \E i \in Slots : ring.used[i] /\ ring.nonces[i] = nonce

\* Faulty variant: the index skips a slot, so one slot is never refreshed in time.
NonceRememberSkipping(ring, nonce) ==
  [nonces |-> [ring.nonces EXCEPT ![ring.idx] = nonce],
   used   |-> [ring.used EXCEPT ![ring.idx] = TRUE],
   idx    |-> (ring.idx + 2) % RingSize]

\* Faulty variant: the slot written is not marked as used.
NonceRememberUnmarked(ring, nonce) ==
  [nonces |-> [ring.nonces EXCEPT ![ring.idx] = nonce],
   used   |-> ring.used,
   idx    |-> (ring.idx + 1) % RingSize]

NonceRemember(ring, nonce) ==
  [nonces |-> [ring.nonces EXCEPT ![ring.idx] = nonce],
   used   |-> [ring.used EXCEPT ![ring.idx] = TRUE],
   idx    |-> (ring.idx + 1) % RingSize]

=============================================================================
