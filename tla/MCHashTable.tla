---------------------------- MODULE MCHashTable -----------------------------
(* Four keys in two bins: three of them collide. *)
EXTENDS HashTable, TLC

CONSTANTS k1, k2, k3, k4

MCHash == k1 :> 0 @@ k2 :> 0 @@ k3 :> 0 @@ k4 :> 1

=============================================================================
