------------------------------- MODULE MCBank -------------------------------
(* Small instances of Bank: accounts, pins and secrets are interchangeable. *)
EXTENDS Bank, TLC

MCSymmetry == Permutations(Name) \cup Permutations(Secret) \cup Permutations(Pin)

=============================================================================
