----------------------------- MODULE MCAtmBank ------------------------------
(* Small instances of AtmBank: names, pins and secrets are interchangeable. *)
EXTENDS AtmBank, TLC

MCSymmetry == Permutations(Name) \cup Permutations(Secret) \cup Permutations(Pin)

=============================================================================
