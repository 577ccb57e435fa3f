-------------------------- MODULE MCSessionSystem ---------------------------
(* Small instances of SessionSystem: its pins are interchangeable.          *)
EXTENDS SessionSystem, TLC

MCSymmetry == Permutations(Pin)

=============================================================================
