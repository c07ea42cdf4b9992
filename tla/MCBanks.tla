------------------------------- MODULE MCBanks -------------------------------
(* The instance of Banks that TLC checks. *)
EXTENDS Banks, TLC

Symmetry == Permutations(Worker)
=============================================================================
