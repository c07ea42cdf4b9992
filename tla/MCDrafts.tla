------------------------------ MODULE MCDrafts ------------------------------
(* The instance of Drafts that TLC checks. *)
EXTENDS Drafts, TLC

Symmetry == Permutations(Worker)
=============================================================================
