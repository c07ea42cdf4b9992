---------------------------- MODULE MCAuthTokens ----------------------------
(* The instance of AuthTokens that TLC checks. *)
EXTENDS AuthTokens, TLC

Symmetry == Permutations(Worker)
=============================================================================
