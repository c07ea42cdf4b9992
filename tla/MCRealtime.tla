----------------------------- MODULE MCRealtime -----------------------------
(* The instance of Realtime that TLC checks: two sockets of one user on one *)
(* server, and a second server whose routes change collaborators too.       *)
EXTENDS Realtime, TLC

CONSTANTS u1, A

Homes == [s \in Socket |-> A]
Users == [s \in Socket |-> u1]

Symmetry == Permutations(Socket) \cup Permutations(Draft)
=============================================================================
