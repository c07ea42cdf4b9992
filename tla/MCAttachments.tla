--------------------------- MODULE MCAttachments ---------------------------
(* The instance of Attachments that TLC checks. *)
EXTENDS Attachments, TLC

Symmetry == Permutations(Worker) \cup Permutations(Ref) \cup Permutations(Key)
=============================================================================
