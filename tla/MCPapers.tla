------------------------------ MODULE MCPapers ------------------------------
(* The instance of Papers that TLC checks. *)
EXTENDS Papers, TLC

\* A reorder of less than two questions writes what a replacement writes.
Requests == {q \in PaperRequest : q.kind = "reorder" => Cardinality(In(q.links)) > 1}

Symmetry == Permutations(Thread) \cup Permutations(Question) \cup Permutations(Title)
=============================================================================
