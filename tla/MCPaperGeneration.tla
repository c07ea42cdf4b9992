-------------------------- MODULE MCPaperGeneration --------------------------
(* The instance of PaperGeneration that TLC checks. *)
EXTENDS PaperGeneration

Question(id, type, difficulty, weight, tags) ==
  [id |-> id, type |-> type, difficulty |-> difficulty, weight |-> weight, tags |-> tags,
   subjects |-> {"maths"}, own |-> id # 1]

\* Three or four questions, from which the search selects.
Mixed == <<Question(1, "single", "easy", 1, {"t"}), Question(2, "single", "hard", 2, {}),
           Question(3, "blank", "easy", 2, {"u"}), Question(4, "blank", "medium", 1, {"t"})>>
Alike == <<Question(1, "single", "medium", 1, {}), Question(2, "single", "medium", 1, {"t"}),
           Question(3, "single", "medium", 1, {})>>

\* Questions of these weights, all of which are asked for.
Weighted(w) == [i \in DOMAIN w |-> Question(i, "essay", "easy", w[i], {})]
Banks == {Mixed, Alike} \cup {Weighted(w) : w \in BoundedSeq(1..4, 4)}

Asked(types, total, coefficient) ==
  [types |-> types, total |-> total, coefficient |-> coefficient, required |-> {"t"},
   preferred |-> {"t", "u"}, subjects |-> {"maths"}, own |-> FALSE]
Searches ==
  {Asked([single |-> 2], 4, 50), Asked([single |-> 1, blank |-> 1], 3, 25),
   Asked([single |-> 2, blank |-> 2], 4, 35), [Asked([single |-> 1], 2, 0) EXCEPT !.own = TRUE]}
Everything == {Asked([essay |-> 4], total, coefficient) : total \in 2..9, coefficient \in {0, 20, 25, 30, 50, 75, 80}}
Payloads == Searches \cup Everything
=============================================================================
