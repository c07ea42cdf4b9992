--------------------------- MODULE PaperGeneration ---------------------------
(***************************************************************************)
(* The generation of a paper (services/paper_generation.py): candidates    *)
(* and targets are computed from a request, a genetic algorithm selects    *)
(* questions, and the marks of the paper are shared out among them.        *)
(*                                                                         *)
(* The candidates are read by one statement and nothing is shared with     *)
(* other requests, so the module has one process.  Its random generator is *)
(* a choice over what it can return; a draw that is repeated until it      *)
(* suits is a choice over what suits.  Floating point is kept exact but    *)
(* where it matters: a product that is exactly a half may round either     *)
(* way, and fractions that are equal may compare either way.               *)
(***************************************************************************)
EXTENDS Integers, Sequences, FiniteSets, SequencesExt

CONSTANTS
    Bank,            \* sequences of the questions there are, by ascending id
    Payload,         \* requests: types, total, coefficient, tags, subjects, own
    PopulationSize, PerCandidate, Elitism, Tournament,
    Generations, Patience, Warmup,  \* 120 generations; 30 of them without improvement after 50
    Missing

ASSUME SizeAssumption ==
    /\ {PopulationSize, PerCandidate, Elitism, Tournament, Generations, Patience} \subseteq Nat \ {0}
    /\ Warmup \in Nat
ASSUME MissingAssumption == Missing \notin Int

\* The rows of a table are different, and a weight is positive (schemas/question.py);
\* weights count in a unit of which each is a whole number.
ASSUME BankAssumption ==
    \A b \in Bank :
        /\ b \in Seq(ToSet(b)) /\ IsInjective(b)
        /\ \A q \in ToSet(b) : q.weight \in Nat \ {0} /\ IsFiniteSet(q.tags) /\ IsFiniteSet(q.subjects)

\* PaperGenerateRequest (schemas/paper.py): each type is asked for, and lists are finite.
ASSUME PayloadAssumption ==
    \A r \in Payload :
        /\ IsFiniteSet(DOMAIN r.types) /\ r.types \in [DOMAIN r.types -> Nat \ {0}]
        /\ r.total \in Nat /\ r.coefficient \in 0..100
        /\ IsFiniteSet(r.required) /\ IsFiniteSet(r.preferred)

VARIABLES
    bank, payload,
    pc,
    targets,     \* the numbers of questions of each difficulty and type
    population,  \* the individuals of the generation, ranked once they are scored
    children,    \* the individuals of the next generation
    best, score, \* the best individual so far and its fitness
    stale,       \* generations_without_improvement
    generation,  \* generations_run
    result       \* the fitness, and each selected question with its marks

generationVars == <<bank, payload, pc, targets, population, children, best, score, stale, generation, result>>

Difficulty == <<"easy", "medium", "hard">>
Anchor == <<0, 50, 100>>

Lesser(a, b) == IF a <= b THEN a ELSE b
Greater(a, b) == IF a >= b THEN a ELSE b
Distance(a, b) == IF a >= b THEN a - b ELSE b - a

\* The orders of 1..n in which every element may come before those after it.
Orders(n, May(_, _)) ==
    {p \in Bijection(1..n, 1..n) : \A i, j \in 1..n : i < j => May(p[i], p[j])}
InOrder(n, Precedes(_, _)) == CHOOSE p \in Orders(n, Precedes) : TRUE

(***************************************************************************)
(* Amounts that should have a total are raised or lowered by one, in       *)
(* turns, until they do; none is lowered below the least.                  *)
(***************************************************************************)
Turn(amount, i, total, least) ==
    CASE SumFunction(amount) < total -> [amount EXCEPT ![i] = @ + 1]
      [] SumFunction(amount) > total /\ amount[i] > least -> [amount EXCEPT ![i] = @ - 1]
      [] OTHER -> amount

Dealt(amount, order, total, least) ==
    LET n == Len(amount)
        turn[k \in Nat] ==
          IF k = 0 THEN amount ELSE Turn(turn[k - 1], order[((k - 1) % n) + 1], total, least)
    IN turn[n * Greater(total, SumFunction(amount))]

(***************************************************************************)
(* distribute_marks: the marks of questions of these weights.  The shares  *)
(* that lost the largest fraction gain first, those that lost least lose   *)
(* first.                                                                  *)
(***************************************************************************)
Shares(weight, total) ==
    LET whole == SumFunction(weight)
    IN [i \in DOMAIN weight |->
          IF total * weight[i] <= whole THEN [mark |-> 1, fraction |-> 0]
          ELSE [mark |-> (total * weight[i]) \div whole, fraction |-> (total * weight[i]) % whole]]

SharingOrder(share, gain) ==
    Orders(Len(share), LAMBDA i, j :
        \/ share[i] = share[j] /\ i < j
        \/ share[i] # share[j] /\ IF gain THEN share[i].fraction >= share[j].fraction
                                  ELSE share[i].fraction <= share[j].fraction)

Distributions(weight, total) ==
    LET share == Shares(weight, total)
        mark == [i \in DOMAIN share |-> share[i].mark]
    IN {Dealt(mark, p, total, 1) : p \in SharingOrder(share, SumFunction(mark) < total)}

(***************************************************************************)
(* difficulty_targets_from_coefficient and normalize_targets.              *)
(***************************************************************************)
HalfEven(a, b) ==
    LET whole == a \div b
        twice == 2 * (a % b)
    IN CASE twice < b -> whole [] twice > b -> whole + 1 [] OTHER -> whole + (whole % 2)

TargetOrder(target, gain) ==
    InOrder(Len(target), LAMBDA i, j :
        \/ target[i] = target[j] /\ i < j
        \/ IF gain THEN target[i] > target[j] ELSE target[i] < target[j])

NormalizeTargets(target, count) ==
    LET total == SumFunction(target)
        scaled == [i \in DOMAIN target |-> HalfEven(count * target[i], total)]
        order == TargetOrder(target, SumFunction(scaled) < count)
    IN IF total = count THEN target ELSE Dealt(scaled, order, count, 0)

Weight(coefficient) ==
    [i \in DOMAIN Anchor |-> Greater(0, 100 - 2 * Distance(coefficient, Anchor[i]))]

Roundings(a, b) == {n \in {a \div b, a \div b + 1} : 2 * Distance(n * b, a) <= b}

Nearest(coefficient) ==
    InOrder(Len(Anchor), LAMBDA i, j :
        LET a == Distance(coefficient, Anchor[i])
            b == Distance(coefficient, Anchor[j])
        IN a < b \/ (a = b /\ i < j))[1]

DifficultyTargets(coefficient, count) ==
    LET weight == Weight(coefficient)
        raw == {t \in [DOMAIN Anchor -> 0..count] :
                  \A i \in DOMAIN Anchor : t[i] \in Roundings(count * weight[i], 100)}
    IN {NormalizeTargets(IF SumFunction(t) = 0 THEN [t EXCEPT ![Nearest(coefficient)] = count] ELSE t, count) : t \in raw}

(***************************************************************************)
(* build_generation_candidates, and the targets per type: what was asked   *)
(* for as far as there are candidates.                                     *)
(***************************************************************************)
Kinds == DOMAIN payload.types

Suits(q) ==
    /\ q.subjects \cap payload.subjects # {}
    /\ payload.own => q.own
    /\ q.type \in Kinds

Candidates ==
    LET rows[k \in Nat] ==
          IF k = 0 THEN <<>>
          ELSE IF Suits(bank[k]) THEN Append(rows[k - 1], bank[k]) ELSE rows[k - 1]
    IN rows[Len(bank)]

OfType(individual, t) == Cardinality({i \in DOMAIN individual : individual[i].type = t})
TypeTargets == [t \in Kinds |-> Lesser(payload.types[t], OfType(Candidates, t))]
Count == SumFunction(TypeTargets)

(***************************************************************************)
(* individual_fitness.                                                     *)
(***************************************************************************)
Fitness(individual) ==
    LET tags == UNION {q.tags : q \in ToSet(individual)}
        subjects == UNION {q.subjects : q \in ToSet(individual)}
        OfDifficulty(d) ==
          Cardinality({i \in DOMAIN individual : individual[i].difficulty = Difficulty[d]})
        difficulty == [d \in DOMAIN Anchor |-> Distance(OfDifficulty(d), targets[d])]
        types == [t \in Kinds |-> Distance(OfType(individual, t), TypeTargets[t])]
        weight == SumFunction([i \in DOMAIN individual |-> individual[i].weight])
        penalty == 40 * SumFunction(difficulty) + 30 * SumFunction(types)
                   + 80 * Cardinality(payload.required \ tags)
                   + 8 * Distance(weight, payload.total)
    IN 1000 - penalty + 24 * Cardinality((payload.preferred \ payload.required) \cap tags)
       + 2 * Lesser(Cardinality(tags), 10) + 3 * Lesser(Cardinality(subjects), 3)

(***************************************************************************)
(* crossover_individual and mutate_individual.                             *)
(***************************************************************************)
\* The first n different questions of a sequence.
FirstDistinct(s, n) ==
    LET child[k \in Nat] ==
          IF k = 0 THEN <<>>
          ELSE LET c == child[k - 1]
               IN IF Len(c) < n /\ ~Contains(c, s[k]) THEN Append(c, s[k]) ELSE c
    IN child[Len(s)]

Crossed(a, b) ==
    {FirstDistinct(SubSeq(a, 1, pivot) \o b \o Candidates, Count) : pivot \in 1..Greater(1, Count - 1)}

\* The individuals that come from one by replacing any of its questions in turn.
MutatedFreely(individual) ==  \* mutant: a replacement may be in the individual already
    {s \in [DOMAIN individual -> ToSet(Candidates)] : TRUE}
Mutated(individual) ==
    LET replaced(s, i) ==
          IF Len(individual) >= Len(Candidates) THEN {}
          ELSE {ReplaceAt(s, i, q) : q \in ToSet(Candidates) \ ToSet(s)}
        reached[k \in Nat] ==
          IF k = 0 THEN {individual}
          ELSE LET R == reached[k - 1] IN R \cup UNION {replaced(s, k) : s \in R}
    IN reached[Len(individual)]

-----------------------------------------------------------------------------
GenerationInit ==
    /\ bank \in Bank
    /\ payload \in Payload
    /\ pc = "candidates"
    /\ targets = <<0, 0, 0>>
    /\ population = <<>> /\ children = <<>>
    /\ best = <<>> /\ score = Missing
    /\ stale = 0 /\ generation = 0
    /\ result = Missing

Size ==
    LET size == Greater(PopulationSize, Elitism + Tournament)
    IN Lesser(size, Greater(1, Len(Candidates) * PerCandidate))

\* No candidate at all, or a total that is less than a mark each (422).
RefusePayload ==
    /\ pc = "candidates"
    /\ Candidates = <<>> \/ payload.total < Count
    /\ pc' = "refused"
    /\ UNCHANGED <<bank, payload, targets, population, children, best, score, stale, generation, result>>

Target ==
    /\ pc = "candidates"
    /\ Candidates # <<>> /\ payload.total >= Count
    /\ \E t \in DifficultyTargets(payload.coefficient, Count) : targets' = t
    /\ pc' = IF Len(Candidates) = Count THEN "all" ELSE "sample"
    /\ UNCHANGED <<bank, payload, population, children, best, score, stale, generation, result>>

\* build_generation_result.
BuildResult(selected, fitness) ==
    /\ \E m \in Distributions([i \in DOMAIN selected |-> selected[i].weight], payload.total) :
          result' = [fitness |-> fitness, questions |-> selected, marks |-> m]
    /\ pc' = "done"

TakeAll ==
    /\ pc = "all"
    /\ BuildResult(Candidates, 1000)
    /\ UNCHANGED <<bank, payload, targets, population, children, best, score, stale, generation>>

\* rng.sample, for one individual after the other.
Sample ==
    /\ pc = "sample"
    /\ \E s \in SetToAllKPermutations(ToSet(Candidates)) :
          /\ Len(s) = Count
          /\ population' = Append(population, s)
    /\ pc' = IF Len(population') = Size THEN "rank" ELSE "sample"
    /\ UNCHANGED <<bank, payload, targets, children, best, score, stale, generation, result>>

Ranking(p) ==
    InOrder(Len(p), LAMBDA i, j :
        Fitness(p[i]) > Fitness(p[j]) \/ (Fitness(p[i]) = Fitness(p[j]) /\ i < j))

Ranked(p) == LET order == Ranking(p) IN [i \in DOMAIN p |-> p[order[i]]]

ElitesButFirst(ranked) ==  \* mutant: the elite begins after the best individual
    SubSeq(ranked, 2, Lesser(Elitism + 1, Len(ranked)))
Elites(ranked) == SubSeq(ranked, 1, Lesser(Elitism, Len(ranked)))

\* A generation is ranked, the best individual is kept, and the search goes on.
Rank ==
    LET ranked == Ranked(population)
        top == Fitness(ranked[1])
        better == score = Missing \/ top > score
    IN /\ pc = "rank"
       /\ generation' = generation + 1
       /\ score' = IF better THEN top ELSE score
       /\ best' = IF better THEN ranked[1] ELSE best
       /\ stale' = IF better THEN 0 ELSE stale + 1
       /\ population' = ranked
       /\ IF stale' >= Patience /\ generation >= Warmup
          THEN pc' = "finish" /\ children' = <<>>
          ELSE pc' = "breed" /\ children' = Elites(ranked)
       /\ UNCHANGED <<bank, payload, targets, result>>

\* The winners of tournaments among Tournament individuals.
Parents ==
    {population[i] : i \in {k \in DOMAIN population :
        Cardinality({j \in DOMAIN population : Fitness(population[j]) <= Fitness(population[k])})
            >= Lesser(Tournament, Len(population))}}

Breed ==
    /\ pc = "breed"
    /\ Len(children) < Size
    /\ \E a, b \in Parents : \E child \in Crossed(a, b) \cup {a} : \E m \in Mutated(child) :
          children' = Append(children, m)
    /\ UNCHANGED <<bank, payload, pc, targets, population, best, score, stale, generation, result>>

Succeed ==
    /\ pc = "breed"
    /\ Len(children) >= Size
    /\ population' = children /\ children' = <<>>
    /\ pc' = IF generation = Generations THEN "finish" ELSE "rank"
    /\ UNCHANGED <<bank, payload, targets, best, score, stale, generation, result>>

TakeBest ==
    /\ pc = "finish"
    /\ BuildResult(best, score)
    /\ UNCHANGED <<bank, payload, targets, population, children, best, score, stale, generation>>

\* The request has been answered.
Answered == pc \in {"done", "refused"} /\ UNCHANGED generationVars

GenerationNext == RefusePayload \/ Target \/ TakeAll \/ Sample \/ Rank \/ Breed \/ Succeed \/ TakeBest \/ Answered

GenerationSpec == GenerationInit /\ [][GenerationNext]_generationVars

-----------------------------------------------------------------------------
(***************************************************************************)
(* The type invariant: the search keeps to its bounds, its populations to  *)
(* their size, and the answer gives each of Count questions its marks.     *)
(***************************************************************************)
GenerationTypeOK ==
    /\ pc \in {"candidates", "all", "sample", "rank", "breed", "finish", "done", "refused"}
    /\ targets \in [DOMAIN Anchor -> Nat]
    /\ Len(population) <= Size /\ Len(children) <= Greater(Size, Elitism)
    /\ score \in Int \cup {Missing}
    /\ generation \in 0..Generations /\ stale \in 0..Greater(Patience, Warmup)
    /\ result # Missing => Len(result.questions) = Count /\ Len(result.marks) = Count

(***************************************************************************)
(* Whatever crossover and mutation do, an individual selects as many       *)
(* questions as the targets ask for, all of them candidates and no         *)
(* question twice: the paper can be stored.                                *)
(***************************************************************************)
Exact(individual) ==
    /\ Len(individual) = Count
    /\ Cardinality(ToSet(individual)) = Count
    /\ ToSet(individual) \subseteq ToSet(Candidates)
IndividualsExact ==
    /\ \A s \in ToSet(population) \cup ToSet(children) : Exact(s)
    /\ best # <<>> => Exact(best)
    /\ result # Missing => Exact(result.questions)

(***************************************************************************)
(* The elite carries the best individual through every generation: once    *)
(* ranked, no generation is worse than the best so far, and the selection  *)
(* answered is as good as all that were ever ranked.                       *)
(***************************************************************************)
BestKept == [][generation' # generation => Fitness(population'[1]) = score']_generationVars

(***************************************************************************)
(* The marks of a paper add up to its total, every question has at least   *)
(* one, and none has fewer than a question of less weight.                 *)
(***************************************************************************)
MarksShared ==
    result # Missing =>
        LET q == result.questions
            m == result.marks
        IN /\ SumFunction(m) = payload.total
           /\ \A i \in DOMAIN m : m[i] >= 1
           /\ \A i, j \in DOMAIN m : q[i].weight > q[j].weight => m[i] >= m[j]

(***************************************************************************)
(* However their shares round, the difficulty targets add up to the number *)
(* of questions, and a difficulty the coefficient gives no weight has no   *)
(* target.                                                                 *)
(***************************************************************************)
TargetsExact ==
    pc \notin {"candidates", "refused"} =>
        /\ SumFunction(targets) = Count
        /\ \A i \in DOMAIN targets : Weight(payload.coefficient)[i] = 0 => targets[i] = 0

(***************************************************************************)
(* The answer can be stored and delivers what was asked: the search keeps  *)
(* its bounds, individuals are exact, targets and marks add up.            *)
(***************************************************************************)
GenerationConsistent == GenerationTypeOK /\ IndividualsExact /\ TargetsExact /\ MarksShared
=============================================================================
