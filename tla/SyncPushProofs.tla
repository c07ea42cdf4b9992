---------------------------- MODULE SyncPushProofs ----------------------------
(***************************************************************************)
(* Proofs about SyncPush, for every set of workers, every set of requests  *)
(* that pass their validation, and any bounds.                             *)
(***************************************************************************)
EXTENDS SyncPush, FiniteSetTheorems, SequenceTheorems, WellFoundedInduction, TLAPS

-----------------------------------------------------------------------------
(* Sets of naturals have a least and, when bounded, a greatest element.    *)

\* Naturals are well-founded.
LEMMA HasLeast ==
  ASSUME NEW S \in SUBSET Nat, S # {}
  PROVE  \E m \in S : \A n \in S : m <= n
<1>1. PICK m \in S : \A n \in S : ~ (<<n, m>> \in OpToRel(<, Nat))
  BY NatLessThanWellFounded, WFMin
<1>2. \A n \in S : ~ (n < m)
  BY <1>1 DEF OpToRel
<1> QED BY <1>2

\* The greatest is as far below the bound as the least distance to it.
LEMMA HasGreatest ==
  ASSUME NEW S \in SUBSET Nat, NEW b \in Nat, \A n \in S : n <= b, S # {}
  PROVE  \E m \in S : \A n \in S : n <= m
<1> DEFINE Distances == {b - n : n \in S}
<1>1. Distances \subseteq Nat
  OBVIOUS
<1>2. Distances # {}
  OBVIOUS
<1>3. PICK k \in Distances : \A j \in Distances : k <= j
  <2> HIDE DEF Distances
  <2> QED BY <1>1, <1>2, HasLeast
<1>4. PICK m \in S : k = b - m
  OBVIOUS
<1>5. ASSUME NEW n \in S
      PROVE  n <= m
  <2>1. b - m <= b - n
    BY <1>3, <1>4
  <2>2. m \in Nat /\ n \in Nat
    OBVIOUS
  <2> QED BY <2>1, <2>2
<1> QED BY <1>5

\* Max of a bounded set of naturals is one of them, and none is greater.
LEMMA MaxProperty ==
  ASSUME NEW S \in SUBSET Nat, NEW b \in Nat, \A n \in S : n <= b, S # {}
  PROVE  Max(S) \in S /\ \A n \in S : n <= Max(S)
<1>1. \E m \in S : \A n \in S : m >= n
  <2>1. PICK m \in S : \A n \in S : n <= m
    BY HasGreatest
  <2> QED BY <2>1
<1>2. Max(S) \in S /\ \A n \in S : Max(S) >= n
  BY <1>1 DEF Max
<1> QED BY <1>2

-----------------------------------------------------------------------------
(* The inductive invariant: the committed rows.                            *)

\* The unique keys of sync_entity_versions: rows of the same operation, or of the
\* same version of an entity, are one row, committed or not.
RowsApart ==
  /\ \A q, r \in versions : Clash(q, r) => q = r
  /\ \A w \in Worker : \A r \in tx[w].rows :
       /\ \A q \in versions : ~ Clash(q, r)
       /\ \A q \in tx[w].rows : Clash(q, r) => q = r
       /\ \A v \in Worker \ {w} : \A q \in tx[v].rows : ~ Clash(q, r)

\* Every row carries a sequence that was drawn, and one is drawn per version.
SeqsDrawn ==
  /\ \A r \in versions : r.version <= r.seq /\ r.seq <= seqCounter
  /\ \A w \in Worker : \A r \in tx[w].rows : r.version <= r.seq /\ r.seq <= seqCounter

FiniteRows ==
  /\ IsFiniteSet(versions)
  /\ \A w \in Worker : IsFiniteSet(tx[w].rows)

\* Row q is the version that row r was accepted against.
Precedes(q, r) ==
  /\ q.entity = r.entity
  /\ q.version = r.version - 1
  /\ q.content = r.base
  /\ q.seq < r.seq
Chained(R, S) == \A r \in R : r.version > 1 => \E q \in S : Precedes(q, r)

\* A batch key is held by one transaction at a time, and not after its answer.
HoldsKey(w) == tx[w].stage \notin {"idle", "claim"}
KeysApart ==
  \A w \in Worker : HoldsKey(w) =>
    /\ batches[tx[w].request.key] = NoBatch
    /\ \A v \in Worker \ {w} : HoldsKey(v) => tx[v].request.key # tx[w].request.key

RepliesStored == \A p \in replies : batches[p.request.key] = p /\ p # NoBatch

LocksApart == \A w \in Worker : \A v \in Worker \ {w} : tx[v].locks \cap tx[w].locks = {}

-----------------------------------------------------------------------------
(* The answers to a batch, given what is visible or committed with them.   *)

Success == {"applied", "noop"}

HasVersion(R, e, version) == \E r \in R : r.entity = e /\ r.version = version

\* Each answer is to the operation at its place; success rests on a version that
\* is there and on the success of the dependencies; evidence is referred to.
AnswersFit(ops, answers, R, E) ==
  \A i \in DOMAIN answers :
    /\ i \in DOMAIN ops
    /\ answers[i].op = ops[i].op
    /\ answers[i].status \in Success =>
         /\ HasVersion(R, ops[i].entity, answers[i].version)
         /\ \A j \in DOMAIN answers :
              ops[j].op \in ops[i].dependsOn => answers[j].status \in Success
    /\ answers[i].evidence => \E c \in E : c.op = answers[i].op

\* Evidence c was answered in this batch.
AnsweredWith(ops, answers, c) ==
  \E i \in DOMAIN answers :
    /\ answers[i].evidence
    /\ answers[i].op = c.op
    /\ ops[i].entity = c.entity
    /\ ops[i].base = c.base

AppliedOps(answers) ==
  {answers[i].op : i \in {j \in DOMAIN answers : answers[j].status = "applied"}}

BatchesFit ==
  \A k \in Key :
    /\ AnswersFit(batches[k].request.ops, batches[k].answers, versions, conflicts)
    /\ batches[k] # NoBatch => batches[k].request \in Request /\ batches[k].request.key = k

ConflictsFit ==
  \A c \in conflicts :
    /\ HasVersion(versions, c.entity, c.cloud)
    /\ \E k \in Key : AnsweredWith(batches[k].request.ops, batches[k].answers, c)

-----------------------------------------------------------------------------
(* The open transactions.                                                  *)

AtWork == {"check", "lookup", "apply", "record", "handle", "rehandle"}
Handling == {"handle", "rehandle"}

\* The mutation transaction t is at, and the rows it sees.
MutationOf(t) == t.request.ops[Len(t.answers) + 1]
Seen(t)       == versions \cup t.rows
SeenBefore(t) == versions \cup t.saved.rows

\* What a transaction has learnt at its stage.
Progress(t) ==
  /\ t.stage \in {"idle", "claim"} =>
       t.rows = {} /\ t.evidence = {} /\ t.locks = {} /\ t.answers = <<>>
  /\ t.stage # "idle" => t.request \in Request
  /\ t.stage \in AtWork => Len(t.answers) < Len(t.request.ops)
  /\ t.stage = "commit" => Len(t.answers) = Len(t.request.ops)
  /\ t.saved.rows \subseteq t.rows
  /\ t.stage # "record" => t.rows = t.saved.rows /\ t.evidence = t.saved.evidence
  /\ t.stage = "apply" =>
       IF t.found THEN RowsOf(Seen(t), MutationOf(t).entity) # {} /\ MutationOf(t).entity \in t.locks
                  ELSE RowsOf(t.rows, MutationOf(t).entity) = {}
  /\ t.stage \in Handling /\ t.cached # Absent =>
       t.cached \in Seen(t) /\ t.cached.entity = MutationOf(t).entity
  /\ t.stage \notin Handling \cup {"failed"} => t.cached = Absent
  /\ t.stage \in {"lookup", "apply", "rehandle"} => FailedDependencies(t, MutationOf(t)) = {}
  /\ t.stage = "handle" =>
       FailedDependencies(t, MutationOf(t)) = {} \/ ResultTaken(MutationOf(t).op)

\* Answer a is right for the operation t is at, with what t wrote for it since its
\* savepoint.
Drafted(t, a) ==
  LET m == MutationOf(t)
  IN
  /\ a \in Answer
  /\ a.op = m.op
  /\ a.status \in Success =>
       /\ FailedDependencies(t, m) = {}
       /\ HasVersion(Seen(t), m.entity, a.version)
  /\ IF a.status = "applied"
     THEN \E r \in t.rows : /\ t.rows = t.saved.rows \cup {r}
                            /\ r.op = m.op
                            /\ \A q \in t.saved.rows : q.seq < r.seq
     ELSE t.rows = t.saved.rows
  /\ IF a.evidence
     THEN \E c \in t.evidence : /\ t.evidence = t.saved.evidence \cup {c}
                                /\ c.op = m.op /\ c.entity = m.entity /\ c.base = m.base
                                /\ HasVersion(SeenBefore(t), c.entity, c.cloud)
     ELSE t.evidence = t.saved.evidence

\* What the operations answered so far leave behind.
Backed(t) ==
  /\ AnswersFit(t.request.ops, t.answers, SeenBefore(t), t.saved.evidence)
  /\ \A c \in t.saved.evidence :
       /\ HasVersion(SeenBefore(t), c.entity, c.cloud)
       /\ AnsweredWith(t.request.ops, t.answers, c)
  /\ {r.op : r \in t.saved.rows} = AppliedOps(t.answers)

\* Locks are held on rows the transaction sees, and on those it wrote.
LocksFit(t) ==
  /\ t.saved.locks \subseteq t.locks
  /\ \A e \in t.locks : RowsOf(Seen(t), e) # {}
  /\ \A e \in t.saved.locks : RowsOf(SeenBefore(t), e) # {}
  /\ \A r \in t.rows : r.entity \in t.locks
  /\ \A r \in t.saved.rows : r.entity \in t.saved.locks

TxFits(t) ==
  /\ Progress(t)
  /\ Chained(t.rows, Seen(t)) /\ Chained(t.saved.rows, SeenBefore(t))
  /\ Backed(t)
  /\ LocksFit(t)
  /\ t.stage = "record" => Drafted(t, t.draft)

IInv ==
  /\ TypeOK
  /\ RowsApart /\ SeqsDrawn /\ FiniteRows
  /\ Chained(versions, versions)
  /\ KeysApart /\ RepliesStored /\ LocksApart
  /\ BatchesFit /\ ConflictsFit
  /\ \A w \in Worker : TxFits(tx[w])

-----------------------------------------------------------------------------
(* Requests and mutations.                                                 *)

LEMMA MutationType ==
  ASSUME NEW m \in Mutation
  PROVE  /\ m.entity \in Entity /\ m.op \in Operation /\ m.content \in Content
         /\ m.kind \in Kind /\ m.base \in Nat /\ WellFormed(m)
BY RequestAssumption DEF WellFormed, Operation, Content

LEMMA RequestType ==
  ASSUME NEW r \in Request
  PROVE  /\ r.ops \in Seq(Mutation) /\ DOMAIN r.ops = 1 .. Len(r.ops) /\ Len(r.ops) \in Nat
         /\ \A i \in 1 .. Len(r.ops) : r.ops[i] \in Mutation
         /\ r # NoRequest /\ r.key \in Key
BY RequestAssumption DEF NoRequest, Key

\* The mutation a transaction is at exists.
LEMMA AtWorkType ==
  ASSUME NEW t \in Transaction, Progress(t), t.stage \in AtWork
  PROVE  /\ t.request \in Request
         /\ Len(t.answers) \in Nat
         /\ Len(t.answers) + 1 \in 1 .. Len(t.request.ops)
         /\ MutationOf(t) \in Mutation
<1>1. t.request \in Request /\ Len(t.answers) < Len(t.request.ops)
  BY DEF Progress, AtWork
<1>2. t.answers \in Seq(Answer)
  BY DEF Transaction
<1>3. Len(t.answers) \in Nat
  BY <1>2
<1> QED BY <1>1, <1>3, RequestType DEF MutationOf

LEMMA AtIs ==
  ASSUME NEW w \in Worker
  PROVE  At(w) = MutationOf(tx[w]) /\ Visible(w) = Seen(tx[w])
BY DEF At, MutationOf, Visible, Seen

\* The result of AnswerTo is an answer.
LEMMA AnswerToType ==
  ASSUME NEW m \in Mutation, NEW status \in Status, NEW n \in Nat
  PROVE  /\ AnswerTo(m, status, n) \in Answer
         /\ AnswerTo(m, status, n).op = m.op
         /\ AnswerTo(m, status, n).status = status
         /\ AnswerTo(m, status, n).version = n
         /\ AnswerTo(m, status, n).evidence = FALSE
BY MutationType DEF AnswerTo, Answer

LEMMA RejectedType ==
  ASSUME NEW m \in Mutation
  PROVE  /\ Rejected(m) \in Answer
         /\ Rejected(m).op = m.op
         /\ Rejected(m).status = "rejected"
         /\ Rejected(m).evidence = FALSE
BY MutationType DEF Rejected, AnswerTo, Answer, Status

-----------------------------------------------------------------------------
(* Versions.                                                               *)

\* The latest row of an entity that has rows is its row of the greatest version.
LEMMA LatestProperty ==
  ASSUME NEW R \in SUBSET VersionRow, NEW b \in Nat, \A r \in R : r.version <= b,
         NEW e, RowsOf(R, e) # {}
  PROVE  /\ Latest(R, e) \in R
         /\ Latest(R, e).entity = e
         /\ \A q \in R : q.entity = e => q.version <= Latest(R, e).version
<1> DEFINE S == {r.version : r \in RowsOf(R, e)}
<1>1. S \in SUBSET Nat /\ S # {} /\ \A n \in S : n <= b
  BY DEF RowsOf, VersionRow
<1>2. PICK m \in S : \A n \in S : n <= m
  BY <1>1, HasGreatest
<1>3. PICK r \in RowsOf(R, e) : r.version = m
  BY <1>2
<1>4. \A q \in RowsOf(R, e) : q.version <= r.version
  BY <1>2, <1>3
<1>5. Latest(R, e) = CHOOSE x \in RowsOf(R, e) : \A q \in RowsOf(R, e) : q.version <= x.version
  BY DEF Latest
<1>6. Latest(R, e) \in RowsOf(R, e) /\ \A q \in RowsOf(R, e) : q.version <= Latest(R, e).version
  BY <1>4, <1>5
<1> QED BY <1>6 DEF RowsOf

\* A chained set that has rows of an entity has its first version.
LEMMA FirstVersion ==
  ASSUME NEW R \in SUBSET VersionRow, NEW b \in Nat, \A r \in R : r.version <= b,
         Chained(R, R), NEW e, RowsOf(R, e) # {}
  PROVE  \E r \in R : r.entity = e /\ r.version = 1
<1> DEFINE S == {r.version : r \in RowsOf(R, e)}
<1>1. S \in SUBSET Nat /\ S # {} /\ \A n \in S : n # 0 /\ n <= b
  BY DEF RowsOf, VersionRow
<1>2. PICK m \in S : \A n \in S : m <= n
  BY <1>1, HasLeast
<1>3. PICK r \in RowsOf(R, e) : r.version = m
  BY <1>2
<1>4. r.version = 1
  <2> SUFFICES ASSUME r.version > 1 PROVE FALSE
    BY <1>1, <1>3
  <2>1. PICK q \in R : Precedes(q, r)
    BY DEF Chained, RowsOf
  <2>2. q.version = r.version - 1 /\ q.version \in S
    BY <2>1 DEF Precedes, RowsOf
  <2>3. m \in Nat /\ m <= m - 1
    <3> HIDE DEF S
    <3> QED BY <1>1, <1>2, <1>3, <2>2
  <2> QED BY <2>3
<1> QED BY <1>4 DEF RowsOf

-----------------------------------------------------------------------------
(* An operation is answered.                                               *)

LEMMA DependsBackwards ==
  ASSUME NEW r \in Request, NEW i \in 1 .. Len(r.ops), NEW j \in 1 .. Len(r.ops),
         r.ops[j].op \in r.ops[i].dependsOn
  PROVE  j < i
<1>1. DOMAIN r.ops = 1 .. Len(r.ops)
  BY RequestType
<1>2. PICK n \in 1 .. i - 1 : r.ops[n].op = r.ops[j].op
  BY <1>1, RequestAssumption
<1>3. n \in DOMAIN r.ops
  BY <1>1, RequestType
<1>4. n = j
  BY <1>1, <1>2, <1>3, RequestAssumption
<1> QED BY <1>4

LEMMA AnsweredFields ==
  ASSUME NEW t \in Transaction, NEW a \in Answer
  PROVE  /\ Answered(t, a) \in Transaction
         /\ Answered(t, a).stage \in {"commit", "check"}
         /\ Answered(t, a).stage = "commit" <=> Len(t.answers) + 1 = Len(t.request.ops)
         /\ Answered(t, a).request = t.request
         /\ Answered(t, a).answers = Append(t.answers, a)
         /\ Answered(t, a).rows = t.rows
         /\ Answered(t, a).evidence = t.evidence
         /\ Answered(t, a).locks = t.locks
         /\ Answered(t, a).cached = Absent
         /\ Answered(t, a).saved.rows = t.rows
         /\ Answered(t, a).saved.evidence = t.evidence
         /\ Answered(t, a).saved.locks = t.locks
<1>1. t.answers \in Seq(Answer) /\ Append(t.answers, a) \in Seq(Answer)
  BY DEF Transaction
<1>2. Savepoint(t) \in [rows : SUBSET VersionRow, evidence : SUBSET ConflictRow,
                        locks : SUBSET Entity]
  BY DEF Savepoint, Transaction
<1> DEFINE s == IF Len(t.answers) + 1 = Len(t.request.ops) THEN "commit" ELSE "check"
           v == Savepoint(t)
<1>3. Answered(t, a) = [t EXCEPT !.stage = s, !.answers = Append(t.answers, a), !.found = FALSE,
                                 !.cached = Absent, !.draft = NoAnswer, !.saved = v]
  BY DEF Answered
<1>4. /\ s \in {"commit", "check"} /\ (s = "commit" <=> Len(t.answers) + 1 = Len(t.request.ops))
      /\ v.rows = t.rows /\ v.evidence = t.evidence /\ v.locks = t.locks
  BY DEF Savepoint
<1>5. s \in Stage
  BY DEF Stage
<1> HIDE DEF s, v
<1>6. Answered(t, a) \in Transaction
  <2>1. v \in [rows : SUBSET VersionRow, evidence : SUBSET ConflictRow, locks : SUBSET Entity]
    BY <1>2 DEF v
  <2>2. /\ t.request \in Request \cup {NoRequest} /\ t.rows \in SUBSET VersionRow
        /\ t.recorded \in SUBSET ResultRow /\ t.evidence \in SUBSET ConflictRow
        /\ t.locks \in SUBSET Entity
    BY DEF Transaction
  <2>3. Answered(t, a) =
          [stage |-> s, request |-> t.request, answers |-> Append(t.answers, a), rows |-> t.rows,
           recorded |-> t.recorded, evidence |-> t.evidence, locks |-> t.locks, found |-> FALSE,
           cached |-> Absent, draft |-> NoAnswer, saved |-> v]
    BY <1>3 DEF Transaction
  <2> QED BY <1>1, <1>5, <2>1, <2>2, <2>3 DEF Transaction
<1>7. /\ Answered(t, a).stage = s /\ Answered(t, a).request = t.request
      /\ Answered(t, a).answers = Append(t.answers, a) /\ Answered(t, a).rows = t.rows
      /\ Answered(t, a).evidence = t.evidence /\ Answered(t, a).locks = t.locks
      /\ Answered(t, a).cached = Absent /\ Answered(t, a).saved = v
  BY <1>3 DEF Transaction
<1> QED BY <1>4, <1>6, <1>7

LEMMA AnsweredFits ==
  ASSUME NEW t \in Transaction, NEW a, Drafted(t, a),
         t.request \in Request, Len(t.answers) < Len(t.request.ops),
         t.saved.rows \subseteq t.rows,
         Chained(t.rows, Seen(t)), Backed(t), LocksFit(t)
  PROVE  /\ Answered(t, a) \in Transaction
         /\ TxFits(Answered(t, a))
<1> DEFINE T == Answered(t, a)
           ops == t.request.ops
           n == Len(t.answers)
           m == MutationOf(t)
<1>1. a \in Answer
  BY DEF Drafted
<1>2. /\ T \in Transaction
      /\ T.stage \in {"commit", "check"}
      /\ T.stage = "commit" <=> n + 1 = Len(ops)
      /\ T.request = t.request /\ T.answers = Append(t.answers, a)
      /\ T.rows = t.rows /\ T.evidence = t.evidence /\ T.locks = t.locks /\ T.cached = Absent
      /\ T.saved.rows = t.rows /\ T.saved.evidence = t.evidence /\ T.saved.locks = t.locks
  BY <1>1, AnsweredFields
<1>3. /\ t.answers \in Seq(Answer) /\ n \in Nat /\ DOMAIN t.answers = 1 .. n
      /\ Len(ops) \in Nat /\ DOMAIN ops = 1 .. Len(ops)
      /\ \A i \in 1 .. n : t.answers[i] \in Answer
  BY RequestType DEF Transaction
<1>4. /\ Len(T.answers) = n + 1 /\ DOMAIN T.answers = 1 .. n + 1
      /\ T.answers[n + 1] = a
      /\ \A i \in 1 .. n : T.answers[i] = t.answers[i]
  BY <1>1, <1>2, <1>3
<1>5. m = ops[n + 1] /\ n + 1 \in 1 .. Len(ops)
  BY <1>3 DEF MutationOf
<1> HIDE DEF T, m
<1>6. SeenBefore(t) \subseteq Seen(t) /\ Seen(T) = Seen(t) /\ SeenBefore(T) = Seen(t)
  BY <1>2 DEF Seen, SeenBefore
<1>7. t.saved.evidence \subseteq t.evidence
  BY DEF Drafted
<1>8. Progress(T)
  <2>1. T.stage \notin {"idle", "claim", "apply", "lookup", "rehandle", "handle", "record", "failed"}
    BY <1>2
  <2>2. T.stage = "check" => n + 1 < Len(ops)
    BY <1>2, <1>3
  <2> QED BY <1>2, <1>4, <2>1, <2>2 DEF Progress, AtWork, Handling
<1>9. AnswersFit(ops, T.answers, Seen(t), t.evidence)
  <2> SUFFICES ASSUME NEW i \in 1 .. n + 1
               PROVE  /\ i \in DOMAIN ops
                      /\ T.answers[i].op = ops[i].op
                      /\ T.answers[i].status \in Success =>
                           /\ HasVersion(Seen(t), ops[i].entity, T.answers[i].version)
                           /\ \A j \in 1 .. n + 1 :
                                ops[j].op \in ops[i].dependsOn => T.answers[j].status \in Success
                      /\ T.answers[i].evidence => \E c \in t.evidence : c.op = T.answers[i].op
    BY <1>4 DEF AnswersFit
  <2>1. i \in 1 .. Len(ops) /\ \A j \in 1 .. n + 1 : j \in 1 .. Len(ops)
    BY <1>3, <1>5
  <2>2. \A j \in 1 .. n + 1 : ops[j].op \in ops[i].dependsOn => j < i
    BY <2>1, DependsBackwards
  <2>3. CASE i \in 1 .. n
    <3>1. T.answers[i] = t.answers[i]
      BY <1>4, <2>3
    <3>2. /\ t.answers[i].op = ops[i].op
          /\ t.answers[i].status \in Success =>
               /\ HasVersion(SeenBefore(t), ops[i].entity, t.answers[i].version)
               /\ \A j \in 1 .. n :
                    ops[j].op \in ops[i].dependsOn => t.answers[j].status \in Success
          /\ t.answers[i].evidence => \E c \in t.saved.evidence : c.op = t.answers[i].op
      BY <1>3, <2>3 DEF Backed, AnswersFit
    <3>3. \A j \in 1 .. n + 1 : j < i => j \in 1 .. n /\ T.answers[j] = t.answers[j]
      BY <1>3, <1>4, <2>3
    <3>4. HasVersion(SeenBefore(t), ops[i].entity, t.answers[i].version)
            => HasVersion(Seen(t), ops[i].entity, t.answers[i].version)
      BY <1>6 DEF HasVersion
    <3> QED BY <1>3, <1>7, <2>1, <2>2, <3>1, <3>2, <3>3, <3>4
  <2>4. CASE i = n + 1
    <3>1. T.answers[i] = a /\ a.op = m.op /\ m = ops[i]
      BY <1>4, <1>5, <2>4 DEF Drafted, m
    <3>2. ASSUME a.status \in Success
          PROVE  /\ HasVersion(Seen(t), m.entity, a.version)
                 /\ \A j \in 1 .. n + 1 :
                      ops[j].op \in m.dependsOn => T.answers[j].status \in Success
      <4>1. FailedDependencies(t, m) = {} /\ HasVersion(Seen(t), m.entity, a.version)
        BY <3>2 DEF Drafted, m
      <4>2. ASSUME NEW j \in 1 .. n, ops[j].op \in m.dependsOn
            PROVE  t.answers[j].status \in Success
        <5>1. t.answers[j].op = ops[j].op
          BY <1>3 DEF Backed, AnswersFit
        <5> QED BY <1>3, <4>1, <4>2, <5>1 DEF FailedDependencies, Success
      <4>3. \A j \in 1 .. n + 1 : j < i => j \in 1 .. n /\ T.answers[j] = t.answers[j]
        BY <1>3, <1>4, <2>4
      <4> QED BY <2>2, <3>1, <4>1, <4>2, <4>3
    <3>3. a.evidence => \E c \in t.evidence : c.op = a.op
      BY <3>1 DEF Drafted, m
    <3> QED BY <1>3, <2>1, <3>1, <3>2, <3>3
  <2> QED BY <1>3, <2>3, <2>4
<1>10. \A c \in t.evidence : HasVersion(Seen(t), c.entity, c.cloud) /\ AnsweredWith(ops, T.answers, c)
  <2>1. ASSUME NEW c \in t.saved.evidence
        PROVE  HasVersion(Seen(t), c.entity, c.cloud) /\ AnsweredWith(ops, T.answers, c)
    <3>1. HasVersion(SeenBefore(t), c.entity, c.cloud) /\ AnsweredWith(ops, t.answers, c)
      BY DEF Backed
    <3>2. PICK i \in 1 .. n : /\ t.answers[i].evidence /\ t.answers[i].op = c.op
                              /\ ops[i].entity = c.entity /\ ops[i].base = c.base
      BY <1>3, <3>1 DEF AnsweredWith
    <3>3. i \in DOMAIN T.answers /\ T.answers[i] = t.answers[i]
      BY <1>3, <1>4
    <3> QED BY <1>6, <3>1, <3>2, <3>3 DEF AnsweredWith, HasVersion
  <2>2. ASSUME NEW c \in t.evidence, c \notin t.saved.evidence
        PROVE  HasVersion(Seen(t), c.entity, c.cloud) /\ AnsweredWith(ops, T.answers, c)
    <3>1. /\ a.evidence /\ a.op = m.op /\ c.op = m.op /\ c.entity = m.entity /\ c.base = m.base
          /\ HasVersion(SeenBefore(t), c.entity, c.cloud)
      BY <2>2 DEF Drafted, m
    <3>2. n + 1 \in DOMAIN T.answers
      BY <1>3, <1>4
    <3> QED BY <1>4, <1>5, <1>6, <3>1, <3>2 DEF AnsweredWith, HasVersion
  <2> QED BY <2>1, <2>2
<1>11. {r.op : r \in t.rows} = AppliedOps(T.answers)
  <2>1. {r.op : r \in t.saved.rows} = AppliedOps(t.answers)
    BY DEF Backed
  <2>2. AppliedOps(T.answers) = AppliedOps(t.answers) \cup (IF a.status = "applied" THEN {a.op} ELSE {})
    <3>1. \A o : o \in AppliedOps(T.answers) <=> \E i \in 1 .. n + 1 : T.answers[i].status = "applied" /\ T.answers[i].op = o
      BY <1>4 DEF AppliedOps
    <3>2. \A o : o \in AppliedOps(t.answers) <=> \E i \in 1 .. n : t.answers[i].status = "applied" /\ t.answers[i].op = o
      BY <1>3 DEF AppliedOps
    <3>3. \A i \in 1 .. n + 1 : i \in 1 .. n \/ i = n + 1
      BY <1>3
    <3>4. \A o : o \in AppliedOps(T.answers) <=> o \in AppliedOps(t.answers) \/ (a.status = "applied" /\ o = a.op)
      <4> HIDE DEF AppliedOps
      <4> TAKE o
      <4>1. ASSUME o \in AppliedOps(T.answers)
            PROVE  o \in AppliedOps(t.answers) \/ (a.status = "applied" /\ o = a.op)
        <5>1. PICK i \in 1 .. n + 1 : T.answers[i].status = "applied" /\ T.answers[i].op = o
          BY <3>1, <4>1
        <5>2. CASE i \in 1 .. n
          BY <1>4, <3>2, <5>1, <5>2
        <5>3. CASE i = n + 1
          BY <1>4, <5>1, <5>3
        <5> QED BY <3>3, <5>2, <5>3
      <4>2. ASSUME o \in AppliedOps(t.answers)
            PROVE  o \in AppliedOps(T.answers)
        <5>1. PICK i \in 1 .. n : t.answers[i].status = "applied" /\ t.answers[i].op = o
          BY <3>2, <4>2
        <5> QED BY <1>3, <1>4, <3>1, <5>1
      <4>3. ASSUME a.status = "applied" /\ o = a.op
            PROVE  o \in AppliedOps(T.answers)
        BY <1>3, <1>4, <3>1, <4>3
      <4> QED BY <4>1, <4>2, <4>3
    <3> HIDE DEF AppliedOps
    <3> QED BY <3>4
  <2>3. CASE a.status = "applied"
    <3>1. PICK r \in t.rows : t.rows = t.saved.rows \cup {r} /\ r.op = m.op
      BY <2>3 DEF Drafted, m
    <3>2. a.op = m.op
      BY DEF Drafted, m
    <3> QED BY <2>1, <2>2, <2>3, <3>1, <3>2
  <2>4. CASE a.status # "applied"
    BY <2>1, <2>2, <2>4 DEF Drafted
  <2> QED BY <2>3, <2>4
<1>12. LocksFit(T)
  BY <1>2, <1>6 DEF LocksFit
<1>13. Backed(T)
  BY <1>2, <1>6, <1>9, <1>10, <1>11 DEF Backed
<1> QED BY <1>2, <1>6, <1>8, <1>12, <1>13 DEF TxFits, T

-----------------------------------------------------------------------------
(* A savepoint rolls back.                                                 *)

\* The place of a transaction in its request is that of its answers.
LEMMA SamePlace ==
  ASSUME NEW t, NEW T, T.request = t.request, T.answers = t.answers
  PROVE  /\ MutationOf(T) = MutationOf(t)
         /\ \A m : FailedDependencies(T, m) = FailedDependencies(t, m)
BY DEF MutationOf, FailedDependencies

LEMMA RolledBackFields ==
  ASSUME NEW t \in Transaction
  PROVE  /\ RolledBack(t) \in Transaction
         /\ RolledBack(t).stage = "handle"
         /\ RolledBack(t).request = t.request
         /\ RolledBack(t).answers = t.answers
         /\ RolledBack(t).rows = t.saved.rows
         /\ RolledBack(t).evidence = t.saved.evidence
         /\ RolledBack(t).locks = t.saved.locks
         /\ RolledBack(t).cached = t.cached
         /\ RolledBack(t).saved = t.saved
BY DEF RolledBack, Transaction, Stage

\* What a handler finds after a rollback fits, whether or not the entity stays in
\* the session's identity map.
LEMMA RolledBackFits ==
  ASSUME NEW t \in Transaction, TxFits(t), t.stage \in AtWork, NEW T \in Transaction,
         T.stage = "handle", T.request = t.request, T.answers = t.answers,
         T.rows = t.saved.rows, T.evidence = t.saved.evidence, T.locks = t.saved.locks,
         T.saved = t.saved,
         T.cached # Absent =>
           T.cached \in SeenBefore(t) /\ T.cached.entity = MutationOf(t).entity,
         FailedDependencies(t, MutationOf(t)) = {} \/ ResultTaken(MutationOf(t).op)
  PROVE  TxFits(T)
<1>1. MutationOf(T) = MutationOf(t) /\ FailedDependencies(T, MutationOf(t)) = FailedDependencies(t, MutationOf(t))
  BY DEF MutationOf, FailedDependencies
<1>2. Seen(T) = SeenBefore(t) /\ SeenBefore(T) = SeenBefore(t)
  BY DEF Seen, SeenBefore
<1>3. Progress(T)
  BY <1>1, <1>2 DEF Progress, TxFits, AtWork, Handling
<1>4. Chained(T.rows, Seen(T)) /\ Chained(T.saved.rows, SeenBefore(T))
  BY <1>2 DEF TxFits
<1>5. Backed(T)
  BY <1>2 DEF TxFits, Backed
<1>6. LocksFit(T)
  BY <1>2 DEF TxFits, LocksFit
<1> QED BY <1>3, <1>4, <1>5, <1>6 DEF TxFits

-----------------------------------------------------------------------------
(* What the steps of an operation leave in its transaction.                *)

LEMMA TxType ==
  ASSUME IInv, NEW w \in Worker
  PROVE  tx[w] \in Transaction /\ TxFits(tx[w]) /\ Progress(tx[w])
BY DEF IInv, TypeOK, TxFits

\* An operation is settled without a row.
LEMMA SettledFits ==
  ASSUME IInv, NEW w \in Worker, tx[w].stage \in {"check", "apply"}, NEW d \in Answer,
         d.op = At(w).op, d.status # "applied", ~ d.evidence,
         d.status \in Success => /\ tx[w].stage = "apply"
                                 /\ HasVersion(Visible(w), At(w).entity, d.version)
  PROVE  /\ [tx[w] EXCEPT !.stage = "record", !.draft = d] \in Transaction
         /\ TxFits([tx[w] EXCEPT !.stage = "record", !.draft = d])
<1> DEFINE t == tx[w]
           T == [t EXCEPT !.stage = "record", !.draft = d]
<1>1. t \in Transaction /\ TxFits(t) /\ Progress(t)
  BY TxType
<1>2. /\ T \in Transaction /\ T.stage = "record" /\ T.draft = d
      /\ T.request = t.request /\ T.answers = t.answers /\ T.rows = t.rows
      /\ T.evidence = t.evidence /\ T.locks = t.locks /\ T.cached = t.cached /\ T.saved = t.saved
  BY <1>1 DEF Transaction, Stage
<1> HIDE DEF T
<1>3. /\ MutationOf(T) = At(w) /\ MutationOf(t) = At(w)
      /\ Seen(T) = Seen(t) /\ Visible(w) = Seen(t) /\ SeenBefore(T) = SeenBefore(t)
      /\ FailedDependencies(T, At(w)) = FailedDependencies(t, At(w))
  BY <1>2, SamePlace, AtIs DEF Seen, SeenBefore
<1>4. Progress(T)
  BY <1>1, <1>2 DEF Progress, AtWork, Handling
<1>5. Drafted(T, T.draft)
  BY <1>1, <1>2, <1>3 DEF Drafted, Progress
<1>6. Backed(T) /\ LocksFit(T)
  BY <1>1, <1>2, <1>3 DEF TxFits, Backed, LocksFit
<1> QED BY <1>1, <1>2, <1>3, <1>4, <1>5, <1>6 DEF TxFits, T

LEMMA CheckPassedFits ==
  ASSUME IInv, NEW w \in Worker, tx[w].stage = "check", FailedDependencies(tx[w], At(w)) = {}
  PROVE  /\ [tx[w] EXCEPT !.stage = "lookup"] \in Transaction
         /\ TxFits([tx[w] EXCEPT !.stage = "lookup"])
<1> DEFINE t == tx[w]
           T == [t EXCEPT !.stage = "lookup"]
<1>1. t \in Transaction /\ TxFits(t) /\ Progress(t)
  BY TxType
<1>2. /\ T \in Transaction /\ T.stage = "lookup"
      /\ T.request = t.request /\ T.answers = t.answers /\ T.rows = t.rows
      /\ T.evidence = t.evidence /\ T.locks = t.locks /\ T.cached = t.cached /\ T.saved = t.saved
  BY <1>1 DEF Transaction, Stage
<1>3. /\ MutationOf(T) = At(w) /\ Seen(T) = Seen(t) /\ SeenBefore(T) = SeenBefore(t)
      /\ FailedDependencies(T, At(w)) = FailedDependencies(t, At(w))
  BY <1>2 DEF MutationOf, Seen, SeenBefore, At, FailedDependencies
<1> HIDE DEF T
<1>4. Progress(T)
  BY <1>1, <1>2, <1>3 DEF Progress, AtWork, Handling
<1>6. Backed(T) /\ LocksFit(T)
  BY <1>1, <1>2, <1>3 DEF TxFits, Backed, LocksFit
<1> QED BY <1>1, <1>2, <1>3, <1>4, <1>6 DEF TxFits, T

\* Worker w has read and locked the entity of its operation.
LookedUp(w) ==
  [tx[w] EXCEPT !.stage = "apply", !.locks = @ \cup LockOf(w, At(w).entity),
                !.found = RowsOf(Visible(w), At(w).entity) # {}]

LEMMA LookupFits ==
  ASSUME IInv, NEW w \in Worker, tx[w].stage = "lookup"
  PROVE  /\ LookedUp(w) \in Transaction
         /\ TxFits(LookedUp(w))
         /\ LookedUp(w).locks = tx[w].locks \cup LockOf(w, At(w).entity)
<1> DEFINE t == tx[w]
           T == LookedUp(w)
           e == At(w).entity
<1>1. /\ t \in Transaction /\ TxFits(t) /\ Progress(t) /\ At(w) = MutationOf(t)
      /\ Visible(w) = Seen(t)
  BY TxType, AtIs
<1>2. e \in Entity
  BY <1>1, AtWorkType, MutationType DEF AtWork
<1>3. LockOf(w, e) \subseteq Entity
  BY <1>2 DEF LockOf
<1>4. /\ T \in Transaction /\ T.stage = "apply" /\ T.locks = t.locks \cup LockOf(w, e)
      /\ T.found = (RowsOf(Seen(t), e) # {})
      /\ T.request = t.request /\ T.answers = t.answers /\ T.rows = t.rows
      /\ T.evidence = t.evidence /\ T.cached = t.cached /\ T.saved = t.saved
  BY <1>1, <1>3 DEF Transaction, Stage, LookedUp
<1> HIDE DEF T
<1>5. /\ MutationOf(T) = At(w) /\ Seen(T) = Seen(t) /\ SeenBefore(T) = SeenBefore(t)
      /\ FailedDependencies(T, At(w)) = FailedDependencies(t, At(w))
  BY <1>1, <1>4, SamePlace DEF Seen, SeenBefore
<1>6. \A x \in LockOf(w, e) : RowsOf(Seen(t), x) # {}
  BY <1>1 DEF LockOf
<1>7. T.found => e \in T.locks
  BY <1>1, <1>4 DEF LockOf
<1>8. ~ T.found => RowsOf(t.rows, e) = {}
  BY <1>4 DEF RowsOf, Seen
<1>9. Progress(T)
  BY <1>1, <1>4, <1>5, <1>7, <1>8 DEF Progress, AtWork, Handling
<1>10. LocksFit(T)
  BY <1>1, <1>4, <1>5, <1>6 DEF TxFits, LocksFit
<1>11. Backed(T)
  BY <1>1, <1>4, <1>5 DEF TxFits, Backed
<1> QED BY <1>1, <1>4, <1>5, <1>9, <1>10, <1>11 DEF TxFits, T

\* The entity as a transaction sees it, when there is one.
LEMMA CurrentProperty ==
  ASSUME IInv, NEW w \in Worker, NEW e, RowsOf(Visible(w), e) # {}
  PROVE  /\ Current(w, e) \in Visible(w) /\ Current(w, e) \in VersionRow
         /\ Current(w, e).entity = e
         /\ Current(w, e).version <= Current(w, e).seq /\ Current(w, e).seq <= seqCounter
         /\ \A q \in Visible(w) : q.entity = e => q.version <= Current(w, e).version
<1>1. Visible(w) \in SUBSET VersionRow /\ seqCounter \in Nat
  BY TxType DEF IInv, TypeOK, Visible, Transaction
<1>2. \A r \in Visible(w) : r.version <= r.seq /\ r.seq <= seqCounter
  BY DEF IInv, SeqsDrawn, Visible
<1>3. \A r \in Visible(w) : r.version <= seqCounter
  BY <1>1, <1>2 DEF VersionRow
<1>4. /\ Latest(Visible(w), e) \in Visible(w)
      /\ Latest(Visible(w), e).entity = e
      /\ \A q \in Visible(w) : q.entity = e => q.version <= Latest(Visible(w), e).version
  BY <1>1, <1>3, LatestProperty
<1> QED BY <1>1, <1>2, <1>4 DEF Current

\* What create_conflict answers, and the row behind it.
LEMMA ConflictProperty ==
  ASSUME NEW w, NEW m \in Mutation, NEW c \in VersionRow, c.entity = m.entity,
         ConflictStored(w, m, c)
  PROVE  /\ ConflictAnswer(m, c) \in Answer
         /\ ConflictAnswer(m, c).op = m.op
         /\ ConflictAnswer(m, c).status \in {"noop", "conflict"}
         /\ ConflictAnswer(m, c).version = c.version
         /\ ConflictRows(w, m, c) \subseteq ConflictRow
         /\ IF ConflictAnswer(m, c).evidence
            THEN \E x \in ConflictRow :
                   /\ ConflictRows(w, m, c) = {x}
                   /\ x.op = m.op /\ x.entity = m.entity /\ x.base = m.base /\ x.cloud = c.version
            ELSE ConflictRows(w, m, c) = {}
<1>1. c.version \in Nat
  BY DEF VersionRow
<1>2. CASE Reason(m, c) = "none"
  <2>1. ConflictAnswer(m, c) = AnswerTo(m, "noop", c.version) /\ ConflictRows(w, m, c) = {}
    BY <1>2 DEF ConflictAnswer, ConflictRows
  <2> DEFINE a == AnswerTo(m, "noop", c.version)
  <2>2. a \in Answer /\ a.op = m.op /\ a.status = "noop" /\ a.version = c.version
    BY <1>1, MutationType DEF AnswerTo, Answer, Status
  <2>3. ~ a.evidence
    BY DEF AnswerTo
  <2> HIDE DEF a
  <2>4. ConflictAnswer(m, c) = a
    BY <2>1 DEF a
  <2> QED BY <2>1, <2>2, <2>3, <2>4
<1>3. CASE Reason(m, c) # "none"
  <2> DEFINE a == AnswerTo(m, "conflict", c.version)
             x == Evidence(w, m, c)
  <2>1. ConflictAnswer(m, c) = [a EXCEPT !.evidence = TRUE] /\ ConflictRows(w, m, c) = {x}
    BY <1>3 DEF ConflictAnswer, ConflictRows
  <2>2. a \in Answer /\ a.op = m.op /\ a.status = "conflict" /\ a.version = c.version
    BY <1>1, MutationType DEF AnswerTo, Answer, Status
  <2>3. BaseFound(w, m) = m.base
    <3>1. BaselineHolds(w, m, c)
      BY <1>3 DEF ConflictStored
    <3>2. BaseFound(w, m) = m.base \/ BaseFound(w, m) = 0
      BY DEF BaseFound
    <3>3. BaseFound(w, m) = 0 => m.kind = "create"
      BY <3>1 DEF BaselineHolds, Reason
    <3> QED BY <3>2, <3>3, MutationType DEF WellFormed
  <2>4. /\ x \in ConflictRow /\ x.op = m.op /\ x.entity = m.entity
        /\ x.base = m.base /\ x.cloud = c.version
    BY <1>1, <2>3, MutationType DEF Evidence, ConflictRow
  <2>5. /\ ConflictAnswer(m, c) \in Answer /\ ConflictAnswer(m, c).evidence
        /\ ConflictAnswer(m, c).op = m.op /\ ConflictAnswer(m, c).version = c.version
        /\ ConflictAnswer(m, c).status = "conflict"
    BY <2>1, <2>2 DEF Answer
  <2> HIDE DEF a, x
  <2> QED BY <2>1, <2>4, <2>5
<1> QED BY <1>2, <1>3

\* The entity was found to have diverged, and its evidence is written.
Conflicted(w, c) ==
  [tx[w] EXCEPT !.stage = "record", !.evidence = @ \cup ConflictRows(w, At(w), c),
                !.draft = ConflictAnswer(At(w), c)]

LEMMA ConflictedFits ==
  ASSUME IInv, NEW w \in Worker, tx[w].stage = "apply",
         NEW c \in VersionRow, c \in Visible(w), c.entity = At(w).entity,
         ConflictStored(w, At(w), c)
  PROVE  /\ Conflicted(w, c) \in Transaction
         /\ TxFits(Conflicted(w, c))
         /\ Conflicted(w, c).rows = tx[w].rows
         /\ Conflicted(w, c).locks = tx[w].locks
<1> DEFINE t == tx[w]
           m == At(w)
           T == Conflicted(w, c)
           a == ConflictAnswer(m, c)
           X == ConflictRows(w, m, c)
<1>1. /\ t \in Transaction /\ TxFits(t) /\ Progress(t) /\ At(w) = MutationOf(t)
      /\ Visible(w) = Seen(t) /\ m \in Mutation
  BY TxType, AtIs, AtWorkType DEF AtWork
<1>2. /\ a \in Answer /\ a.op = m.op /\ a.status \in {"noop", "conflict"} /\ a.version = c.version
      /\ X \subseteq ConflictRow
      /\ IF a.evidence
         THEN \E x \in ConflictRow :
                /\ X = {x} /\ x.op = m.op /\ x.entity = m.entity /\ x.base = m.base
                /\ x.cloud = c.version
         ELSE X = {}
  BY <1>1, ConflictProperty
<1> HIDE DEF a, X
<1>3. /\ T \in Transaction /\ T.stage = "record" /\ T.draft = a
      /\ T.request = t.request /\ T.answers = t.answers /\ T.rows = t.rows
      /\ T.evidence = t.evidence \cup X /\ T.locks = t.locks /\ T.cached = t.cached
      /\ T.saved = t.saved
  BY <1>1, <1>2 DEF Transaction, Stage, Conflicted, a, X
<1> HIDE DEF T
<1>4. /\ MutationOf(T) = m /\ Seen(T) = Seen(t) /\ SeenBefore(T) = SeenBefore(t)
      /\ FailedDependencies(T, m) = FailedDependencies(t, m)
  BY <1>1, <1>3, SamePlace DEF Seen, SeenBefore
<1>5. t.rows = t.saved.rows /\ t.evidence = t.saved.evidence /\ Seen(t) = SeenBefore(t)
  BY <1>1 DEF Progress, Seen, SeenBefore
<1>6. HasVersion(Seen(t), m.entity, c.version)
  BY <1>1 DEF HasVersion
<1>7. FailedDependencies(t, m) = {}
  BY <1>1 DEF Progress
<1>8. Drafted(T, a)
  <2>1. IF a.evidence
        THEN \E x \in T.evidence : /\ T.evidence = T.saved.evidence \cup {x}
                                    /\ x.op = m.op /\ x.entity = m.entity /\ x.base = m.base
                                    /\ HasVersion(SeenBefore(T), x.entity, x.cloud)
        ELSE T.evidence = T.saved.evidence
    BY <1>2, <1>3, <1>4, <1>5, <1>6
  <2> QED BY <1>2, <1>3, <1>4, <1>5, <1>6, <1>7, <2>1 DEF Drafted
<1>9. Progress(T)
  BY <1>1, <1>3 DEF Progress, AtWork, Handling
<1>10. Backed(T) /\ LocksFit(T)
  BY <1>1, <1>3, <1>4 DEF TxFits, Backed, LocksFit
<1> QED BY <1>1, <1>3, <1>4, <1>8, <1>9, <1>10 DEF TxFits, T, a, X

\* The mutation of worker w is written as a row.
NewRow(w) == RowFor(At(w), tx[w].found, Current(w, At(w).entity))
Written(w) ==
  [tx[w] EXCEPT !.stage = "record", !.rows = @ \cup {NewRow(w)}, !.locks = @ \cup {At(w).entity},
                !.draft = AnswerTo(At(w), "applied", NewRow(w).version)]

\* What is accepted was found at the version it says, or creates the entity; the
\* other versions of the entity in sight come before it.
LEMMA NewRowProperty ==
  ASSUME IInv, NEW w \in Worker, tx[w].stage = "apply",
         Acceptable(At(w), tx[w].found, Current(w, At(w).entity))
  PROVE  /\ NewRow(w) \in VersionRow
         /\ NewRow(w).entity = At(w).entity /\ NewRow(w).op = At(w).op
         /\ NewRow(w).seq = seqCounter + 1
         /\ NewRow(w).version <= NewRow(w).seq
         /\ NewRow(w).version > 1 => \E q \in Visible(w) : Precedes(q, NewRow(w))
         /\ \A q \in tx[w].rows : q.entity = At(w).entity => q.version # NewRow(w).version
         /\ ~ tx[w].found => NewRow(w).version = 1
         /\ tx[w].found => At(w).entity \in tx[w].locks
<1> DEFINE t == tx[w]
           m == At(w)
           c == Current(w, m.entity)
           r == NewRow(w)
<1>1. /\ t \in Transaction /\ TxFits(t) /\ Progress(t) /\ m = MutationOf(t)
      /\ Visible(w) = Seen(t) /\ m \in Mutation
  BY TxType, AtIs, AtWorkType DEF AtWork
<1>2. /\ m.entity \in Entity /\ m.op \in Operation /\ m.content \in Content
      /\ m.kind \in Kind /\ WellFormed(m)
  BY <1>1, MutationType
<1>3. seqCounter \in Nat
  BY DEF IInv, TypeOK
<1>4. /\ t.found => RowsOf(Visible(w), m.entity) # {} /\ m.entity \in t.locks
      /\ ~ t.found => RowsOf(t.rows, m.entity) = {}
  BY <1>1 DEF Progress
<1>5. /\ r.entity = m.entity /\ r.version = NextVersion(t.found, c) /\ r.content = m.content
      /\ r.tombstone = (m.kind = "delete") /\ r.kind = m.kind /\ r.op = m.op
      /\ r.base = m.baseContent /\ r.seq = seqCounter + 1
  BY DEF NewRow, RowFor, DrawSequence
<1>6. CASE t.found
  <2>1. /\ c \in Visible(w) /\ c \in VersionRow /\ c.entity = m.entity
        /\ c.version <= c.seq /\ c.seq <= seqCounter
        /\ \A q \in Visible(w) : q.entity = m.entity => q.version <= c.version
    BY <1>4, <1>6, CurrentProperty
  <2>2. c.version \in Nat \ {0} /\ c.seq \in Nat /\ c.content \in Content
    BY <2>1 DEF VersionRow
  <2>3. m.baseContent = c.content
    BY <1>6 DEF Acceptable, Diverged, InEffect, BaseMatches, Refused
  <2>4. r.version = c.version + 1
    BY <1>5, <1>6 DEF NextVersion
  <2> HIDE DEF t, m, c, r
  <2>5. r.version \in Nat \ {0} /\ r.seq \in Nat /\ r.version <= r.seq /\ c.version = r.version - 1
        /\ c.seq < r.seq
    BY <1>3, <1>5, <2>1, <2>2, <2>4
  <2>6. r \in VersionRow
    BY <1>2, <1>5, <2>2, <2>3, <2>5 DEF NewRow, RowFor, VersionRow, r, t, m, c
  <2>7. Precedes(c, r)
    BY <1>5, <2>1, <2>3, <2>5 DEF Precedes
  <2>8. ASSUME NEW q \in t.rows, q.entity = m.entity PROVE q.version # r.version
    <3>1. q \in Visible(w) /\ q.version \in Nat
      BY <1>1 DEF Seen, Transaction, VersionRow
    <3> QED BY <2>1, <2>2, <2>4, <2>8, <3>1
  <2> QED BY <1>4, <1>5, <1>6, <2>1, <2>5, <2>6, <2>7, <2>8 DEF t, m, r
<1>7. CASE ~ t.found
  <2>1. m.kind = "create" /\ m.baseContent = NoContent
    BY <1>2, <1>7 DEF Acceptable, Refused, WellFormed
  <2>2. r.version = 1
    BY <1>5, <1>7 DEF NextVersion
  <2>3. r \in VersionRow
    BY <1>2, <1>3, <1>5, <2>1, <2>2 DEF NewRow, RowFor, VersionRow, DrawSequence, Content
  <2>4. \A q \in t.rows : q.entity # m.entity
    BY <1>4, <1>7 DEF RowsOf
  <2> HIDE DEF t, m, c, r
  <2>5. r.version <= r.seq /\ ~ (r.version > 1)
    BY <1>3, <1>5, <2>2
  <2> QED BY <1>5, <1>7, <2>2, <2>3, <2>4, <2>5 DEF t, m, r
<1> QED BY <1>6, <1>7

LEMMA WrittenFits ==
  ASSUME IInv, NEW w \in Worker, tx[w].stage = "apply",
         Acceptable(At(w), tx[w].found, Current(w, At(w).entity))
  PROVE  /\ Written(w) \in Transaction
         /\ TxFits(Written(w))
         /\ Written(w).rows = tx[w].rows \cup {NewRow(w)}
         /\ Written(w).locks = tx[w].locks \cup {At(w).entity}
         /\ Written(w).request = tx[w].request
         /\ Written(w).stage = "record"
<1> DEFINE t == tx[w]
           m == At(w)
           r == NewRow(w)
           T == Written(w)
           a == AnswerTo(m, "applied", r.version)
<1>1. /\ t \in Transaction /\ TxFits(t) /\ Progress(t) /\ m = MutationOf(t)
      /\ Visible(w) = Seen(t) /\ m \in Mutation
  BY TxType, AtIs, AtWorkType DEF AtWork
<1>2. /\ r \in VersionRow /\ r.entity = m.entity /\ r.op = m.op /\ r.seq = seqCounter + 1
      /\ r.version > 1 => \E q \in Visible(w) : Precedes(q, r)
  BY NewRowProperty
<1>3. m.entity \in Entity
  BY <1>1, MutationType
<1>4. /\ a \in Answer /\ a.op = m.op /\ a.status = "applied" /\ a.version = r.version
  BY <1>1, <1>2, MutationType DEF AnswerTo, Answer, Status, VersionRow
<1>5. ~ a.evidence
  BY DEF AnswerTo
<1> HIDE DEF a, r
<1>6. /\ T \in Transaction /\ T.stage = "record" /\ T.draft = a
      /\ T.request = t.request /\ T.answers = t.answers /\ T.rows = t.rows \cup {r}
      /\ T.evidence = t.evidence /\ T.locks = t.locks \cup {m.entity} /\ T.cached = t.cached
      /\ T.saved = t.saved
  BY <1>1, <1>2, <1>3, <1>4 DEF Transaction, Stage, Written, a, r
<1> HIDE DEF T
<1>7. /\ MutationOf(T) = m /\ Seen(T) = Seen(t) \cup {r} /\ SeenBefore(T) = SeenBefore(t)
      /\ FailedDependencies(T, m) = FailedDependencies(t, m)
  BY <1>1, <1>6, SamePlace DEF Seen, SeenBefore
<1>8. t.rows = t.saved.rows /\ t.evidence = t.saved.evidence /\ FailedDependencies(t, m) = {}
  BY <1>1 DEF Progress
<1>9. \A q \in t.saved.rows : q.seq < r.seq
  <2>1. \A q \in t.rows : q.seq \in Nat /\ q.seq <= seqCounter
    BY <1>1 DEF IInv, SeqsDrawn, Transaction, VersionRow
  <2>2. seqCounter \in Nat
    BY DEF IInv, TypeOK
  <2> QED BY <1>2, <1>8, <2>1, <2>2
<1>10. Drafted(T, a)
  <2>1. HasVersion(Seen(T), m.entity, a.version)
    BY <1>2, <1>4, <1>7 DEF HasVersion
  <2> QED BY <1>2, <1>4, <1>5, <1>6, <1>7, <1>8, <1>9, <2>1 DEF Drafted
<1>11. Progress(T)
  BY <1>1, <1>6 DEF Progress, AtWork, Handling
<1>12. Chained(T.rows, Seen(T)) /\ Chained(T.saved.rows, SeenBefore(T))
  BY <1>1, <1>2, <1>6, <1>7 DEF TxFits, Chained
<1>13. Backed(T)
  BY <1>1, <1>6, <1>7 DEF TxFits, Backed
<1>14. LocksFit(T)
  <2>1. \A e : RowsOf(Seen(t), e) \subseteq RowsOf(Seen(T), e)
    BY <1>7 DEF RowsOf
  <2>2. RowsOf(Seen(T), m.entity) # {}
    BY <1>2, <1>7 DEF RowsOf
  <2>3. LocksFit(t)
    BY <1>1 DEF TxFits
  <2> QED BY <1>2, <1>6, <1>7, <2>1, <2>2, <2>3 DEF LocksFit
<1> QED BY <1>6, <1>10, <1>11, <1>12, <1>13, <1>14 DEF TxFits, T, r

-----------------------------------------------------------------------------
(* The end of an operation.                                                *)

LEMMA ResultType ==
  ASSUME IInv, NEW w \in Worker, tx[w].stage \in AtWork
  PROVE  /\ At(w) \in Mutation /\ At(w) = MutationOf(tx[w])
         /\ ResultOf(w) \in ResultRow
         /\ tx[w].request \in Request /\ Len(tx[w].answers) < Len(tx[w].request.ops)
<1>1. At(w) \in Mutation /\ tx[w].request \in Request
  BY TxType, AtIs, AtWorkType
<1>2. Len(tx[w].answers) < Len(tx[w].request.ops)
  BY TxType DEF Progress
<1> QED BY <1>1, <1>2, AtIs, MutationType, RequestType DEF ResultOf, ResultRow

\* The operation of worker w, with its result row.
WithResult(w) == [tx[w] EXCEPT !.recorded = @ \cup {ResultOf(w)}]

LEMMA RecordedFits ==
  ASSUME IInv, NEW w \in Worker, tx[w].stage = "record"
  PROVE  /\ Answered(WithResult(w), tx[w].draft) \in Transaction
         /\ TxFits(Answered(WithResult(w), tx[w].draft))
         /\ Answered(WithResult(w), tx[w].draft).rows = tx[w].rows
         /\ Answered(WithResult(w), tx[w].draft).locks = tx[w].locks
         /\ Answered(WithResult(w), tx[w].draft).request = tx[w].request
         /\ Answered(WithResult(w), tx[w].draft).stage \in {"commit", "check"}
<1> DEFINE t == tx[w]
           T == WithResult(w)
           a == tx[w].draft
<1>1. /\ t \in Transaction /\ TxFits(t) /\ Progress(t) /\ ResultOf(w) \in ResultRow
      /\ t.request \in Request /\ Len(t.answers) < Len(t.request.ops)
  BY TxType, ResultType DEF AtWork
<1>2. /\ T \in Transaction /\ T.stage = "record"
      /\ T.request = t.request /\ T.answers = t.answers /\ T.rows = t.rows
      /\ T.evidence = t.evidence /\ T.locks = t.locks /\ T.saved = t.saved
  BY <1>1 DEF Transaction, WithResult
<1> HIDE DEF T
<1>3. /\ MutationOf(T) = MutationOf(t) /\ Seen(T) = Seen(t) /\ SeenBefore(T) = SeenBefore(t)
      /\ FailedDependencies(T, MutationOf(t)) = FailedDependencies(t, MutationOf(t))
  BY <1>2, SamePlace DEF Seen, SeenBefore
<1>4. Drafted(t, a)
  BY <1>1 DEF TxFits
<1>5. Drafted(T, a)
  BY <1>2, <1>3, <1>4 DEF Drafted
<1>6. Backed(T) /\ LocksFit(T)
  BY <1>1, <1>2, <1>3 DEF TxFits, Backed, LocksFit
<1>7. Chained(T.rows, Seen(T)) /\ T.saved.rows \subseteq T.rows
  BY <1>1, <1>2, <1>3 DEF TxFits, Progress
<1>8. Answered(T, a) \in Transaction /\ TxFits(Answered(T, a))
  BY <1>1, <1>2, <1>5, <1>6, <1>7, AnsweredFits
<1>9. a \in Answer
  BY <1>4 DEF Drafted
<1>10. /\ Answered(T, a).rows = T.rows /\ Answered(T, a).locks = T.locks
       /\ Answered(T, a).request = T.request /\ Answered(T, a).stage \in {"commit", "check"}
  BY <1>2, <1>9, AnsweredFields
<1> QED BY <1>2, <1>8, <1>10 DEF T

\* The handler answers, without a row, an operation that has a result.
LEMMA HandledFits ==
  ASSUME IInv, NEW w \in Worker, tx[w].stage = "handle"
  PROVE  /\ Answered(tx[w], Rejected(At(w))) \in Transaction
         /\ TxFits(Answered(tx[w], Rejected(At(w))))
         /\ Answered(tx[w], Rejected(At(w))).rows = tx[w].rows
         /\ Answered(tx[w], Rejected(At(w))).locks = tx[w].locks
         /\ Answered(tx[w], Rejected(At(w))).request = tx[w].request
         /\ Answered(tx[w], Rejected(At(w))).stage \in {"commit", "check"}
<1> DEFINE t == tx[w]
           a == Rejected(At(w))
<1>1. /\ t \in Transaction /\ TxFits(t) /\ Progress(t) /\ At(w) \in Mutation /\ At(w) = MutationOf(t)
      /\ t.request \in Request /\ Len(t.answers) < Len(t.request.ops)
  BY TxType, ResultType DEF AtWork
<1>2. a \in Answer /\ a.op = At(w).op /\ a.status = "rejected" /\ a.evidence = FALSE
  BY <1>1, RejectedType
<1> HIDE DEF a
<1>3. t.rows = t.saved.rows /\ t.evidence = t.saved.evidence
  BY <1>1 DEF Progress
<1>4. a.status \notin Success /\ a.status # "applied" /\ ~ a.evidence
  BY <1>2 DEF Success
<1>5. Drafted(t, a)
  BY <1>1, <1>2, <1>3, <1>4 DEF Drafted
<1>6. Backed(t) /\ LocksFit(t) /\ Chained(t.rows, Seen(t)) /\ t.saved.rows \subseteq t.rows
  BY <1>1 DEF TxFits, Progress
<1>7. Answered(t, a) \in Transaction /\ TxFits(Answered(t, a))
  BY <1>1, <1>5, <1>6, AnsweredFits
<1>8. /\ Answered(t, a).rows = t.rows /\ Answered(t, a).locks = t.locks
      /\ Answered(t, a).request = t.request /\ Answered(t, a).stage \in {"commit", "check"}
  BY <1>1, <1>2, AnsweredFields
<1> QED BY <1>7, <1>8 DEF a

\* A change of stage only, within the handler or out of it.
LEMMA HandlerStageFits ==
  ASSUME IInv, NEW w \in Worker, NEW stage \in {"rehandle", "failed"},
         tx[w].stage \in Handling,
         stage = "rehandle" => tx[w].stage = "handle" /\ ~ ResultTaken(At(w).op)
  PROVE  /\ [tx[w] EXCEPT !.stage = stage] \in Transaction
         /\ TxFits([tx[w] EXCEPT !.stage = stage])
<1> DEFINE t == tx[w]
           T == [t EXCEPT !.stage = stage]
<1>1. t \in Transaction /\ TxFits(t) /\ Progress(t) /\ MutationOf(t) = At(w)
  BY TxType, AtIs
<1>2. /\ T \in Transaction /\ T.stage = stage
      /\ T.request = t.request /\ T.answers = t.answers /\ T.rows = t.rows
      /\ T.evidence = t.evidence /\ T.locks = t.locks /\ T.cached = t.cached /\ T.saved = t.saved
  BY <1>1 DEF Transaction, Stage
<1> HIDE DEF T
<1>3. /\ MutationOf(T) = At(w) /\ Seen(T) = Seen(t) /\ SeenBefore(T) = SeenBefore(t)
      /\ FailedDependencies(T, At(w)) = FailedDependencies(t, At(w))
  BY <1>1, <1>2, SamePlace DEF Seen, SeenBefore
<1>4. Progress(T)
  BY <1>1, <1>2, <1>3 DEF Progress, AtWork, Handling
<1>5. Backed(T) /\ LocksFit(T)
  BY <1>1, <1>2, <1>3 DEF TxFits, Backed, LocksFit
<1>6. T.stage # "record"
  BY <1>2
<1> QED BY <1>1, <1>2, <1>3, <1>4, <1>5, <1>6 DEF TxFits, T

\* The entity as the handler knows it is a row it sees.
LEMMA KnownProperty ==
  ASSUME IInv, NEW w \in Worker, tx[w].stage = "rehandle",
         RowsOf(Visible(w), At(w).entity) # {}
  PROVE  /\ Known(w, At(w)) \in VersionRow /\ Known(w, At(w)) \in Visible(w)
         /\ Known(w, At(w)).entity = At(w).entity
<1>1. tx[w] \in Transaction /\ Progress(tx[w]) /\ At(w) = MutationOf(tx[w]) /\ Visible(w) = Seen(tx[w])
  BY TxType, AtIs
<1>2. CASE tx[w].cached # Absent
  <2>1. Known(w, At(w)) = tx[w].cached
    BY <1>2 DEF Known
  <2>2. tx[w].cached \in VersionRow
    BY <1>1, <1>2 DEF Transaction
  <2> QED BY <1>1, <1>2, <2>1, <2>2 DEF Progress, Handling
<1>3. CASE tx[w].cached = Absent
  <2>1. Known(w, At(w)) = Current(w, At(w).entity)
    BY <1>3 DEF Known
  <2> QED BY <2>1, CurrentProperty
<1> QED BY <1>2, <1>3

LEMMA RetriedProperty ==
  ASSUME IInv, NEW w \in Worker, tx[w].stage = "rehandle",
         Retried(w, At(w)).evidence => BaselineHolds(w, At(w), Known(w, At(w)))
  PROVE  /\ Retried(w, At(w)) \in Answer
         /\ Retried(w, At(w)).op = At(w).op
         /\ Retried(w, At(w)).status \in {"noop", "conflict", "rejected"}
         /\ Retried(w, At(w)).status = "noop" =>
              HasVersion(Visible(w), At(w).entity, Retried(w, At(w)).version)
         /\ RetriedRows(w, At(w)) \subseteq ConflictRow
         /\ IF Retried(w, At(w)).evidence
            THEN \E x \in ConflictRow :
                   /\ RetriedRows(w, At(w)) = {x} /\ x.op = At(w).op
                   /\ x.entity = At(w).entity /\ x.base = At(w).base
                   /\ HasVersion(Visible(w), x.entity, x.cloud)
            ELSE RetriedRows(w, At(w)) = {}
<1> DEFINE m == At(w)
           c == Known(w, m)
           a == Retried(w, m)
           X == RetriedRows(w, m)
<1>1. m \in Mutation
  BY ResultType DEF AtWork
<1>2. CASE m.kind = "create" /\ RowsOf(Visible(w), m.entity) # {}
  <2>1. c \in VersionRow /\ c \in Visible(w) /\ c.entity = m.entity
    BY <1>2, KnownProperty
  <2>2. a = ConflictAnswer(m, c)
    BY <1>2 DEF Retried
  <2>3. ConflictStored(w, m, c)
    <3>1. CASE Reason(m, c) = "none"
      BY <3>1 DEF ConflictStored
    <3>2. CASE Reason(m, c) # "none"
      <4>1. ConflictAnswer(m, c) = [AnswerTo(m, "conflict", c.version) EXCEPT !.evidence = TRUE]
        BY <3>2 DEF ConflictAnswer
      <4>2. a.evidence
        BY <2>2, <4>1 DEF AnswerTo
      <4> QED BY <4>2 DEF ConflictStored
    <3> QED BY <3>1, <3>2
  <2>4. /\ ConflictAnswer(m, c) \in Answer
        /\ ConflictAnswer(m, c).op = m.op
        /\ ConflictAnswer(m, c).status \in {"noop", "conflict"}
        /\ ConflictAnswer(m, c).version = c.version
        /\ ConflictRows(w, m, c) \subseteq ConflictRow
        /\ IF ConflictAnswer(m, c).evidence
           THEN \E x \in ConflictRow :
                  /\ ConflictRows(w, m, c) = {x}
                  /\ x.op = m.op /\ x.entity = m.entity /\ x.base = m.base /\ x.cloud = c.version
           ELSE ConflictRows(w, m, c) = {}
    BY <1>1, <2>1, <2>3, ConflictProperty
  <2>5. X = IF a.evidence THEN ConflictRows(w, m, c) ELSE {}
    BY DEF RetriedRows
  <2>6. HasVersion(Visible(w), m.entity, c.version)
    BY <2>1 DEF HasVersion
  <2> HIDE DEF a, c, m, X
  <2>7. /\ a \in Answer /\ a.op = m.op /\ a.status \in {"noop", "conflict"} /\ a.version = c.version
        /\ X \subseteq ConflictRow
    BY <2>2, <2>4, <2>5
  <2>8. IF a.evidence
        THEN \E x \in ConflictRow :
               /\ X = {x} /\ x.op = m.op /\ x.entity = m.entity /\ x.base = m.base
               /\ HasVersion(Visible(w), x.entity, x.cloud)
        ELSE X = {}
    BY <2>2, <2>4, <2>5, <2>6
  <2> QED BY <2>6, <2>7, <2>8 DEF a, c, m, X
<1>3. CASE m.kind # "create" /\ RowsOf(Visible(w), m.entity) # {}
  <2>1. a = AnswerTo(m, "conflict", c.version)
    BY <1>3 DEF Retried
  <2>2. c.version \in Nat
    BY <1>3, KnownProperty DEF VersionRow
  <2>3. /\ a \in Answer /\ a.op = m.op /\ a.status = "conflict"
    BY <1>1, <2>1, <2>2, MutationType DEF AnswerTo, Answer, Status
  <2>4. ~ a.evidence
    BY <2>1 DEF AnswerTo
  <2>5. X = {}
    BY <2>4 DEF RetriedRows
  <2> HIDE DEF a, c, m, X
  <2> QED BY <2>3, <2>4, <2>5 DEF a, m, X
<1>4. CASE RowsOf(Visible(w), m.entity) = {}
  <2>1. a = Rejected(m)
    BY <1>4 DEF Retried
  <2>2. a \in Answer /\ a.op = m.op /\ a.status = "rejected"
    BY <1>1, <2>1, MutationType DEF Rejected, AnswerTo, Answer, Status
  <2>3. ~ a.evidence
    BY <2>1 DEF Rejected, AnswerTo
  <2>4. X = {}
    BY <2>3 DEF RetriedRows
  <2> HIDE DEF a, c, m, X
  <2> QED BY <2>2, <2>3, <2>4 DEF a, m, X
<1> QED BY <1>2, <1>3, <1>4

\* The handler answers with a row.
WithRetry(w) ==
  [tx[w] EXCEPT !.recorded = @ \cup {ResultOf(w)},
                !.evidence = @ \cup RetriedRows(w, At(w)),
                !.locks = @ \cup LockOf(w, At(w).entity)]

LEMMA RetriedFits ==
  ASSUME IInv, NEW w \in Worker, tx[w].stage = "rehandle",
         Retried(w, At(w)).evidence => BaselineHolds(w, At(w), Known(w, At(w)))
  PROVE  /\ Answered(WithRetry(w), Retried(w, At(w))) \in Transaction
         /\ TxFits(Answered(WithRetry(w), Retried(w, At(w))))
         /\ Answered(WithRetry(w), Retried(w, At(w))).rows = tx[w].rows
         /\ Answered(WithRetry(w), Retried(w, At(w))).locks
              = tx[w].locks \cup LockOf(w, At(w).entity)
         /\ Answered(WithRetry(w), Retried(w, At(w))).request = tx[w].request
         /\ Answered(WithRetry(w), Retried(w, At(w))).stage \in {"commit", "check"}
<1> DEFINE t == tx[w]
           m == At(w)
           T == WithRetry(w)
           a == Retried(w, m)
           X == RetriedRows(w, m)
           L == LockOf(w, m.entity)
<1>1. /\ t \in Transaction /\ TxFits(t) /\ Progress(t) /\ ResultOf(w) \in ResultRow
      /\ t.request \in Request /\ Len(t.answers) < Len(t.request.ops)
      /\ m \in Mutation /\ m = MutationOf(t) /\ Visible(w) = Seen(t)
  BY TxType, ResultType, AtIs DEF AtWork
<1>2. /\ a \in Answer /\ a.op = m.op /\ a.status \in {"noop", "conflict", "rejected"}
      /\ a.status = "noop" => HasVersion(Visible(w), m.entity, a.version)
      /\ X \subseteq ConflictRow
      /\ IF a.evidence
         THEN \E x \in ConflictRow :
                /\ X = {x} /\ x.op = m.op /\ x.entity = m.entity /\ x.base = m.base
                /\ HasVersion(Visible(w), x.entity, x.cloud)
         ELSE X = {}
  BY RetriedProperty
<1>3. L \subseteq Entity /\ \A e \in L : RowsOf(Seen(t), e) # {}
  BY <1>1, MutationType DEF LockOf
<1> HIDE DEF a, X, L
<1>4. /\ T \in Transaction
      /\ T.request = t.request /\ T.answers = t.answers /\ T.rows = t.rows
      /\ T.evidence = t.evidence \cup X /\ T.locks = t.locks \cup L /\ T.saved = t.saved
  BY <1>1, <1>2, <1>3 DEF Transaction, WithRetry, X, L
<1> HIDE DEF T
<1>5. /\ MutationOf(T) = m /\ Seen(T) = Seen(t) /\ SeenBefore(T) = SeenBefore(t)
      /\ FailedDependencies(T, m) = FailedDependencies(t, m)
  BY <1>1, <1>4, SamePlace DEF Seen, SeenBefore
<1>6. /\ t.rows = t.saved.rows /\ t.evidence = t.saved.evidence /\ Seen(t) = SeenBefore(t)
      /\ FailedDependencies(t, m) = {}
  BY <1>1 DEF Progress, Seen, SeenBefore
<1>7. Drafted(T, a)
  <2>1. IF a.evidence
        THEN \E x \in T.evidence : /\ T.evidence = T.saved.evidence \cup {x}
                                   /\ x.op = m.op /\ x.entity = m.entity /\ x.base = m.base
                                   /\ HasVersion(SeenBefore(T), x.entity, x.cloud)
        ELSE T.evidence = T.saved.evidence
    BY <1>1, <1>2, <1>4, <1>5, <1>6
  <2>2. a.status \in Success => a.status = "noop"
    BY <1>2 DEF Success
  <2> QED BY <1>1, <1>2, <1>4, <1>5, <1>6, <2>1, <2>2 DEF Drafted
<1>8. Backed(T) /\ LocksFit(T)
  BY <1>1, <1>3, <1>4, <1>5 DEF TxFits, Backed, LocksFit
<1>9. Chained(T.rows, Seen(T)) /\ T.saved.rows \subseteq T.rows
  BY <1>1, <1>4, <1>5 DEF TxFits, Progress
<1>10. Answered(T, a) \in Transaction /\ TxFits(Answered(T, a))
  BY <1>1, <1>4, <1>7, <1>8, <1>9, AnsweredFits
<1>11. /\ Answered(T, a).rows = T.rows /\ Answered(T, a).locks = T.locks
       /\ Answered(T, a).request = T.request /\ Answered(T, a).stage \in {"commit", "check"}
  BY <1>2, <1>4, AnsweredFields
<1> QED BY <1>4, <1>10, <1>11 DEF T, a, L

-----------------------------------------------------------------------------
(* Transactions without an operation.                                      *)

LEMMA FreshFits ==
  ASSUME NEW r \in Request \cup {NoRequest}, NEW stage \in {"idle", "claim", "check", "commit"},
         stage # "idle" => r \in Request,
         stage = "check" => r.ops # <<>>,
         stage = "commit" => r.ops = <<>>
  PROVE  /\ Fresh(stage, r) \in Transaction
         /\ TxFits(Fresh(stage, r))
         /\ Fresh(stage, r).rows = {} /\ Fresh(stage, r).locks = {}
         /\ Fresh(stage, r).stage = stage /\ Fresh(stage, r).request = r
<1> DEFINE T == Fresh(stage, r)
<1>1. /\ T.stage = stage /\ T.request = r /\ T.answers = <<>> /\ T.rows = {} /\ T.evidence = {}
      /\ T.locks = {} /\ T.cached = Absent /\ T.saved.rows = {} /\ T.saved.evidence = {}
      /\ T.saved.locks = {}
  BY DEF Fresh, NoSavepoint
<1>2. T \in Transaction
  BY DEF Fresh, NoSavepoint, Transaction, Stage
<1> HIDE DEF T
<1>3. Len(T.answers) = 0 /\ DOMAIN T.answers = {}
  BY <1>1
<1>4. stage = "check" => 0 < Len(r.ops)
  <2> SUFFICES ASSUME stage = "check" PROVE 0 < Len(r.ops)
    OBVIOUS
  <2>1. r \in Request /\ r.ops # <<>> /\ r.ops \in Seq(Mutation)
    BY RequestType
  <2> QED BY <2>1
<1>5. stage = "commit" => 0 = Len(r.ops)
  OBVIOUS
<1>6. Progress(T)
  BY <1>1, <1>3, <1>4, <1>5 DEF Progress, AtWork, Handling
<1>7. Backed(T)
  BY <1>1, <1>3 DEF Backed, AnswersFit, AppliedOps
<1>8. LocksFit(T) /\ Chained(T.rows, Seen(T)) /\ Chained(T.saved.rows, SeenBefore(T))
  BY <1>1 DEF LocksFit, Chained
<1>9. T.stage # "record"
  BY <1>1
<1> QED BY <1>1, <1>2, <1>6, <1>7, <1>8, <1>9 DEF TxFits, T

LEMMA IdleFits ==
  /\ Idle \in Transaction /\ TxFits(Idle)
  /\ Idle.rows = {} /\ Idle.locks = {} /\ Idle.stage = "idle"
<1>1. NoRequest \in Request \cup {NoRequest}
  OBVIOUS
<1>2. "idle" \in {"idle", "claim", "check", "commit"}
  OBVIOUS
<1> QED BY <1>1, <1>2, FreshFits DEF Idle

-----------------------------------------------------------------------------
(* Steps.                                                                  *)

\* A transaction still fits when others commit: more rows are visible, and more
\* operations have a result.
LEMMA FitsKept ==
  ASSUME NEW w \in Worker, TxFits(tx'[w]), versions \subseteq versions', results \subseteq results'
  PROVE  TxFits(tx[w])'
<1> DEFINE t == tx'[w]
<1>1. Seen(t) \subseteq Seen(tx[w])' /\ SeenBefore(t) \subseteq SeenBefore(tx[w])'
  BY DEF Seen, SeenBefore
<1>2. \A op : ResultTaken(op) => ResultTaken(op)'
  BY DEF ResultTaken
<1>3. \A e : RowsOf(Seen(t), e) \subseteq RowsOf(Seen(tx[w])', e)
             /\ RowsOf(SeenBefore(t), e) \subseteq RowsOf(SeenBefore(tx[w])', e)
  BY <1>1 DEF RowsOf
<1>4. \A e, n : /\ HasVersion(Seen(t), e, n) => HasVersion(Seen(tx[w])', e, n)
                /\ HasVersion(SeenBefore(t), e, n) => HasVersion(SeenBefore(tx[w])', e, n)
  BY <1>1 DEF HasVersion
<1>5. Progress(tx[w])'
  BY <1>1, <1>2, <1>3 DEF TxFits, Progress, MutationOf
<1>6. Chained(tx[w].rows, Seen(tx[w]))' /\ Chained(tx[w].saved.rows, SeenBefore(tx[w]))'
  BY <1>1 DEF TxFits, Chained
<1>7. Backed(tx[w])'
  BY <1>4 DEF TxFits, Backed, AnswersFit
<1>8. LocksFit(tx[w])'
  BY <1>3 DEF TxFits, LocksFit
<1>9. tx'[w].stage = "record" => Drafted(tx[w], tx[w].draft)'
  BY <1>4 DEF TxFits, Drafted, MutationOf
<1> QED BY <1>5, <1>6, <1>7, <1>8, <1>9 DEF TxFits

\* One worker moves; the other transactions and the committed rows stay.
Alone(w) ==
  /\ tx' = [tx EXCEPT ![w] = tx'[w]]
  /\ UNCHANGED storeVars
  /\ tx'[w] \in Transaction /\ TxFits(tx'[w])

\* A batch key is held on, or was free.
KeepsKey(w) ==
  HoldsKey(w)' =>
    \/ HoldsKey(w) /\ tx'[w].request = tx[w].request
    \/ /\ batches[tx'[w].request.key] = NoBatch
       /\ \A v \in Worker \ {w} : HoldsKey(v) => tx[v].request.key # tx'[w].request.key

\* New replies are read from the batch rows.
RepliesRead ==
  \A p \in replies' \ replies :
    /\ p \in [request : Request, answers : Seq(Answer)]
    /\ batches[p.request.key] = p /\ p # NoBatch

LEMMA AloneKeeps ==
  ASSUME IInv, NEW w \in Worker, Alone(w), KeepsKey(w), RepliesRead, seqCounter' \in Nat
  PROVE  /\ TypeOK' /\ Chained(versions, versions)' /\ KeysApart' /\ RepliesStored'
         /\ BatchesFit' /\ ConflictsFit'
         /\ \A v \in Worker : TxFits(tx[v])'
<1>1. /\ versions' = versions /\ results' = results /\ conflicts' = conflicts /\ batches' = batches
      /\ \A v \in Worker \ {w} : tx'[v] = tx[v]
      /\ tx' \in [Worker -> Transaction]
  BY DEF Alone, storeVars, IInv, TypeOK
<1>2. TypeOK'
  BY <1>1 DEF TypeOK, IInv, RepliesRead
<1>3. Chained(versions, versions)'
  BY <1>1 DEF IInv
<1>4. RepliesStored'
  BY <1>1 DEF RepliesStored, RepliesRead, IInv
<1>5. BatchesFit' /\ ConflictsFit'
  BY <1>1 DEF BatchesFit, ConflictsFit, IInv
<1>6. ASSUME NEW v \in Worker
      PROVE  TxFits(tx[v])'
  <2>1. TxFits(tx'[v])
    BY <1>1 DEF Alone, IInv
  <2> QED BY <1>1, <2>1, FitsKept
<1>7. KeysApart'
  <2>1. \A x \in Worker : x # w => tx'[x] = tx[x] /\ (HoldsKey(x)' <=> HoldsKey(x))
    BY <1>1 DEF HoldsKey
  <2>2. \A x \in Worker : HoldsKey(x) =>
          /\ batches[tx[x].request.key] = NoBatch
          /\ \A y \in Worker \ {x} : HoldsKey(y) => tx[y].request.key # tx[x].request.key
    BY DEF IInv, KeysApart
  <2>3. HoldsKey(w)' =>
          \/ HoldsKey(w) /\ tx'[w].request = tx[w].request
          \/ /\ batches[tx'[w].request.key] = NoBatch
             /\ \A y \in Worker \ {w} : HoldsKey(y) => tx[y].request.key # tx'[w].request.key
    BY DEF KeepsKey
  <2>4. ASSUME NEW u \in Worker, HoldsKey(u)'
        PROVE  /\ batches[tx'[u].request.key] = NoBatch
               /\ \A v \in Worker \ {u} : HoldsKey(v)' => tx'[v].request.key # tx'[u].request.key
    BY <2>1, <2>2, <2>3, <2>4
  <2> QED BY <1>1, <2>4 DEF KeysApart
<1> QED BY <1>2, <1>3, <1>4, <1>5, <1>6, <1>7

\* A step that writes no row and takes only locks that are free.
LEMMA LocalStep ==
  ASSUME IInv, NEW w \in Worker, Alone(w), KeepsKey(w), RepliesRead, UNCHANGED seqCounter,
         tx'[w].rows \subseteq tx[w].rows,
         \A v \in Worker \ {w} : tx[v].locks \cap tx'[w].locks = {}
  PROVE  IInv'
<1>1. /\ versions' = versions
      /\ \A v \in Worker : v # w => tx'[v] = tx[v]
      /\ seqCounter' \in Nat
  BY DEF Alone, storeVars, IInv, TypeOK
<1>2. \A v \in Worker : tx'[v].rows \subseteq tx[v].rows
  BY <1>1
<1>3. RowsApart'
  BY <1>1, <1>2 DEF RowsApart, IInv, Clash
<1>4. SeqsDrawn'
  BY <1>1, <1>2 DEF SeqsDrawn, IInv
<1>5. FiniteRows'
  BY <1>1, <1>2, FS_Subset DEF FiniteRows, IInv
<1>6. LocksApart'
  BY <1>1 DEF LocksApart, IInv
<1>7. /\ TypeOK' /\ Chained(versions, versions)' /\ KeysApart' /\ RepliesStored'
      /\ BatchesFit' /\ ConflictsFit'
      /\ \A v \in Worker : TxFits(tx[v])'
  BY <1>1, AloneKeeps
<1> QED BY <1>3, <1>4, <1>5, <1>6, <1>7 DEF IInv

-----------------------------------------------------------------------------
(* The steps of an operation.                                              *)

LEMMA BecomeIs ==
  ASSUME IInv, NEW w \in Worker, NEW T, tx' = [tx EXCEPT ![w] = T]
  PROVE  tx'[w] = T /\ tx' = [tx EXCEPT ![w] = tx'[w]]
BY DEF IInv, TypeOK

\* The locks of a worker, and one on a row that it could lock.
LEMMA LocksFree ==
  ASSUME IInv, NEW w \in Worker, NEW e, LockFree(w, e)
  PROVE  \A v \in Worker \ {w} : tx[v].locks \cap (tx[w].locks \cup LockOf(w, e)) = {}
BY DEF IInv, LocksApart, LockFree, LockOf

LEMMA OperationStep ==
  ASSUME IInv, NEW w \in Worker, tx[w].stage \in AtWork,
         tx' = [tx EXCEPT ![w] = tx'[w]],
         UNCHANGED <<storeVars, seqCounter, replies>>,
         tx'[w] \in Transaction, TxFits(tx'[w]), tx'[w].request = tx[w].request,
         tx'[w].rows \subseteq tx[w].rows,
         \/ tx'[w].locks \subseteq tx[w].locks
         \/ \E e : LockFree(w, e) /\ tx'[w].locks = tx[w].locks \cup LockOf(w, e)
  PROVE  IInv'
<1>1. Alone(w)
  BY DEF Alone
<1>2. HoldsKey(w)
  BY DEF HoldsKey, AtWork
<1>3. KeepsKey(w)
  BY <1>2 DEF KeepsKey
<1>4. RepliesRead
  BY DEF RepliesRead
<1>5. \A v \in Worker \ {w} : tx[v].locks \cap tx'[w].locks = {}
  <2>1. CASE tx'[w].locks \subseteq tx[w].locks
    BY <2>1 DEF IInv, LocksApart
  <2>2. CASE \E e : LockFree(w, e) /\ tx'[w].locks = tx[w].locks \cup LockOf(w, e)
    <3>1. PICK e : LockFree(w, e) /\ tx'[w].locks = tx[w].locks \cup LockOf(w, e)
      BY <2>2
    <3> QED BY <3>1, LocksFree
  <2> QED BY <2>1, <2>2
<1> QED BY <1>1, <1>3, <1>4, <1>5, LocalStep

LEMMA CheckStep ==
  ASSUME IInv, NEW w \in Worker, Check(w)
  PROVE  IInv'
<1> DEFINE t == tx[w]
           m == At(w)
<1>1. /\ t.stage = "check" /\ t.stage \in AtWork
      /\ UNCHANGED <<storeVars, seqCounter, replies>>
  BY DEF Check, AtWork
<1>2. t \in Transaction /\ m \in Mutation
  BY <1>1, TxType, ResultType
<1>3. ASSUME NEW d \in Answer, d.op = m.op, d.status \notin Success, ~ d.evidence,
             tx' = [tx EXCEPT ![w] = [t EXCEPT !.stage = "record", !.draft = d]]
      PROVE  IInv'
  <2>1. tx'[w] = [t EXCEPT !.stage = "record", !.draft = d] /\ tx' = [tx EXCEPT ![w] = tx'[w]]
    BY <1>3, BecomeIs
  <2>2. /\ [t EXCEPT !.stage = "record", !.draft = d] \in Transaction
        /\ TxFits([t EXCEPT !.stage = "record", !.draft = d])
    BY <1>1, <1>3, SettledFits DEF Success
  <2>3. tx'[w].request = t.request /\ tx'[w].rows = t.rows /\ tx'[w].locks = t.locks
    BY <1>2, <2>1 DEF Transaction
  <2> QED BY <1>1, <2>1, <2>2, <2>3, OperationStep
<1>4. CASE tx' = [tx EXCEPT ![w] = [t EXCEPT !.stage = "record",
                                             !.draft = AnswerTo(m, "dependency_failed", 0)]]
  <2>1. /\ AnswerTo(m, "dependency_failed", 0) \in Answer
        /\ AnswerTo(m, "dependency_failed", 0).op = m.op
        /\ AnswerTo(m, "dependency_failed", 0).status \notin Success
    BY <1>2, MutationType DEF AnswerTo, Answer, Status, Success
  <2>2. ~ AnswerTo(m, "dependency_failed", 0).evidence
    BY DEF AnswerTo
  <2> QED BY <1>3, <1>4, <2>1, <2>2
<1>5. CASE tx' = [tx EXCEPT ![w] = [t EXCEPT !.stage = "record", !.draft = Rejected(m)]]
  <2>1. Rejected(m) \in Answer /\ Rejected(m).op = m.op /\ Rejected(m).status \notin Success
    BY <1>2, RejectedType DEF Success
  <2>2. ~ Rejected(m).evidence
    BY <1>2, RejectedType
  <2> QED BY <1>3, <1>5, <2>1, <2>2
<1>6. CASE /\ FailedDependencies(t, m) = {}
           /\ tx' = [tx EXCEPT ![w] = [t EXCEPT !.stage = "lookup"]]
  <2>1. tx'[w] = [t EXCEPT !.stage = "lookup"] /\ tx' = [tx EXCEPT ![w] = tx'[w]]
    BY <1>6, BecomeIs
  <2>2. [t EXCEPT !.stage = "lookup"] \in Transaction /\ TxFits([t EXCEPT !.stage = "lookup"])
    BY <1>1, <1>6, CheckPassedFits
  <2>3. tx'[w].request = t.request /\ tx'[w].rows = t.rows /\ tx'[w].locks = t.locks
    BY <1>2, <2>1 DEF Transaction
  <2> QED BY <1>1, <2>1, <2>2, <2>3, OperationStep
<1> QED BY <1>4, <1>5, <1>6 DEF Check, Become

LEMMA LookupStep ==
  ASSUME IInv, NEW w \in Worker, Lookup(w)
  PROVE  IInv'
<1>1. /\ tx[w].stage = "lookup" /\ tx[w].stage \in AtWork /\ LockFree(w, At(w).entity)
      /\ UNCHANGED <<storeVars, seqCounter, replies>>
      /\ tx' = [tx EXCEPT ![w] = LookedUp(w)]
  BY DEF Lookup, LookedUp, Become, AtWork
<1>2. tx'[w] = LookedUp(w) /\ tx' = [tx EXCEPT ![w] = tx'[w]]
  BY <1>1, BecomeIs
<1>3. /\ LookedUp(w) \in Transaction /\ TxFits(LookedUp(w))
      /\ LookedUp(w).locks = tx[w].locks \cup LockOf(w, At(w).entity)
  BY <1>1, LookupFits
<1>4. LookedUp(w).request = tx[w].request /\ LookedUp(w).rows = tx[w].rows
  BY TxType DEF LookedUp, Transaction
<1> QED BY <1>1, <1>2, <1>3, <1>4, OperationStep

LEMMA SettleStep ==
  ASSUME IInv, NEW w \in Worker, Settle(w)
  PROVE  IInv'
<1> DEFINE t == tx[w]
           m == At(w)
           c == Current(w, m.entity)
           noop == AnswerTo(m, "noop", c.version)
<1>1. t.stage = "apply" /\ t.stage \in AtWork /\ UNCHANGED <<storeVars, seqCounter, replies>>
  BY DEF Settle, AtWork
<1>2. t \in Transaction /\ m \in Mutation /\ m = MutationOf(t) /\ Visible(w) = Seen(t) /\ Progress(t)
  BY <1>1, TxType, ResultType, AtIs
<1>3. ASSUME NEW d \in Answer, d.op = m.op, d.status # "applied", ~ d.evidence,
             d.status \in Success => HasVersion(Visible(w), m.entity, d.version),
             tx' = [tx EXCEPT ![w] = [t EXCEPT !.stage = "record", !.draft = d]]
      PROVE  IInv'
  <2>1. tx'[w] = [t EXCEPT !.stage = "record", !.draft = d] /\ tx' = [tx EXCEPT ![w] = tx'[w]]
    BY <1>3, BecomeIs
  <2>2. /\ [t EXCEPT !.stage = "record", !.draft = d] \in Transaction
        /\ TxFits([t EXCEPT !.stage = "record", !.draft = d])
    BY <1>1, <1>3, SettledFits
  <2>3. tx'[w].request = t.request /\ tx'[w].rows = t.rows /\ tx'[w].locks = t.locks
    BY <1>2, <2>1 DEF Transaction
  <2> QED BY <1>1, <2>1, <2>2, <2>3, OperationStep
<1>4. CASE /\ InEffect(m, t.found, c)
           /\ tx' = [tx EXCEPT ![w] = [t EXCEPT !.stage = "record", !.draft = noop]]
  <2>1. t.found
    BY <1>4 DEF InEffect
  <2>2. c \in Visible(w) /\ c \in VersionRow /\ c.entity = m.entity
    BY <1>1, <1>2, <2>1, CurrentProperty DEF Progress
  <2>3. noop \in Answer /\ noop.op = m.op /\ noop.status # "applied" /\ noop.version = c.version
    BY <1>2, <2>2, MutationType DEF AnswerTo, Answer, Status, VersionRow
  <2>4. ~ noop.evidence
    BY DEF AnswerTo
  <2>5. HasVersion(Visible(w), m.entity, c.version)
    BY <2>2 DEF HasVersion
  <2> HIDE DEF noop, c
  <2>6. tx' = [tx EXCEPT ![w] = [t EXCEPT !.stage = "record", !.draft = noop]]
    BY <1>4 DEF noop, c
  <2> QED BY <1>3, <2>3, <2>4, <2>5, <2>6
<1>5. CASE tx' = [tx EXCEPT ![w] = [t EXCEPT !.stage = "record", !.draft = Rejected(m)]]
  <2>1. /\ Rejected(m) \in Answer /\ Rejected(m).op = m.op /\ Rejected(m).status # "applied"
        /\ Rejected(m).status \notin Success
    BY <1>2, RejectedType DEF Success
  <2>2. ~ Rejected(m).evidence
    BY <1>2, RejectedType
  <2> QED BY <1>3, <1>5, <2>1, <2>2
<1> QED BY <1>4, <1>5 DEF Settle, Become

LEMMA RollBackStep ==
  ASSUME IInv, NEW w \in Worker, tx[w].stage \in {"apply", "record"},
         UNCHANGED <<storeVars, seqCounter, replies>>,
         NEW c \in VersionRow \cup {Absent},
         c # Absent => c \in SeenBefore(tx[w]) /\ c.entity = At(w).entity,
         tx[w].stage = "record" => ResultTaken(At(w).op),
         tx' = [tx EXCEPT ![w] = [RolledBack(tx[w]) EXCEPT !.cached = c]]
  PROVE  IInv'
<1> DEFINE t == tx[w]
           T == [RolledBack(t) EXCEPT !.cached = c]
<1>1. t \in Transaction /\ TxFits(t) /\ Progress(t) /\ At(w) = MutationOf(t) /\ t.stage \in AtWork
  BY TxType, AtIs DEF AtWork
<1>2. /\ RolledBack(t) \in Transaction /\ RolledBack(t).stage = "handle"
      /\ RolledBack(t).request = t.request /\ RolledBack(t).answers = t.answers
      /\ RolledBack(t).rows = t.saved.rows /\ RolledBack(t).evidence = t.saved.evidence
      /\ RolledBack(t).locks = t.saved.locks /\ RolledBack(t).saved = t.saved
  BY <1>1, RolledBackFields
<1>3. /\ T \in Transaction /\ T.stage = "handle" /\ T.cached = c
      /\ T.request = t.request /\ T.answers = t.answers
      /\ T.rows = t.saved.rows /\ T.evidence = t.saved.evidence
      /\ T.locks = t.saved.locks /\ T.saved = t.saved
  BY <1>2 DEF Transaction
<1>4. tx'[w] = T /\ tx' = [tx EXCEPT ![w] = tx'[w]]
  BY BecomeIs
<1> HIDE DEF T
<1>5. FailedDependencies(t, MutationOf(t)) = {} \/ ResultTaken(MutationOf(t).op)
  BY <1>1 DEF Progress
<1>6. TxFits(T)
  BY <1>1, <1>3, <1>5, RolledBackFits
<1>7. T.rows \subseteq t.rows /\ T.locks \subseteq t.locks
  BY <1>1, <1>3 DEF TxFits, Progress, LocksFit
<1> QED BY <1>1, <1>3, <1>4, <1>6, <1>7, OperationStep

\* Without an entity in the identity map the handler reads it again.
LEMMA RolledBackUncached ==
  ASSUME NEW t \in Transaction, t.cached = Absent
  PROVE  [RolledBack(t) EXCEPT !.cached = Absent] = RolledBack(t)
BY DEF RolledBack, Transaction

\* The first version of an entity cannot be written while another transaction
\* holds a lock on a row of the entity.
LEMMA FirstIsUnlocked ==
  ASSUME IInv, NEW w \in Worker, NEW v \in Worker \ {w}, NEW r \in VersionRow, r.version = 1,
         RowFree(w, r), ~ RowTaken(r)
  PROVE  r.entity \notin tx[v].locks
<1> DEFINE t == tx[v]
           R == Seen(t)
<1>1. t \in Transaction /\ TxFits(t)
  BY TxType
<1>2. R \in SUBSET VersionRow /\ seqCounter \in Nat
  BY <1>1 DEF Seen, IInv, TypeOK, Transaction
<1>3. \A q \in R : q.version <= seqCounter
  <2>1. \A q \in R : q.version <= q.seq /\ q.seq <= seqCounter
    BY DEF IInv, SeqsDrawn, Seen
  <2> QED BY <1>2, <2>1 DEF VersionRow
<1>4. Chained(R, R)
  BY <1>1 DEF TxFits, IInv, Chained, Seen
<1>5. SUFFICES ASSUME RowsOf(R, r.entity) # {} PROVE FALSE
  BY <1>1 DEF TxFits, LocksFit
<1>6. PICK q \in R : q.entity = r.entity /\ q.version = 1
  BY <1>2, <1>3, <1>4, <1>5, FirstVersion
<1> QED BY <1>6 DEF Seen, RowFree, RowTaken, Clash

\* The operation of a mutation that is written has no row in its transaction yet.
LEMMA OperationIsNew ==
  ASSUME IInv, NEW w \in Worker, tx[w].stage = "apply"
  PROVE  \A q \in tx[w].rows : q.op # At(w).op
<1> DEFINE t == tx[w]
           ops == t.request.ops
           n == Len(t.answers)
<1>1. /\ t \in Transaction /\ TxFits(t) /\ Progress(t) /\ At(w) = ops[n + 1]
      /\ t.request \in Request /\ n \in Nat /\ n + 1 \in 1 .. Len(ops)
  BY TxType, AtIs, AtWorkType DEF AtWork, MutationOf
<1>2. DOMAIN t.answers = 1 .. n /\ DOMAIN ops = 1 .. Len(ops)
  BY <1>1, RequestType DEF Transaction
<1>3. t.rows = t.saved.rows /\ {r.op : r \in t.saved.rows} = AppliedOps(t.answers)
  BY <1>1 DEF Progress, TxFits, Backed
<1> SUFFICES ASSUME NEW q \in t.rows, q.op = At(w).op PROVE FALSE
  OBVIOUS
<1>4. PICK i \in 1 .. n : t.answers[i].op = q.op
  BY <1>2, <1>3 DEF AppliedOps
<1>5. ops[i].op = ops[n + 1].op /\ i \in DOMAIN ops
  BY <1>1, <1>2, <1>4 DEF TxFits, Backed, AnswersFit
<1>6. i = n + 1
  BY <1>1, <1>2, <1>5, RequestAssumption
<1> QED BY <1>1, <1>6

LEMMA AcceptStep ==
  ASSUME IInv, NEW w \in Worker, Accept(w)
  PROVE  IInv'
<1> DEFINE t == tx[w]
           m == At(w)
           r == NewRow(w)
<1>1. /\ t.stage = "apply" /\ t.stage \in AtWork /\ UNCHANGED <<storeVars, replies>>
      /\ Acceptable(m, t.found, Current(w, m.entity)) /\ RowFree(w, r)
  BY DEF Accept, AtWork, NewRow
<1>2. /\ t \in Transaction /\ TxFits(t) /\ Progress(t) /\ seqCounter \in Nat
      /\ tx \in [Worker -> Transaction]
  BY TxType DEF IInv, TypeOK
<1>3. CASE RowTaken(r) /\ tx' = [tx EXCEPT ![w] = RolledBack(t)] /\ UNCHANGED seqCounter
  <2>1. t.cached = Absent
    BY <1>1, <1>2 DEF Progress, Handling
  <2>2. [RolledBack(t) EXCEPT !.cached = Absent] = RolledBack(t)
    BY <1>2, <2>1, RolledBackUncached
  <2> QED BY <1>1, <1>3, <2>2, RollBackStep
<1>4. CASE ~ RowTaken(r) /\ seqCounter' = r.seq /\ tx' = [tx EXCEPT ![w] = Written(w)]
  <2> DEFINE T == Written(w)
  <2>1. tx'[w] = T /\ tx' = [tx EXCEPT ![w] = tx'[w]]
    BY <1>4, BecomeIs
  <2>2. /\ T \in Transaction /\ TxFits(T) /\ T.rows = t.rows \cup {r}
        /\ T.locks = t.locks \cup {m.entity} /\ T.request = t.request
    BY <1>1, WrittenFits
  <2>3. /\ r \in VersionRow /\ r.entity = m.entity /\ r.op = m.op /\ r.seq = seqCounter + 1
        /\ r.version <= r.seq
        /\ \A q \in t.rows : q.entity = m.entity => q.version # r.version
        /\ ~ t.found => r.version = 1
        /\ t.found => m.entity \in t.locks
    BY <1>1, NewRowProperty
  <2> HIDE DEF T, r
  <2>4. /\ versions' = versions /\ seqCounter' = seqCounter + 1
        /\ \A v \in Worker : v # w => tx'[v] = tx[v]
        /\ tx'[w].rows = t.rows \cup {r} /\ tx'[w].locks = t.locks \cup {m.entity}
    BY <1>1, <1>4, <2>1, <2>2, <2>3 DEF storeVars
  <2>5. Alone(w) /\ KeepsKey(w) /\ RepliesRead /\ seqCounter' \in Nat
    BY <1>1, <1>2, <2>1, <2>2, <2>4 DEF Alone, KeepsKey, RepliesRead, HoldsKey, AtWork
  <2>6. RowsApart'
    <3>1. \A q \in t.rows : ~ Clash(q, r)
      BY <1>1, <2>3, OperationIsNew DEF Clash
    <3>2. \A q \in versions : ~ Clash(q, r)
      BY <1>4 DEF RowTaken
    <3>3. \A v \in Worker \ {w} : \A q \in tx[v].rows : ~ Clash(q, r)
      BY <1>1 DEF RowFree
    <3>4. \A p, q : Clash(p, q) <=> Clash(q, p)
      BY DEF Clash
    <3>5. \A p, q \in versions : Clash(p, q) => p = q
      BY DEF IInv, RowsApart
    <3>6. \A u \in Worker : \A p \in tx[u].rows :
            /\ \A q \in versions : ~ Clash(q, p)
            /\ \A q \in tx[u].rows : Clash(q, p) => q = p
            /\ \A v \in Worker \ {u} : \A q \in tx[v].rows : ~ Clash(q, p)
      BY DEF IInv, RowsApart
    <3>7. ASSUME NEW u \in Worker, NEW p \in tx'[u].rows
          PROVE  /\ \A q \in versions : ~ Clash(q, p)
                 /\ \A q \in tx'[u].rows : Clash(q, p) => q = p
                 /\ \A v \in Worker \ {u} : \A q \in tx'[v].rows : ~ Clash(q, p)
      <4>1. CASE u = w
        BY <2>4, <3>1, <3>2, <3>3, <3>4, <3>6, <3>7, <4>1
      <4>2. CASE u # w
        BY <2>4, <3>1, <3>2, <3>3, <3>4, <3>6, <3>7, <4>2
      <4> QED BY <4>1, <4>2
    <3> QED BY <2>4, <3>5, <3>7 DEF RowsApart
  <2>7. SeqsDrawn'
    <3>1. /\ \A q \in versions : q.version <= q.seq /\ q.seq <= seqCounter /\ q.seq \in Nat
          /\ \A v \in Worker : \A q \in tx[v].rows :
               q.version <= q.seq /\ q.seq <= seqCounter /\ q.seq \in Nat
      BY <1>2 DEF IInv, SeqsDrawn, TypeOK, Transaction, VersionRow
    <3>2. \A q : q.seq \in Nat /\ q.seq <= seqCounter => q.seq <= seqCounter + 1
      BY <1>2
    <3>3. r.version <= r.seq /\ r.seq <= seqCounter + 1
      BY <1>2, <2>3
    <3>4. ASSUME NEW v \in Worker, NEW q \in tx'[v].rows
          PROVE  q.version <= q.seq /\ q.seq <= seqCounter + 1
      BY <2>4, <3>1, <3>2, <3>3, <3>4
    <3> QED BY <2>4, <3>1, <3>2, <3>4 DEF SeqsDrawn
  <2>8. FiniteRows'
    <3>1. IsFiniteSet(t.rows \cup {r})
      BY FS_AddElement DEF IInv, FiniteRows
    <3> QED BY <2>4, <3>1 DEF IInv, FiniteRows
  <2>9. LocksApart'
    <3>1. ASSUME NEW v \in Worker \ {w} PROVE m.entity \notin tx[v].locks
      <4>1. CASE t.found
        BY <2>3, <4>1 DEF IInv, LocksApart
      <4>2. CASE ~ t.found
        BY <1>1, <1>4, <2>3, <4>2, FirstIsUnlocked
      <4> QED BY <4>1, <4>2
    <3> QED BY <2>4, <3>1 DEF IInv, LocksApart
  <2>10. /\ TypeOK' /\ Chained(versions, versions)' /\ KeysApart' /\ RepliesStored'
         /\ BatchesFit' /\ ConflictsFit'
         /\ \A v \in Worker : TxFits(tx[v])'
    BY <2>5, AloneKeeps
  <2> QED BY <2>6, <2>7, <2>8, <2>9, <2>10 DEF IInv
<1> QED BY <1>1, <1>3, <1>4 DEF Accept, Become, NewRow, Written

LEMMA DivergeStep ==
  ASSUME IInv, NEW w \in Worker, Diverge(w)
  PROVE  IInv'
<1> DEFINE m == At(w)
           c == Current(w, m.entity)
<1>1. /\ tx[w].stage = "apply" /\ tx[w].stage \in AtWork
      /\ Diverged(m, tx[w].found, c)
      /\ UNCHANGED <<storeVars, seqCounter, replies>>
  BY DEF Diverge, AtWork
<1>2. /\ tx[w] \in Transaction /\ Progress(tx[w]) /\ m = MutationOf(tx[w])
      /\ Visible(w) = Seen(tx[w])
  BY TxType, AtIs
<1>3. RowsOf(Visible(w), m.entity) # {}
  BY <1>1, <1>2 DEF Diverged, Progress
<1>4. c \in Visible(w) /\ c \in VersionRow /\ c.entity = m.entity
  BY <1>3, CurrentProperty
<1> HIDE DEF c
<1>5. CASE ConflictStored(w, m, c) /\ tx' = [tx EXCEPT ![w] = Conflicted(w, c)]
  <2>1. tx'[w] = Conflicted(w, c) /\ tx' = [tx EXCEPT ![w] = tx'[w]]
    BY <1>5, BecomeIs
  <2>2. /\ Conflicted(w, c) \in Transaction /\ TxFits(Conflicted(w, c))
        /\ Conflicted(w, c).rows = tx[w].rows /\ Conflicted(w, c).locks = tx[w].locks
    BY <1>1, <1>4, <1>5, ConflictedFits
  <2>3. Conflicted(w, c).request = tx[w].request
    BY <1>2 DEF Conflicted, Transaction
  <2> QED BY <1>1, <2>1, <2>2, <2>3, OperationStep
<1>6. CASE tx' = [tx EXCEPT ![w] = [RolledBack(tx[w]) EXCEPT !.cached = c]]
  <2>1. c \in SeenBefore(tx[w])
    BY <1>1, <1>2, <1>4 DEF Progress, Seen, SeenBefore
  <2> QED BY <1>1, <1>4, <1>6, <2>1, RollBackStep
<1> QED BY <1>5, <1>6 DEF Diverge, Become, Conflicted, c

LEMMA RecordStep ==
  ASSUME IInv, NEW w \in Worker, Record(w)
  PROVE  IInv'
<1>1. /\ tx[w].stage = "record" /\ tx[w].stage \in AtWork
      /\ UNCHANGED <<storeVars, seqCounter, replies>>
  BY DEF Record, AtWork
<1>2. tx[w] \in Transaction /\ Progress(tx[w])
  BY TxType
<1>3. CASE tx' = [tx EXCEPT ![w] = Answered(WithResult(w), tx[w].draft)]
  <2> DEFINE T == Answered(WithResult(w), tx[w].draft)
  <2>1. tx'[w] = T /\ tx' = [tx EXCEPT ![w] = tx'[w]]
    BY <1>3, BecomeIs
  <2>2. /\ T \in Transaction /\ TxFits(T) /\ T.rows = tx[w].rows /\ T.locks = tx[w].locks
        /\ T.request = tx[w].request
    BY <1>1, RecordedFits
  <2> HIDE DEF T
  <2> QED BY <1>1, <2>1, <2>2, OperationStep
<1>4. CASE ResultTaken(At(w).op) /\ tx' = [tx EXCEPT ![w] = RolledBack(tx[w])]
  <2>1. tx[w].cached = Absent
    BY <1>1, <1>2 DEF Progress, Handling
  <2>2. [RolledBack(tx[w]) EXCEPT !.cached = Absent] = RolledBack(tx[w])
    BY <1>2, <2>1, RolledBackUncached
  <2> QED BY <1>1, <1>4, <2>2, RollBackStep
<1> QED BY <1>3, <1>4 DEF Record, Become, WithResult

LEMMA HandleStep ==
  ASSUME IInv, NEW w \in Worker, Handle(w)
  PROVE  IInv'
<1>1. /\ tx[w].stage = "handle" /\ tx[w].stage \in AtWork /\ tx[w].stage \in Handling
      /\ UNCHANGED <<storeVars, seqCounter, replies>>
  BY DEF Handle, AtWork, Handling
<1>2. tx[w] \in Transaction
  BY TxType
<1>3. CASE tx' = [tx EXCEPT ![w] = Answered(tx[w], Rejected(At(w)))]
  <2> DEFINE T == Answered(tx[w], Rejected(At(w)))
  <2>1. tx'[w] = T /\ tx' = [tx EXCEPT ![w] = tx'[w]]
    BY <1>3, BecomeIs
  <2>2. /\ T \in Transaction /\ TxFits(T) /\ T.rows = tx[w].rows /\ T.locks = tx[w].locks
        /\ T.request = tx[w].request
    BY <1>1, HandledFits
  <2> HIDE DEF T
  <2> QED BY <1>1, <2>1, <2>2, OperationStep
<1>4. CASE ~ ResultTaken(At(w).op) /\ tx' = [tx EXCEPT ![w] = [tx[w] EXCEPT !.stage = "rehandle"]]
  <2> DEFINE T == [tx[w] EXCEPT !.stage = "rehandle"]
  <2>1. tx'[w] = T /\ tx' = [tx EXCEPT ![w] = tx'[w]]
    BY <1>4, BecomeIs
  <2>2. T \in Transaction /\ TxFits(T)
    BY <1>1, <1>4, HandlerStageFits
  <2>3. T.rows = tx[w].rows /\ T.locks = tx[w].locks /\ T.request = tx[w].request
    BY <1>2 DEF Transaction
  <2> HIDE DEF T
  <2> QED BY <1>1, <2>1, <2>2, <2>3, OperationStep
<1> QED BY <1>3, <1>4 DEF Handle, Become

LEMMA RehandleStep ==
  ASSUME IInv, NEW w \in Worker, Rehandle(w)
  PROVE  IInv'
<1>1. /\ tx[w].stage = "rehandle" /\ tx[w].stage \in AtWork /\ tx[w].stage \in Handling
      /\ LockFree(w, At(w).entity)
      /\ UNCHANGED <<storeVars, seqCounter, replies>>
  BY DEF Rehandle, AtWork, Handling
<1>2. tx[w] \in Transaction
  BY TxType
<1>3. CASE /\ Retried(w, At(w)).evidence => BaselineHolds(w, At(w), Known(w, At(w)))
           /\ tx' = [tx EXCEPT ![w] = Answered(WithRetry(w), Retried(w, At(w)))]
  <2> DEFINE T == Answered(WithRetry(w), Retried(w, At(w)))
  <2>1. tx'[w] = T /\ tx' = [tx EXCEPT ![w] = tx'[w]]
    BY <1>3, BecomeIs
  <2>2. /\ T \in Transaction /\ TxFits(T) /\ T.rows = tx[w].rows
        /\ T.locks = tx[w].locks \cup LockOf(w, At(w).entity) /\ T.request = tx[w].request
    BY <1>1, <1>3, RetriedFits
  <2> HIDE DEF T
  <2> QED BY <1>1, <2>1, <2>2, OperationStep
<1>4. CASE tx' = [tx EXCEPT ![w] = [tx[w] EXCEPT !.stage = "failed"]]
  <2> DEFINE T == [tx[w] EXCEPT !.stage = "failed"]
  <2>1. tx'[w] = T /\ tx' = [tx EXCEPT ![w] = tx'[w]]
    BY <1>4, BecomeIs
  <2>2. T \in Transaction /\ TxFits(T)
    BY <1>1, HandlerStageFits
  <2>3. T.rows = tx[w].rows /\ T.locks = tx[w].locks /\ T.request = tx[w].request
    BY <1>2 DEF Transaction
  <2> HIDE DEF T
  <2> QED BY <1>1, <2>1, <2>2, <2>3, OperationStep
<1> QED BY <1>3, <1>4 DEF Rehandle, Become, WithRetry

-----------------------------------------------------------------------------
(* The steps of a transaction.                                             *)

\* A worker without a transaction, or with a new one, disturbs nobody.
LEMMA RestartStep ==
  ASSUME IInv, NEW w \in Worker, UNCHANGED <<storeVars, seqCounter>>,
         tx' = [tx EXCEPT ![w] = tx'[w]], tx'[w] \in Transaction, TxFits(tx'[w]),
         tx'[w].rows = {}, tx'[w].locks = {}, KeepsKey(w), RepliesRead
  PROVE  IInv'
<1>1. Alone(w) /\ UNCHANGED seqCounter
  BY DEF Alone
<1>2. \A v \in Worker \ {w} : tx[v].locks \cap tx'[w].locks = {}
  OBVIOUS
<1> QED BY <1>1, <1>2, LocalStep

\* What a settled batch answers.
LEMMA ReplyForFits ==
  ASSUME IInv, NEW r \in Request, replies' = replies \cup ReplyFor(r)
  PROVE  RepliesRead
<1> SUFFICES ASSUME NEW p \in ReplyFor(r)
             PROVE  /\ p \in [request : Request, answers : Seq(Answer)]
                    /\ batches[p.request.key] = p /\ p # NoBatch
  BY DEF RepliesRead
<1>1. r \in Request /\ r # NoRequest /\ r.key \in Key
  BY RequestType
<1>2. batches[r.key] \in Batch
  BY <1>1 DEF IInv, TypeOK
<1>3. batches[r.key].request = r /\ p = [request |-> r, answers |-> batches[r.key].answers]
  BY DEF ReplyFor
<1>4. p = batches[r.key]
  BY <1>2, <1>3 DEF Batch
<1> QED BY <1>1, <1>2, <1>3, <1>4 DEF Batch, NoBatch

LEMMA BeginStep ==
  ASSUME IInv, NEW w \in Worker, NEW r \in Request, Begin(w, r)
  PROVE  IInv'
<1>1. tx[w].stage = "idle" /\ UNCHANGED <<storeVars, seqCounter>>
  BY DEF Begin
<1>2. CASE tx' = [tx EXCEPT ![w] = Fresh("claim", r)] /\ UNCHANGED replies
  <2> DEFINE T == Fresh("claim", r)
  <2>1. tx'[w] = T /\ tx' = [tx EXCEPT ![w] = tx'[w]]
    BY <1>2, BecomeIs
  <2>2. /\ T \in Transaction /\ TxFits(T)
        /\ T.rows = {} /\ T.locks = {} /\ T.stage = "claim"
    BY FreshFits
  <2> HIDE DEF T
  <2>3. KeepsKey(w) /\ RepliesRead
    BY <1>2, <2>1, <2>2 DEF KeepsKey, RepliesRead, HoldsKey
  <2> QED BY <1>1, <2>1, <2>2, <2>3, RestartStep
<1>3. CASE replies' = replies \cup ReplyFor(r) /\ UNCHANGED tx
  <2>1. RepliesRead
    BY <1>3, ReplyForFits
  <2>2. tx[w] \in Transaction /\ TxFits(tx[w]) /\ tx[w].rows = {} /\ tx[w].locks = {}
    BY <1>1, TxType DEF Progress
  <2>3. tx' = [tx EXCEPT ![w] = tx'[w]] /\ tx'[w] = tx[w]
    BY <1>3 DEF IInv, TypeOK
  <2>4. KeepsKey(w)
    BY <1>1, <2>3 DEF KeepsKey, HoldsKey
  <2> QED BY <1>1, <2>1, <2>2, <2>3, <2>4, RestartStep
<1> QED BY <1>2, <1>3 DEF Begin, Become

LEMMA ClaimStep ==
  ASSUME IInv, NEW w \in Worker, ClaimBatch(w)
  PROVE  IInv'
<1> DEFINE r == tx[w].request
<1>1. /\ tx[w].stage = "claim" /\ ~ KeyClaimed(w, r.key) /\ UNCHANGED <<storeVars, seqCounter>>
  BY DEF ClaimBatch
<1>2. r \in Request
  BY <1>1, TxType DEF Progress
<1> HIDE DEF r
<1>3. CASE /\ batches[r.key] = NoBatch /\ UNCHANGED replies
           /\ tx' = [tx EXCEPT ![w] = Fresh(IF r.ops = <<>> THEN "commit" ELSE "check", r)]
  <2> DEFINE stage == IF r.ops = <<>> THEN "commit" ELSE "check"
             T == Fresh(stage, r)
  <2>1. tx'[w] = T /\ tx' = [tx EXCEPT ![w] = tx'[w]]
    BY <1>3, BecomeIs
  <2>2. /\ T \in Transaction /\ TxFits(T)
        /\ T.rows = {} /\ T.locks = {} /\ T.request = r
    BY <1>2, FreshFits
  <2> HIDE DEF T
  <2>3. \A v \in Worker \ {w} : HoldsKey(v) => tx[v].request.key # r.key
    BY <1>1 DEF KeyClaimed, HoldsKey
  <2>4. KeepsKey(w)
    BY <1>3, <2>1, <2>2, <2>3 DEF KeepsKey
  <2>5. RepliesRead
    BY <1>3 DEF RepliesRead
  <2> QED BY <1>1, <2>1, <2>2, <2>4, <2>5, RestartStep
<1>4. CASE replies' = replies \cup ReplyFor(r) /\ tx' = [tx EXCEPT ![w] = Idle]
  <2>1. tx'[w] = Idle /\ tx' = [tx EXCEPT ![w] = tx'[w]]
    BY <1>4, BecomeIs
  <2>2. RepliesRead
    BY <1>2, <1>4, ReplyForFits
  <2>3. KeepsKey(w)
    BY <2>1, IdleFits DEF KeepsKey, HoldsKey
  <2> QED BY <1>1, <2>1, <2>2, <2>3, IdleFits, RestartStep
<1> QED BY <1>3, <1>4 DEF ClaimBatch, Become, r

LEMMA AbortStep ==
  ASSUME IInv, NEW w \in Worker, Abort(w)
  PROVE  IInv'
<1>1. UNCHANGED <<storeVars, seqCounter, replies>>
  BY DEF Abort
<1>2. tx'[w] = Idle /\ tx' = [tx EXCEPT ![w] = tx'[w]]
  <2>1. tx' = [tx EXCEPT ![w] = Idle]
    BY DEF Abort, Become
  <2> QED BY <2>1, BecomeIs
<1>3. KeepsKey(w) /\ RepliesRead
  BY <1>1, <1>2, IdleFits DEF KeepsKey, HoldsKey, RepliesRead
<1> QED BY <1>1, <1>2, <1>3, IdleFits, RestartStep

\* More rows and more conflicts keep the answers of a batch fitting.
LEMMA AnswersFitKept ==
  ASSUME NEW ops, NEW answers, NEW R, NEW E, NEW S, NEW F, R \subseteq S, E \subseteq F,
         AnswersFit(ops, answers, R, E)
  PROVE  AnswersFit(ops, answers, S, F)
<1>1. \A e, n : HasVersion(R, e, n) => HasVersion(S, e, n)
  BY DEF HasVersion
<1> QED BY <1>1 DEF AnswersFit

LEMMA CommitStep ==
  ASSUME IInv, NEW w \in Worker, Commit(w)
  PROVE  IInv'
<1> DEFINE t == tx[w]
           k == t.request.key
           reply == [request |-> t.request, answers |-> t.answers]
<1>1. /\ t.stage = "commit"
      /\ versions' = versions \cup t.rows /\ results' = results \cup t.recorded
      /\ conflicts' = conflicts \cup t.evidence
      /\ batches' = [batches EXCEPT ![k] = reply]
      /\ replies' = replies \cup {reply}
      /\ seqCounter' = seqCounter
      /\ tx' = [tx EXCEPT ![w] = Idle]
  BY DEF Commit, Become
<1>2. /\ t \in Transaction /\ TxFits(t) /\ Progress(t) /\ t.request \in Request
      /\ t.rows = t.saved.rows /\ t.evidence = t.saved.evidence
  BY <1>1, TxType DEF Progress
<1>3. k \in Key /\ t.request # NoRequest
  BY <1>2, RequestType
<1>4. /\ TypeOK
      /\ batches \in [Key -> Batch] /\ tx \in [Worker -> Transaction]
  BY DEF IInv, TypeOK
<1>5. /\ batches'[k] = reply
      /\ \A x \in Key : x # k => batches'[x] = batches[x]
      /\ tx'[w] = Idle
      /\ \A v \in Worker : v # w => tx'[v] = tx[v]
  BY <1>1, <1>3, <1>4
<1>6. /\ reply \in [request : Request, answers : Seq(Answer)] /\ reply \in Batch
      /\ reply # NoBatch /\ reply.request = t.request /\ reply.answers = t.answers
  BY <1>2, <1>3 DEF Transaction, Batch, NoBatch
<1>7. batches[k] = NoBatch /\ \A v \in Worker \ {w} : HoldsKey(v) => tx[v].request.key # k
  BY <1>1 DEF IInv, KeysApart, HoldsKey
<1> HIDE DEF k, reply
<1>8. Idle \in Transaction /\ Idle.rows = {} /\ Idle.locks = {} /\ Idle.stage = "idle" /\ TxFits(Idle)
  BY IdleFits
<1>9. TypeOK'
  BY <1>1, <1>2, <1>4, <1>6, <1>8 DEF TypeOK, Transaction
<1>10. RowsApart'
  <2>1. /\ \A p, q \in versions : Clash(p, q) => p = q
        /\ \A p, q : Clash(p, q) <=> Clash(q, p)
        /\ \A u \in Worker : \A p \in tx[u].rows :
             /\ \A q \in versions : ~ Clash(q, p)
             /\ \A q \in tx[u].rows : Clash(q, p) => q = p
             /\ \A v \in Worker \ {u} : \A q \in tx[v].rows : ~ Clash(q, p)
    BY DEF IInv, RowsApart, Clash
  <2>2. \A p, q \in versions' : Clash(p, q) => p = q
    BY <1>1, <2>1
  <2>3. ASSUME NEW u \in Worker, NEW p \in tx'[u].rows
        PROVE  /\ \A q \in versions' : ~ Clash(q, p)
               /\ \A q \in tx'[u].rows : Clash(q, p) => q = p
               /\ \A v \in Worker \ {u} : \A q \in tx'[v].rows : ~ Clash(q, p)
    <3>1. u # w /\ tx'[u] = tx[u] /\ p \in tx[u].rows
      BY <1>5, <1>8, <2>3
    <3>2. \A q \in t.rows : ~ Clash(q, p)
      BY <2>1, <3>1
    <3>3. \A v \in Worker \ {u} : \A q \in tx'[v].rows : ~ Clash(q, p)
      BY <1>5, <1>8, <2>1, <3>1
    <3> QED BY <1>1, <2>1, <3>1, <3>2, <3>3
  <2> QED BY <2>2, <2>3 DEF RowsApart
<1>11. SeqsDrawn'
  BY <1>1, <1>5, <1>8 DEF IInv, SeqsDrawn
<1>12. FiniteRows'
  <2>1. IsFiniteSet(versions \cup t.rows)
    BY FS_Union DEF IInv, FiniteRows
  <2>2. IsFiniteSet({})
    BY FS_EmptySet
  <2> QED BY <1>1, <1>5, <1>8, <2>1, <2>2 DEF IInv, FiniteRows
<1>13. Chained(versions, versions)'
  BY <1>1, <1>2 DEF IInv, TxFits, Chained, Seen
<1>14. \A v \in Worker : v # w => (HoldsKey(v)' <=> HoldsKey(v))
  BY <1>5 DEF HoldsKey
<1>15. ~ HoldsKey(w)'
  BY <1>5, <1>8 DEF HoldsKey
<1>16. KeysApart'
  <2>1. \A v \in Worker : HoldsKey(v) =>
          /\ batches[tx[v].request.key] = NoBatch
          /\ \A u \in Worker \ {v} : HoldsKey(u) => tx[u].request.key # tx[v].request.key
    BY DEF IInv, KeysApart
  <2>2. \A v \in Worker : HoldsKey(v) => tx[v].request.key \in Key
    BY TxType, RequestType DEF HoldsKey, Progress
  <2>3. ASSUME NEW v \in Worker, HoldsKey(v)'
        PROVE  /\ batches'[tx'[v].request.key] = NoBatch
               /\ \A u \in Worker \ {v} : HoldsKey(u)' => tx'[u].request.key # tx'[v].request.key
    BY <1>5, <1>7, <1>14, <1>15, <2>1, <2>2, <2>3
  <2> QED BY <2>3 DEF KeysApart
<1>17. RepliesStored'
  <2>1. ASSUME NEW p \in replies PROVE batches'[p.request.key] = p /\ p # NoBatch
    <3>1. batches[p.request.key] = p /\ p # NoBatch
      BY DEF IInv, RepliesStored
    <3>2. p.request.key \in Key
      BY <1>4, RequestType DEF TypeOK
    <3> QED BY <1>5, <1>7, <3>1, <3>2
  <2>2. batches'[reply.request.key] = reply
    BY <1>5, <1>6 DEF k
  <2> QED BY <1>1, <1>6, <2>1, <2>2 DEF RepliesStored
<1>18. LocksApart'
  BY <1>5, <1>8 DEF IInv, LocksApart
<1>19. BatchesFit'
  <2>1. ASSUME NEW x \in Key
        PROVE  /\ AnswersFit(batches'[x].request.ops, batches'[x].answers, versions', conflicts')
               /\ batches'[x] # NoBatch => batches'[x].request \in Request /\ batches'[x].request.key = x
    <3>1. CASE x = k
      <4>1. batches'[x].request = t.request /\ batches'[x].answers = t.answers
        BY <1>5, <1>6, <3>1
      <4>2. AnswersFit(t.request.ops, t.answers, SeenBefore(t), t.saved.evidence)
        BY <1>2 DEF TxFits, Backed
      <4>3. SeenBefore(t) \subseteq versions' /\ t.saved.evidence \subseteq conflicts'
        BY <1>1, <1>2 DEF SeenBefore
      <4>4. AnswersFit(t.request.ops, t.answers, versions', conflicts')
        BY <4>2, <4>3, AnswersFitKept
      <4> QED BY <1>2, <3>1, <4>1, <4>4 DEF k
    <3>2. CASE x # k
      <4>1. batches'[x] = batches[x]
        BY <1>5, <3>2
      <4>2. /\ AnswersFit(batches[x].request.ops, batches[x].answers, versions, conflicts)
            /\ batches[x] # NoBatch => batches[x].request \in Request /\ batches[x].request.key = x
        BY DEF IInv, BatchesFit
      <4>3. versions \subseteq versions' /\ conflicts \subseteq conflicts'
        BY <1>1
      <4>4. AnswersFit(batches[x].request.ops, batches[x].answers, versions', conflicts')
        BY <4>2, <4>3, AnswersFitKept
      <4> QED BY <4>1, <4>2, <4>4
    <3> QED BY <3>1, <3>2
  <2> QED BY <2>1 DEF BatchesFit
<1>20. ConflictsFit'
  <2>1. ASSUME NEW c \in conflicts
        PROVE  /\ HasVersion(versions', c.entity, c.cloud)
               /\ \E x \in Key : AnsweredWith(batches'[x].request.ops, batches'[x].answers, c)
    <3>1. /\ HasVersion(versions, c.entity, c.cloud)
          /\ \E x \in Key : AnsweredWith(batches[x].request.ops, batches[x].answers, c)
      BY DEF IInv, ConflictsFit
    <3>2. PICK x \in Key : AnsweredWith(batches[x].request.ops, batches[x].answers, c)
      BY <3>1
    <3>3. x # k
      BY <1>7, <3>2 DEF AnsweredWith, NoBatch
    <3> QED BY <1>1, <1>5, <3>1, <3>2, <3>3 DEF HasVersion
  <2>2. ASSUME NEW c \in t.evidence
        PROVE  /\ HasVersion(versions', c.entity, c.cloud)
               /\ \E x \in Key : AnsweredWith(batches'[x].request.ops, batches'[x].answers, c)
    <3>1. HasVersion(SeenBefore(t), c.entity, c.cloud) /\ AnsweredWith(t.request.ops, t.answers, c)
      BY <1>2 DEF TxFits, Backed
    <3>2. AnsweredWith(batches'[k].request.ops, batches'[k].answers, c)
      BY <1>5, <1>6, <3>1
    <3> QED BY <1>1, <1>2, <1>3, <3>1, <3>2 DEF HasVersion, SeenBefore, k
  <2> QED BY <1>1, <2>1, <2>2 DEF ConflictsFit
<1>21. ASSUME NEW v \in Worker PROVE TxFits(tx[v])'
  <2>1. TxFits(tx'[v])
    BY <1>5, <1>8 DEF IInv
  <2> QED BY <1>1, <2>1, FitsKept
<1> QED BY <1>9, <1>10, <1>11, <1>12, <1>13, <1>16, <1>17, <1>18, <1>19, <1>20, <1>21 DEF IInv

-----------------------------------------------------------------------------
(* The invariant.                                                          *)

LEMMA InitFits == Init => IInv
<1> SUFFICES ASSUME Init PROVE IInv
  OBVIOUS
<1>1. Idle \in Transaction /\ TxFits(Idle) /\ Idle.rows = {} /\ Idle.locks = {} /\ Idle.stage = "idle"
  BY IdleFits
<1>2. \A w \in Worker : tx[w] = Idle
  BY DEF Init
<1>3. NoBatch \in Batch /\ NoBatch.answers = <<>>
  BY DEF NoBatch, Batch
<1>4. TypeOK
  BY <1>1, <1>3 DEF Init, TypeOK
<1>5. RowsApart /\ SeqsDrawn /\ KeysApart /\ LocksApart
  BY <1>1, <1>2 DEF Init, RowsApart, SeqsDrawn, KeysApart, LocksApart, HoldsKey
<1>6. FiniteRows
  BY <1>1, <1>2, FS_EmptySet DEF Init, FiniteRows
<1>7. Chained(versions, versions) /\ RepliesStored /\ ConflictsFit
  BY DEF Init, Chained, RepliesStored, ConflictsFit
<1>8. BatchesFit
  BY <1>3 DEF Init, BatchesFit, AnswersFit
<1> QED BY <1>1, <1>2, <1>4, <1>5, <1>6, <1>7, <1>8 DEF IInv

LEMMA StutterKeeps == ASSUME IInv, UNCHANGED vars PROVE IInv'
<1>1. /\ versions' = versions /\ results' = results /\ conflicts' = conflicts /\ batches' = batches
      /\ seqCounter' = seqCounter /\ tx' = tx /\ replies' = replies
  BY DEF vars
<1>2. TypeOK' /\ RowsApart' /\ SeqsDrawn' /\ FiniteRows' /\ RepliesStored' /\ LocksApart'
  BY <1>1 DEF IInv, TypeOK, RowsApart, SeqsDrawn, FiniteRows, RepliesStored, LocksApart
<1>3. KeysApart'
  BY <1>1 DEF IInv, KeysApart, HoldsKey
<1>4. Chained(versions, versions)' /\ BatchesFit' /\ ConflictsFit'
  BY <1>1 DEF IInv, BatchesFit, ConflictsFit
<1>5. ASSUME NEW w \in Worker PROVE TxFits(tx[w])'
  <2>1. TxFits(tx'[w])
    BY <1>1 DEF IInv
  <2> QED BY <1>1, <2>1, FitsKept
<1> QED BY <1>2, <1>3, <1>4, <1>5 DEF IInv

LEMMA StepKeeps == IInv /\ [Next]_vars => IInv'
<1> SUFFICES ASSUME IInv, [Next]_vars PROVE IInv'
  OBVIOUS
<1>1. CASE UNCHANGED vars
  BY <1>1, StutterKeeps
<1>2. ASSUME NEW w \in Worker, NEW r \in Request, Begin(w, r) PROVE IInv'
  BY <1>2, BeginStep
<1>3. ASSUME NEW w \in Worker, ClaimBatch(w) PROVE IInv'
  BY <1>3, ClaimStep
<1>4. ASSUME NEW w \in Worker, Operate(w) PROVE IInv'
  BY <1>4, CheckStep, LookupStep, AcceptStep, SettleStep, DivergeStep, RecordStep, HandleStep,
     RehandleStep DEF Operate
<1>5. ASSUME NEW w \in Worker, Commit(w) PROVE IInv'
  BY <1>5, CommitStep
<1>6. ASSUME NEW w \in Worker, Abort(w) PROVE IInv'
  BY <1>6, AbortStep
<1> QED BY <1>1, <1>2, <1>3, <1>4, <1>5, <1>6 DEF Next

\* The invariant of the push transaction: unique keys, linear histories, locks
\* and batch keys held apart, and every open transaction backing what it will
\* answer.
THEOREM Invariance == Spec => []IInv
BY InitFits, StepKeeps, PTL DEF Spec

-----------------------------------------------------------------------------
(* What the runs check.                                                    *)

\* Every variable has its type, the history of each entity is linear, and all
\* the replies to a batch key agree, however requests race and transactions end.
THEOREM ConsistentAlways == Spec => []Consistent
<1>1. IInv => Consistent
  <2> SUFFICES ASSUME IInv PROVE Consistent
    OBVIOUS
  <2>1. LinearHistory
    BY DEF IInv, RowsApart, Chained, Precedes, LinearHistory, Clash
  <2>2. RepliesAgree
    BY DEF IInv, RepliesStored, RepliesAgree
  <2> QED BY <2>1, <2>2 DEF IInv, Consistent
<1> QED BY <1>1, Invariance, PTL

\* An operation took effect only after those it depends on, and their versions
\* are committed with it.
THEOREM DependenciesTakeEffect == Spec => []DependenciesInEffect
<1>1. IInv => DependenciesInEffect
  <2> SUFFICES ASSUME IInv, NEW k \in Key, NEW i \in DOMAIN batches[k].answers,
                      batches[k].answers[i].status \in {"applied", "noop"},
                      NEW j \in DOMAIN batches[k].answers,
                      batches[k].request.ops[j].op \in batches[k].request.ops[i].dependsOn
               PROVE  /\ batches[k].answers[j].status \in {"applied", "noop"}
                      /\ \E r \in versions : /\ r.entity = batches[k].request.ops[j].entity
                                             /\ r.version = batches[k].answers[j].version
    BY DEF DependenciesInEffect
  <2>1. AnswersFit(batches[k].request.ops, batches[k].answers, versions, conflicts)
    BY DEF IInv, BatchesFit
  <2>2. batches[k].answers[j].status \in Success
    BY <2>1 DEF AnswersFit, Success
  <2>3. HasVersion(versions, batches[k].request.ops[j].entity, batches[k].answers[j].version)
    BY <2>1, <2>2 DEF AnswersFit
  <2> QED BY <2>2, <2>3 DEF HasVersion, Success
<1> QED BY <1>1, Invariance, PTL

\* No conflict row is lost or orphaned, whatever savepoints roll back.
THEOREM EvidenceKept == Spec => []EvidenceMatchesAnswers
<1>1. IInv => EvidenceMatchesAnswers
  <2> SUFFICES ASSUME IInv PROVE EvidenceMatchesAnswers
    OBVIOUS
  <2>1. ASSUME NEW c \in conflicts
        PROVE  /\ \E r \in versions : r.entity = c.entity /\ r.version = c.cloud
               /\ \E k \in Key : \E i \in DOMAIN batches[k].answers :
                    /\ batches[k].answers[i].evidence
                    /\ batches[k].answers[i].op = c.op
                    /\ batches[k].request.ops[i].entity = c.entity
                    /\ batches[k].request.ops[i].base = c.base
    BY DEF IInv, ConflictsFit, HasVersion, AnsweredWith
  <2>2. ASSUME NEW k \in Key, NEW i \in DOMAIN batches[k].answers, batches[k].answers[i].evidence
        PROVE  \E c \in conflicts : c.op = batches[k].answers[i].op
    <3>1. AnswersFit(batches[k].request.ops, batches[k].answers, versions, conflicts)
      BY DEF IInv, BatchesFit
    <3> QED BY <2>2, <3>1 DEF AnswersFit
  <2> QED BY <2>1, <2>2 DEF EvidenceMatchesAnswers
<1> QED BY <1>1, Invariance, PTL

-----------------------------------------------------------------------------
(* A push is a Writer of SyncStream.                                       *)

Pending == [w \in Worker |-> ChangeRows(tx[w].rows)]

LEMMA StreamUnchanged ==
  ASSUME Pending' = Pending, UNCHANGED <<versions, seqCounter>>
  PROVE  UNCHANGED Stream!vars
BY DEF Pending, Stream!vars

LEMMA PendingIs ==
  ASSUME IInv, NEW w \in Worker, NEW T, tx' = [tx EXCEPT ![w] = T]
  PROVE  Pending' = [Pending EXCEPT ![w] = ChangeRows(T.rows)]
BY DEF IInv, TypeOK, Pending

\* A step that leaves the rows of its transaction alone is none of the stream.
LEMMA NoRowStep ==
  ASSUME IInv, NEW w \in Worker, NEW T, tx' = [tx EXCEPT ![w] = T],
         T.rows = tx[w].rows, UNCHANGED <<versions, seqCounter>>
  PROVE  UNCHANGED Stream!vars
<1>1. Pending' = [Pending EXCEPT ![w] = ChangeRows(T.rows)]
  BY PendingIs
<1>2. Pending' = Pending
  BY <1>1 DEF Pending
<1> QED BY <1>2, StreamUnchanged

LEMMA AcceptWrites ==
  ASSUME IInv, NEW w \in Worker, Accept(w)
  PROVE  Stream!Write(w) \/ UNCHANGED Stream!vars
<1> DEFINE t == tx[w]
           m == At(w)
           r == NewRow(w)
<1>1. /\ t.stage = "apply" /\ t.stage \in AtWork /\ UNCHANGED versions
      /\ Acceptable(m, t.found, Current(w, m.entity)) /\ RowFree(w, r)
  BY DEF Accept, AtWork, NewRow, storeVars
<1>2. t \in Transaction /\ Progress(t) /\ m \in Mutation
  BY <1>1, TxType, ResultType
<1>3. CASE tx' = [tx EXCEPT ![w] = RolledBack(t)] /\ UNCHANGED seqCounter
  <2>1. RolledBack(t).rows = t.rows
    BY <1>1, <1>2, RolledBackFields DEF Progress
  <2> QED BY <1>1, <1>3, <2>1, NoRowStep
<1>4. CASE /\ ~ RowTaken(r) /\ seqCounter < MaxSeq /\ seqCounter' = r.seq
           /\ tx' = [tx EXCEPT ![w] = Written(w)]
  <2>1. Written(w).rows = t.rows \cup {r}
    BY <1>1, WrittenFits
  <2>2. /\ r \in VersionRow /\ r.entity = m.entity /\ r.seq = seqCounter + 1
        /\ ~ t.found => r.version = 1
        /\ t.found => m.entity \in t.locks
    BY <1>1, NewRowProperty
  <2> HIDE DEF r
  <2>3. ASSUME NEW v \in Worker \ {w} PROVE Stream!RowsOf(Pending[v], m.entity) = {}
    <3>1. m.entity \notin tx[v].locks
      <4>1. CASE t.found
        BY <2>2, <4>1 DEF IInv, LocksApart
      <4>2. CASE ~ t.found
        BY <1>1, <1>4, <2>2, <4>2, FirstIsUnlocked
      <4> QED BY <4>1, <4>2
    <3>2. \A q \in tx[v].rows : q.entity # m.entity
      BY <3>1, TxType DEF TxFits, LocksFit
    <3> QED BY <3>2 DEF Pending, ChangeRows, Stream!RowsOf
  <2>4. Pending' = [Pending EXCEPT ![w] = Pending[w] \cup {[seq |-> seqCounter', entity |-> m.entity]}]
    <3>1. Pending' = [Pending EXCEPT ![w] = ChangeRows(t.rows \cup {r})]
      BY <1>4, <2>1, PendingIs
    <3>2. ChangeRows(t.rows \cup {r}) = ChangeRows(t.rows) \cup {[seq |-> r.seq, entity |-> r.entity]}
      BY DEF ChangeRows
    <3>3. Pending[w] = ChangeRows(t.rows)
      BY DEF Pending
    <3> QED BY <1>4, <2>2, <3>1, <3>2, <3>3
  <2>5. m.entity \in Stream!Entity
    BY <1>2, MutationType DEF Entity, Stream!Entity
  <2>6. Stream!Append(w, m.entity)
    BY <1>1, <1>4, <2>2, <2>3, <2>4 DEF Stream!Append, Stream!streamVars, Pending
  <2> QED BY <2>5, <2>6 DEF Stream!Write
<1> QED BY <1>3, <1>4 DEF Accept, Become, NewRow, Written

\* A savepoint with a row has the latest row of its transaction.
LEMMA SavepointRow ==
  ASSUME IInv, NEW w \in Worker, NEW r \in tx[w].rows, tx[w].rows = tx[w].saved.rows \cup {r},
         \A q \in tx[w].saved.rows : q.seq < r.seq
  PROVE  ChangeRows(tx[w].saved.rows)
           = {x \in ChangeRows(tx[w].rows) : x.seq # Stream!LastSeq(ChangeRows(tx[w].rows))}
<1> DEFINE R == tx[w].rows
           S == tx[w].saved.rows
           C == ChangeRows(R)
<1>1. R \in SUBSET VersionRow /\ seqCounter \in Nat /\ r \in VersionRow
  BY TxType DEF Transaction, IInv, TypeOK
<1>2. \A q \in R : q.seq \in Nat /\ q.seq <= seqCounter
  BY <1>1 DEF IInv, SeqsDrawn, VersionRow
<1>3. /\ \A q \in R : [seq |-> q.seq, entity |-> q.entity] \in C /\ q.seq \in Stream!Seqs(C)
      /\ \A n \in Stream!Seqs(C) : \E q \in R : n = q.seq
  <2>1. \A q \in R : [seq |-> q.seq, entity |-> q.entity] \in C
    BY DEF ChangeRows
  <2>2. \A x \in C : \E q \in R : x.seq = q.seq
    BY DEF ChangeRows
  <2> HIDE DEF C, R
  <2> QED BY <2>1, <2>2 DEF Stream!Seqs
<1>4. r.seq \in Stream!Seqs(C) /\ Stream!Seqs(C) \in SUBSET Nat /\ C # {}
  <2>1. C # {} /\ r.seq \in Stream!Seqs(C)
    BY <1>3
  <2> HIDE DEF C, R
  <2>2. \A n \in Stream!Seqs(C) : n \in Nat
    BY <1>2, <1>3
  <2> QED BY <2>1, <2>2
<1>5. \A n \in Stream!Seqs(C) : n <= seqCounter
  BY <1>2, <1>3
<1>6. Max(Stream!Seqs(C)) \in Stream!Seqs(C) /\ \A n \in Stream!Seqs(C) : n <= Max(Stream!Seqs(C))
  BY <1>1, <1>4, <1>5, MaxProperty
<1>7. \A q \in R : q.seq <= r.seq
  BY <1>2
<1>8. Max(Stream!Seqs(C)) = r.seq
  <2>1. Max(Stream!Seqs(C)) <= r.seq
    BY <1>3, <1>6, <1>7
  <2>2. r.seq <= Max(Stream!Seqs(C)) /\ r.seq \in Nat /\ Max(Stream!Seqs(C)) \in Nat
    BY <1>4, <1>6
  <2> QED BY <2>1, <2>2
<1>9. Stream!LastSeq(C) = r.seq
  <2>1. Stream!Max(Stream!Seqs(C)) = Max(Stream!Seqs(C))
    BY DEF Stream!Max, Max
  <2> QED BY <1>4, <1>8, <2>1 DEF Stream!LastSeq
<1>10. \A q \in S : q.seq # r.seq
  BY <1>2
<1> HIDE DEF C
<1>11. ChangeRows(S) = {x \in ChangeRows(R) : x.seq # r.seq}
  BY <1>10 DEF ChangeRows
<1> QED BY <1>9, <1>11 DEF C

LEMMA RecordWrites ==
  ASSUME IInv, NEW w \in Worker, Record(w)
  PROVE  Stream!Write(w) \/ UNCHANGED Stream!vars
<1> DEFINE t == tx[w]
<1>1. t.stage = "record" /\ UNCHANGED <<versions, seqCounter>>
  BY DEF Record, storeVars
<1>2. t \in Transaction /\ TxFits(t)
  BY TxType
<1>3. CASE tx' = [tx EXCEPT ![w] = Answered(WithResult(w), t.draft)]
  <2>1. Answered(WithResult(w), t.draft).rows = t.rows
    BY <1>1, RecordedFits
  <2> QED BY <1>1, <1>3, <2>1, NoRowStep
<1>4. CASE tx' = [tx EXCEPT ![w] = RolledBack(t)]
  <2>1. RolledBack(t).rows = t.saved.rows
    BY <1>2, RolledBackFields
  <2>2. Drafted(t, t.draft)
    BY <1>1, <1>2 DEF TxFits
  <2>3. CASE t.draft.status = "applied"
    <3>1. PICK r \in t.rows : t.rows = t.saved.rows \cup {r} /\ \A q \in t.saved.rows : q.seq < r.seq
      BY <2>2, <2>3 DEF Drafted
    <3>2. ChangeRows(t.saved.rows)
            = {x \in ChangeRows(t.rows) : x.seq # Stream!LastSeq(ChangeRows(t.rows))}
      BY <3>1, SavepointRow
    <3>3. Pending[w] = ChangeRows(t.rows) /\ Pending[w] # {}
      BY <3>1 DEF Pending, ChangeRows
    <3>4. Pending' = [Pending EXCEPT ![w] = {x \in Pending[w] : x.seq # Stream!LastSeq(Pending[w])}]
      <4>1. Pending' = [Pending EXCEPT ![w] = ChangeRows(t.saved.rows)]
        BY <1>4, <2>1, PendingIs
      <4> QED BY <3>2, <3>3, <4>1
    <3>5. Stream!RollbackSavepoint(w)
      BY <1>1, <3>3, <3>4 DEF Stream!RollbackSavepoint, Stream!streamVars, Pending
    <3> QED BY <3>5 DEF Stream!Write
  <2>4. CASE t.draft.status # "applied"
    <3>1. RolledBack(t).rows = t.rows
      BY <2>1, <2>2, <2>4 DEF Drafted
    <3> QED BY <1>1, <1>4, <3>1, NoRowStep
  <2> QED BY <2>3, <2>4
<1> QED BY <1>3, <1>4 DEF Record, Become, WithResult

\* An operation that neither writes nor has its result refused.
LEMMA OtherOperationsWriteNothing ==
  ASSUME IInv, NEW w \in Worker,
         Check(w) \/ Lookup(w) \/ Settle(w) \/ Diverge(w) \/ Handle(w) \/ Rehandle(w)
  PROVE  UNCHANGED Stream!vars
<1> DEFINE t == tx[w]
<1>1. UNCHANGED <<versions, seqCounter>>
  BY DEF Check, Lookup, Settle, Diverge, Handle, Rehandle, storeVars
<1>2. t \in Transaction /\ Progress(t)
  BY TxType
<1>3. CASE Check(w) \/ Lookup(w) \/ Settle(w)
  <2>1. /\ \A d : [t EXCEPT !.stage = "record", !.draft = d].rows = t.rows
        /\ [t EXCEPT !.stage = "lookup"].rows = t.rows
        /\ LookedUp(w).rows = t.rows
    BY <1>2 DEF Transaction, LookedUp
  <2>2. \/ \E d : tx' = [tx EXCEPT ![w] = [t EXCEPT !.stage = "record", !.draft = d]]
        \/ tx' = [tx EXCEPT ![w] = [t EXCEPT !.stage = "lookup"]]
        \/ tx' = [tx EXCEPT ![w] = LookedUp(w)]
    BY <1>3 DEF Check, Lookup, Settle, Become, LookedUp
  <2> QED BY <1>1, <2>1, <2>2, NoRowStep
<1>4. CASE Diverge(w)
  <2> DEFINE c == Current(w, At(w).entity)
  <2>1. t.rows = t.saved.rows
    BY <1>2, <1>4 DEF Diverge, Progress
  <2>2. RolledBack(t) \in Transaction /\ RolledBack(t).rows = t.saved.rows
    BY <1>2, RolledBackFields
  <2>3. Conflicted(w, c).rows = t.rows
    BY <1>2 DEF Conflicted, Transaction
  <2>4. [RolledBack(t) EXCEPT !.cached = c].rows = t.rows
    BY <2>1, <2>2 DEF Transaction
  <2>5. \/ tx' = [tx EXCEPT ![w] = Conflicted(w, c)]
        \/ tx' = [tx EXCEPT ![w] = [RolledBack(t) EXCEPT !.cached = c]]
    BY <1>4 DEF Diverge, Become, Conflicted
  <2> QED BY <1>1, <2>3, <2>4, <2>5, NoRowStep
<1>5. CASE Handle(w)
  <2>1. Answered(t, Rejected(At(w))).rows = t.rows
    BY <1>5, HandledFits DEF Handle
  <2>2. [t EXCEPT !.stage = "rehandle"].rows = t.rows
    BY <1>2 DEF Transaction
  <2>3. \/ tx' = [tx EXCEPT ![w] = Answered(t, Rejected(At(w)))]
        \/ tx' = [tx EXCEPT ![w] = [t EXCEPT !.stage = "rehandle"]]
    BY <1>5 DEF Handle, Become
  <2> QED BY <1>1, <2>1, <2>2, <2>3, NoRowStep
<1>6. CASE Rehandle(w)
  <2>1. tx[w].stage = "rehandle"
    BY <1>6 DEF Rehandle
  <2>2. CASE /\ Retried(w, At(w)).evidence => BaselineHolds(w, At(w), Known(w, At(w)))
             /\ tx' = [tx EXCEPT ![w] = Answered(WithRetry(w), Retried(w, At(w)))]
    <3>1. Answered(WithRetry(w), Retried(w, At(w))).rows = t.rows
      BY <2>1, <2>2, RetriedFits
    <3> QED BY <1>1, <2>2, <3>1, NoRowStep
  <2>3. CASE tx' = [tx EXCEPT ![w] = [t EXCEPT !.stage = "failed"]]
    <3>1. [t EXCEPT !.stage = "failed"].rows = t.rows
      BY <1>2 DEF Transaction
    <3> QED BY <1>1, <2>3, <3>1, NoRowStep
  <2> QED BY <1>6, <2>2, <2>3 DEF Rehandle, Become, WithRetry
<1> QED BY <1>3, <1>4, <1>5, <1>6

\* A transaction that starts over has nothing pending.
LEMMA StartWritesNothing ==
  ASSUME IInv, NEW w \in Worker, (\E r \in Request : Begin(w, r)) \/ ClaimBatch(w)
  PROVE  UNCHANGED Stream!vars
<1>1. tx[w].stage \in {"idle", "claim"} /\ UNCHANGED <<versions, seqCounter>>
  BY DEF Begin, ClaimBatch, storeVars
<1>2. tx[w].rows = {}
  BY <1>1, TxType DEF Progress
<1>3. CASE UNCHANGED tx
  <2>1. Pending' = Pending
    BY <1>3 DEF Pending
  <2> QED BY <1>1, <2>1, StreamUnchanged
<1>4. CASE \E T : tx' = [tx EXCEPT ![w] = T] /\ T.rows = {}
  BY <1>1, <1>2, <1>4, NoRowStep
<1>5. \A stage, r : Fresh(stage, r).rows = {}
  BY DEF Fresh
<1>6. Idle.rows = {}
  BY IdleFits
<1> QED BY <1>3, <1>4, <1>5, <1>6 DEF Begin, ClaimBatch, Become

LEMMA EndWrites ==
  ASSUME IInv, NEW w \in Worker, Commit(w) \/ Abort(w)
  PROVE  Stream!Write(w) \/ UNCHANGED Stream!vars
<1> DEFINE t == tx[w]
<1>1. tx' = [tx EXCEPT ![w] = Idle] /\ seqCounter' = seqCounter
  BY DEF Commit, Abort, Become
<1>2. Idle.rows = {} /\ ChangeRows({}) = {}
  BY IdleFits DEF ChangeRows
<1>3. Pending' = [Pending EXCEPT ![w] = {}]
  BY <1>1, <1>2, PendingIs
<1>4. versions' = versions \/ versions' = versions \cup t.rows
  BY DEF Commit, Abort, storeVars
<1>5. CASE t.rows = {}
  BY <1>1, <1>2, <1>4, <1>5, NoRowStep
<1>6. CASE t.rows # {}
  <2>1. Pending[w] = ChangeRows(t.rows) /\ Pending[w] # {}
    BY <1>6 DEF Pending, ChangeRows
  <2>2. CASE versions' = versions
    <3>1. Stream!Rollback(w)
      BY <1>1, <1>3, <2>1, <2>2 DEF Stream!Rollback, Stream!streamVars, Pending
    <3> QED BY <3>1 DEF Stream!Write
  <2>3. CASE versions' = versions \cup t.rows
    <3>1. ChangeRows(versions)' = ChangeRows(versions) \cup Pending[w]
      BY <2>1, <2>3 DEF ChangeRows
    <3>2. Stream!Commit(w)
      BY <1>1, <1>3, <2>1, <3>1 DEF Stream!Commit, Stream!streamVars, Pending
    <3> QED BY <3>2 DEF Stream!Write
  <2> QED BY <1>4, <2>2, <2>3
<1> QED BY <1>5, <1>6

\* Every step of a push is a step of a Writer of the stream, or none.
THEOREM PushIsWriter == Spec => ImplementsWriter
<1>1. Init => Stream!Init
  <2> SUFFICES ASSUME Init PROVE Stream!Init
    OBVIOUS
  <2>1. \A w \in Worker : tx[w].rows = {}
    BY IdleFits DEF Init
  <2>2. ChangeRows({}) = {}
    BY DEF ChangeRows
  <2>3. [w \in Worker |-> ChangeRows(tx[w].rows)] = [w \in Worker |-> {}]
    BY <2>1, <2>2
  <2> QED BY <2>2, <2>3 DEF Init, Stream!Init, Stream!Idle, NoDevices
<1>2. IInv /\ [Next]_vars => [\E w \in Worker : Stream!Write(w)]_(Stream!vars)
  <2> SUFFICES ASSUME IInv, [Next]_vars
               PROVE  (\E w \in Worker : Stream!Write(w)) \/ UNCHANGED Stream!vars
    OBVIOUS
  <2>1. CASE UNCHANGED vars
    <3>1. Pending' = Pending /\ UNCHANGED <<versions, seqCounter>>
      BY <2>1 DEF vars, Pending
    <3> QED BY <3>1, StreamUnchanged
  <2>2. ASSUME NEW w \in Worker,
               \/ \E r \in Request : Begin(w, r)
               \/ ClaimBatch(w) \/ Operate(w) \/ Commit(w) \/ Abort(w)
        PROVE  Stream!Write(w) \/ UNCHANGED Stream!vars
    <3>1. CASE (\E r \in Request : Begin(w, r)) \/ ClaimBatch(w)
      BY <3>1, StartWritesNothing
    <3>2. CASE Operate(w)
      BY <3>2, AcceptWrites, RecordWrites, OtherOperationsWriteNothing DEF Operate
    <3>3. CASE Commit(w) \/ Abort(w)
      BY <3>3, EndWrites
    <3> QED BY <2>2, <3>1, <3>2, <3>3
  <2> QED BY <2>1, <2>2 DEF Next
<1> QED BY <1>1, <1>2, Invariance, PTL DEF Spec, ImplementsWriter

-----------------------------------------------------------------------------
(* A push implements the ledger.                                           *)

\* A set of rows that holds together: every version of an entity once, none missing
\* below another, and every operation once.
Linear(R) ==
  /\ R \in SUBSET VersionRow /\ IsFiniteSet(R)
  /\ \E b \in Nat : \A r \in R : r.version <= b
  /\ Chained(R, R)
  /\ \A q, r \in R : Clash(q, r) => q = r

LEMMA VersionsLinear == IInv => Linear(versions)
<1> SUFFICES ASSUME IInv PROVE Linear(versions)
  OBVIOUS
<1>1. versions \in SUBSET VersionRow /\ seqCounter \in Nat
  BY DEF IInv, TypeOK
<1>2. \A r \in versions : r.version <= seqCounter
  <2>1. \A r \in versions : r.version <= r.seq /\ r.seq <= seqCounter
    BY DEF IInv, SeqsDrawn
  <2> QED BY <1>1, <2>1 DEF VersionRow
<1> QED BY <1>1, <1>2 DEF IInv, Linear, FiniteRows, RowsApart

\* The versions of an entity are numbered from 1 without a gap: the greatest
\* missing number would have a successor that is there.
LEMMA Numbered ==
  ASSUME NEW R, Linear(R), NEW e
  PROVE  /\ IsFiniteSet(RowsOf(R, e)) /\ Cardinality(RowsOf(R, e)) \in Nat
         /\ {r.version : r \in RowsOf(R, e)} = 1 .. Cardinality(RowsOf(R, e))
<1> DEFINE Q == RowsOf(R, e)
           S == {r.version : r \in Q}
           f == [r \in Q |-> r.version]
<1>1. Q \subseteq R /\ R \in SUBSET VersionRow /\ IsFiniteSet(R)
  BY DEF RowsOf, Linear
<1>2. IsFiniteSet(Q) /\ Cardinality(Q) \in Nat
  BY <1>1, FS_Subset, FS_CardinalityType
<1>3. PICK b \in Nat : \A r \in R : r.version <= b
  BY DEF Linear
<1>4. S \in SUBSET Nat /\ \A n \in S : n # 0 /\ n <= b
  BY <1>1, <1>3 DEF VersionRow
<1>5. \A q, r \in Q : q.version = r.version => q = r
  BY DEF RowsOf, Linear, Clash
<1>6. IsFiniteSet(S) /\ Cardinality(S) = Cardinality(Q)
  <2>1. IsFiniteSet(S)
    BY <1>3, <1>4, FS_BoundedSetOfNaturals
  <2>2. f \in [Q -> S] /\ \A q, r \in Q : f[q] = f[r] => q = r
    BY <1>5
  <2>3. \A n \in S : \E r \in Q : f[r] = n
    OBVIOUS
  <2> HIDE DEF f, S, Q
  <2>4. f \in Injection(Q, S)
    BY <2>2 DEF Injection, IsInjective
  <2>5. f \in Surjection(Q, S)
    BY <2>2, <2>3 DEF Surjection
  <2> QED BY <2>1, <2>4, <2>5, FS_Injection
<1>7. ASSUME NEW n \in S, NEW k \in Nat \ {0}, k + 1 = n
      PROVE  k \in S
  <2>1. PICK r \in Q : r.version = n
    OBVIOUS
  <2>2. r \in R /\ r.entity = e /\ r.version > 1
    BY <1>7, <2>1 DEF RowsOf
  <2>3. PICK q \in R : Precedes(q, r)
    BY <2>2 DEF Linear, Chained
  <2>4. q \in Q /\ q.version = k
    BY <1>7, <2>1, <2>2, <2>3 DEF Precedes, RowsOf
  <2> QED BY <2>4
<1> HIDE DEF S
<1>8. CASE S = {}
  <2>1. Cardinality(S) = 0
    BY <1>8, FS_EmptySet
  <2> QED BY <1>2, <1>6, <1>8, <2>1 DEF S
<1>9. CASE S # {}
  <2>1. PICK m \in S : \A n \in S : n <= m
    BY <1>3, <1>4, <1>9, HasGreatest
  <2>2. S \subseteq 1 .. m /\ m \in Nat \ {0}
    BY <1>4, <2>1
  <2>3. S = 1 .. m
    <3> SUFFICES ASSUME (1 .. m) \ S # {} PROVE FALSE
      BY <2>2
    <3>1. (1 .. m) \ S \in SUBSET Nat /\ \A n \in (1 .. m) \ S : n <= m
      BY <2>2
    <3>2. PICK x \in (1 .. m) \ S : \A n \in (1 .. m) \ S : n <= x
      BY <2>2, <3>1, HasGreatest
    <3>3. x # m /\ x \in Nat \ {0} /\ x + 1 \in 1 .. m /\ ~ (x + 1 <= x)
      BY <2>1, <2>2, <3>2
    <3>4. x + 1 \in S
      BY <3>2, <3>3
    <3> QED BY <1>7, <3>2, <3>3, <3>4
  <2>4. Cardinality(S) = m
    BY <2>2, <2>3, FS_Interval
  <2> QED BY <1>2, <1>6, <2>3, <2>4 DEF S
<1> QED BY <1>8, <1>9

HistoryOf(R, e) ==
  [n \in 1 .. Cardinality(RowsOf(R, e)) |-> (CHOOSE r \in RowsOf(R, e) : r.version = n).op]

\* The operation at place n of a history is that of the row of version n.
LEMMA HistoryProperty ==
  ASSUME NEW R, Linear(R), NEW e
  PROVE  /\ Len(HistoryOf(R, e)) = Cardinality(RowsOf(R, e))
         /\ DOMAIN HistoryOf(R, e) = 1 .. Cardinality(RowsOf(R, e))
         /\ HistoryOf(R, e) \in Seq(Operation)
         /\ \A r \in RowsOf(R, e) : /\ r.version \in DOMAIN HistoryOf(R, e)
                                    /\ HistoryOf(R, e)[r.version] = r.op
         /\ \A n \in DOMAIN HistoryOf(R, e) :
              \E r \in RowsOf(R, e) : r.version = n /\ HistoryOf(R, e)[n] = r.op
<1> DEFINE Q == RowsOf(R, e)
           c == Cardinality(Q)
           h == HistoryOf(R, e)
<1>1. c \in Nat /\ {r.version : r \in Q} = 1 .. c
  BY Numbered
<1>2. \A q, r \in Q : q.version = r.version => q = r
  BY DEF RowsOf, Linear, Clash
<1>3. Q \in SUBSET VersionRow
  BY DEF RowsOf, Linear
<1>4. DOMAIN h = 1 .. c
  BY DEF HistoryOf
<1>5. \A r \in Q : r.version \in 1 .. c /\ h[r.version] = r.op
  <2> TAKE r \in Q
  <2>1. r.version \in 1 .. c
    BY <1>1
  <2>2. (CHOOSE q \in Q : q.version = r.version) = r
    BY <1>2
  <2> QED BY <2>1, <2>2 DEF HistoryOf
<1>6. \A n \in 1 .. c : \E r \in Q : r.version = n /\ h[n] = r.op
  BY <1>1, <1>5
<1>7. h \in Seq(Operation)
  <2>1. \A n \in 1 .. c : h[n] \in Operation
    BY <1>3, <1>6 DEF VersionRow
  <2>2. h \in [1 .. c -> Operation]
    BY <2>1 DEF HistoryOf
  <2> HIDE DEF h, c
  <2> QED BY <1>1, <2>2
<1>8. Len(h) = c
  <2> HIDE DEF h, c
  <2> QED BY <1>1, <1>4, <1>7
<1> QED BY <1>4, <1>5, <1>6, <1>7, <1>8

\* A history that grows keeps what it had.
LEMMA HistoryGrows ==
  ASSUME NEW R, NEW W, Linear(R), Linear(W), R \subseteq W, NEW e
  PROVE  Ledger!IsPrefix(HistoryOf(R, e), HistoryOf(W, e))
<1> DEFINE g == HistoryOf(R, e)
           h == HistoryOf(W, e)
           n == Cardinality(RowsOf(R, e))
           m == Cardinality(RowsOf(W, e))
<1>1. /\ Len(g) = n /\ DOMAIN g = 1 .. n /\ g \in Seq(Operation) /\ n \in Nat
      /\ \A r \in RowsOf(R, e) : r.version \in 1 .. n /\ g[r.version] = r.op
      /\ \A i \in 1 .. n : \E r \in RowsOf(R, e) : r.version = i /\ g[i] = r.op
  BY HistoryProperty, Numbered
<1>2. /\ Len(h) = m /\ DOMAIN h = 1 .. m /\ h \in Seq(Operation) /\ m \in Nat
      /\ \A r \in RowsOf(W, e) : r.version \in 1 .. m /\ h[r.version] = r.op
  BY HistoryProperty, Numbered
<1>3. RowsOf(R, e) \subseteq RowsOf(W, e) /\ IsFiniteSet(RowsOf(W, e))
  BY Numbered DEF RowsOf
<1>4. n <= m
  BY <1>3, FS_Subset
<1> HIDE DEF g, h, n, m
<1>5. \A i \in 1 .. n : i \in 1 .. m /\ h[i] = g[i]
  BY <1>1, <1>2, <1>3
<1>6. \A i \in 1 .. n : g[i] \in Operation /\ h[i] \in Operation
  BY <1>1, <1>2, <1>5
<1>7. /\ SubSeq(g, 1, n) \in Seq(Operation) /\ Len(SubSeq(g, 1, n)) = n
      /\ \A i \in 1 .. n : SubSeq(g, 1, n)[i] = g[i]
  <2>1. /\ SubSeq(g, 1, n) \in Seq(Operation)
        /\ Len(SubSeq(g, 1, n)) = IF 1 <= n THEN n - 1 + 1 ELSE 0
        /\ \A i \in 1 .. n - 1 + 1 : SubSeq(g, 1, n)[i] = g[1 + i - 1]
    BY <1>1, <1>6, SubSeqProperties
  <2>2. n - 1 + 1 = n /\ \A i \in 1 .. n : 1 + i - 1 = i
    BY <1>1
  <2> QED BY <1>1, <2>1, <2>2
<1>8. /\ SubSeq(h, 1, n) \in Seq(Operation) /\ Len(SubSeq(h, 1, n)) = n
      /\ \A i \in 1 .. n : SubSeq(h, 1, n)[i] = h[i]
  <2>1. /\ SubSeq(h, 1, n) \in Seq(Operation)
        /\ Len(SubSeq(h, 1, n)) = IF 1 <= n THEN n - 1 + 1 ELSE 0
        /\ \A i \in 1 .. n - 1 + 1 : SubSeq(h, 1, n)[i] = h[1 + i - 1]
    BY <1>1, <1>6, SubSeqProperties
  <2>2. n - 1 + 1 = n /\ \A i \in 1 .. n : 1 + i - 1 = i
    BY <1>1
  <2> QED BY <1>1, <2>1, <2>2
<1>9. SubSeq(g, 1, n) = SubSeq(h, 1, n)
  BY <1>5, <1>7, <1>8, SeqEqual
<1>10. Len(g) <= Len(h) /\ SubSeq(g, 1, Len(g)) = SubSeq(h, 1, Len(g))
  BY <1>1, <1>2, <1>4, <1>9
<1> QED BY <1>10 DEF Ledger!IsPrefix, g, h

LEMMA HistorySet ==
  ASSUME NEW R, Linear(R), NEW e
  PROVE  Ledger!ToSet(HistoryOf(R, e)) = {r.op : r \in RowsOf(R, e)}
<1> DEFINE h == HistoryOf(R, e)
<1>1. /\ \A r \in RowsOf(R, e) : r.version \in DOMAIN h /\ h[r.version] = r.op
      /\ \A n \in DOMAIN h : \E r \in RowsOf(R, e) : r.version = n /\ h[n] = r.op
  BY HistoryProperty
<1>2. Ledger!ToSet(h) = {h[n] : n \in DOMAIN h}
  BY DEF Ledger!ToSet
<1> HIDE DEF h
<1> QED BY <1>1, <1>2 DEF h

LEMMA AcceptedIs ==
  ASSUME NEW R, Linear(R)
  PROVE  Ledger!Accepted([e \in Entity |-> HistoryOf(R, e)]) = {r.op : r \in R}
<1> DEFINE H == [e \in Entity |-> HistoryOf(R, e)]
<1>1. Ledger!Accepted(H) = UNION {Ledger!ToSet(H[e]) : e \in Entity}
  BY DEF Ledger!Accepted
<1>2. \A e \in Entity : Ledger!ToSet(H[e]) = {r.op : r \in RowsOf(R, e)}
  BY HistorySet
<1>3. \A r \in R : r.entity \in Entity /\ r \in RowsOf(R, r.entity)
  BY DEF Linear, VersionRow, RowsOf
<1>4. \A e \in Entity : RowsOf(R, e) \subseteq R
  BY DEF RowsOf
<1> HIDE DEF H
<1>5. ASSUME NEW x \in Ledger!Accepted(H) PROVE x \in {r.op : r \in R}
  BY <1>1, <1>2, <1>4
<1>6. ASSUME NEW r \in R PROVE r.op \in Ledger!Accepted(H)
  <2>1. r.op \in Ledger!ToSet(H[r.entity])
    BY <1>2, <1>3
  <2> QED BY <1>1, <1>3, <2>1
<1>7. Ledger!Accepted(H) = {r.op : r \in R}
  BY <1>5, <1>6
<1> QED BY <1>7 DEF H

LEMMA HistoriesExtend ==
  ASSUME NEW R, NEW W, Linear(R), Linear(W), R \subseteq W
  PROVE  Ledger!Extends([e \in Entity |-> HistoryOf(R, e)], [e \in Entity |-> HistoryOf(W, e)],
                        {r.op : r \in W \ R})
<1> DEFINE g == [e \in Entity |-> HistoryOf(R, e)]
           h == [e \in Entity |-> HistoryOf(W, e)]
           A == {r.op : r \in W \ R}
<1>1. \A e \in Entity : g[e] = HistoryOf(R, e) /\ h[e] = HistoryOf(W, e)
  OBVIOUS
<1>2. \A q, r \in W : q.op = r.op => q = r
  BY DEF Linear, Clash
<1>3. Ledger!Accepted(g) = {r.op : r \in R} /\ Ledger!Accepted(h) = {r.op : r \in W}
  BY AcceptedIs
<1>4. \A e \in Entity : Ledger!ToSet(h[e]) = {r.op : r \in RowsOf(W, e)}
  BY HistorySet
<1> HIDE DEF g, h
<1>5. \A e \in Entity : Ledger!IsPrefix(g[e], h[e])
  BY <1>1, HistoryGrows
<1>6. ASSUME NEW e \in Entity PROVE Ledger!IsInjective(h[e])
  <2>1. \A n \in DOMAIN h[e] : \E r \in RowsOf(W, e) : r.version = n /\ h[e][n] = r.op
    BY <1>1, HistoryProperty
  <2>2. \A r \in RowsOf(W, e) : r \in W
    BY DEF RowsOf
  <2>3. \A i, j \in DOMAIN h[e] : h[e][i] = h[e][j] => i = j
    BY <1>2, <2>1, <2>2
  <2> QED BY <2>3 DEF Ledger!IsInjective
<1>7. Ledger!Accepted(h) \ Ledger!Accepted(g) = A /\ Ledger!Accepted(g) \cap A = {}
  BY <1>2, <1>3
<1>8. \A e, f \in Entity : e # f => Ledger!ToSet(h[e]) \cap Ledger!ToSet(h[f]) = {}
  <2>1. ASSUME NEW e \in Entity, NEW f \in Entity, NEW q \in RowsOf(W, e), NEW r \in RowsOf(W, f),
               q.op = r.op
        PROVE  e = f
    BY <1>2, <2>1 DEF RowsOf
  <2> QED BY <1>4, <2>1
<1> HIDE DEF A
<1>9. Ledger!Extends(g, h, A)
  BY <1>5, <1>6, <1>7, <1>8 DEF Ledger!Extends
<1> QED BY <1>9 DEF g, h, A

Histories == [e \in Entity |-> History(e)]
AnswerFor(b) == [done |-> b # NoBatch, applied |-> AppliedOps(b.answers)]
Answers   == [k \in Key |-> AnswerFor(batches[k])]

LEMMA LedgerIs ==
  /\ Histories = [e \in Entity |-> HistoryOf(versions, e)]
  /\ Histories' = [e \in Entity |-> HistoryOf(versions', e)]
BY DEF Histories, History, HistoryOf

LEMMA LedgerUnchanged ==
  ASSUME UNCHANGED <<versions, batches>>
  PROVE  UNCHANGED Ledger!vars
<1>1. Histories' = Histories
  BY LedgerIs
<1>2. Answers' = Answers
  BY DEF Answers
<1> QED BY <1>1, <1>2 DEF Ledger!vars, Histories, Answers, AnswerFor, AppliedOps

\* A commit answers its key with the operations whose rows it publishes.
LEMMA CommitAnswers ==
  ASSUME IInv, IInv', NEW w \in Worker, Commit(w)
  PROVE  \E k \in Key : Ledger!Answer(k)
<1> DEFINE t == tx[w]
           reply == [request |-> t.request, answers |-> t.answers]
           A == {r.op : r \in versions' \ versions}
<1>1. /\ t.stage = "commit" /\ versions' = versions \cup t.rows
      /\ batches' = [batches EXCEPT ![t.request.key] = reply]
  BY DEF Commit
<1>2. /\ t \in Transaction /\ TxFits(t) /\ Progress(t) /\ t.request \in Request
      /\ t.rows = t.saved.rows
  BY <1>1, TxType DEF Progress
<1>3. t.request.key \in Key /\ t.request # NoRequest /\ batches \in [Key -> Batch]
  BY <1>2, RequestType DEF IInv, TypeOK
<1> PICK k \in Key : k = t.request.key
  BY <1>3
<1>4. batches[k] = NoBatch
  BY <1>1 DEF IInv, KeysApart, HoldsKey
<1>5. \A r \in t.rows : r \notin versions
  BY DEF IInv, RowsApart, Clash
<1>6. A = {r.op : r \in t.rows}
  BY <1>1, <1>5
<1>7. A = AppliedOps(t.answers)
  BY <1>2, <1>6 DEF TxFits, Backed
<1>8. A \subseteq Operation
  <2>1. \A r \in t.rows : r.op \in Operation
    BY <1>2 DEF Transaction, VersionRow
  <2> HIDE DEF A
  <2> QED BY <1>6, <2>1
<1>9. Linear(versions) /\ Linear(versions')
  <2>1. IInv' => Linear(versions)'
    BY VersionsLinear, PTL
  <2> QED BY <2>1, VersionsLinear DEF Linear
<1> HIDE DEF A
<1>10. Ledger!Extends(Histories, Histories', A)
  BY <1>1, <1>9, HistoriesExtend, LedgerIs DEF A
<1>11. /\ Answers[k] = AnswerFor(NoBatch) /\ Answers'[k] = AnswerFor(reply)
       /\ Answers' = [Answers EXCEPT ![k] = AnswerFor(reply)]
  BY <1>1, <1>3, <1>4 DEF Answers
<1>12. ~ Answers[k].done /\ Answers'[k].done /\ Answers'[k].applied = A
  <2>1. reply # NoBatch /\ reply.answers = t.answers
    BY <1>3 DEF NoBatch
  <2>2. AnswerFor(reply).done /\ AnswerFor(reply).applied = AppliedOps(t.answers)
    BY <2>1 DEF AnswerFor
  <2>3. ~ AnswerFor(NoBatch).done
    BY DEF AnswerFor
  <2> QED BY <1>7, <1>11, <2>2, <2>3
<1>13. /\ ~ Answers[k].done /\ Answers'[k].done /\ Answers'[k].applied \subseteq Operation
       /\ Answers' = [Answers EXCEPT ![k] = Answers'[k]]
       /\ Ledger!Extends(Histories, Histories', Answers'[k].applied)
  BY <1>8, <1>10, <1>11, <1>12
<1>14. Ledger!Answer(k)
  BY <1>13 DEF Ledger!Answer, Histories, Answers, AnswerFor, AppliedOps
<1> QED BY <1>14

\* However requests race, retry and fail, a batch key is answered once, and an
\* operation reported as applied is in the history of its entity exactly once.
THEOREM PushImplementsLedger == Spec => ImplementsLedger
<1>1. Init => Ledger!Init
  <2> SUFFICES ASSUME Init PROVE Ledger!Init
    OBVIOUS
  <2>1. versions = {} /\ \A k \in Key : batches[k] = NoBatch
    BY DEF Init
  <2>2. \A e \in Entity : History(e) = <<>>
    <3> SUFFICES ASSUME NEW e \in Entity PROVE History(e) = <<>>
      OBVIOUS
    <3>1. RowsOf(versions, e) = {}
      BY <2>1 DEF RowsOf
    <3>2. 1 .. Cardinality(RowsOf(versions, e)) = {}
      BY <3>1, FS_EmptySet
    <3>3. History(e) = [n \in {} |-> (CHOOSE r \in RowsOf(versions, e) : r.version = n).op]
      BY <3>2 DEF History
    <3> QED BY <3>3
  <2>3. AnswerFor(NoBatch) = [done |-> FALSE, applied |-> {}]
    <3>1. NoBatch.answers = <<>> /\ DOMAIN NoBatch.answers = {}
      BY DEF NoBatch
    <3>2. AppliedOps(NoBatch.answers) = {}
      BY <3>1 DEF AppliedOps
    <3>3. (NoBatch # NoBatch) = FALSE
      OBVIOUS
    <3> QED BY <3>2, <3>3 DEF AnswerFor
  <2>4. Histories = [e \in Entity |-> <<>>]
    BY <2>2 DEF Histories
  <2>5. Answers = [k \in Key |-> [done |-> FALSE, applied |-> {}]]
    BY <2>1, <2>3 DEF Answers
  <2> QED BY <2>4, <2>5 DEF Ledger!Init, Ledger!Unanswered, Histories, Answers, AnswerFor, AppliedOps
<1>2. IInv /\ IInv' /\ [Next]_vars => [Ledger!Next]_(Ledger!vars)
  <2> SUFFICES ASSUME IInv, IInv', [Next]_vars PROVE Ledger!Next \/ UNCHANGED Ledger!vars
    OBVIOUS
  <2>1. CASE UNCHANGED vars
    BY <2>1, LedgerUnchanged DEF vars
  <2>2. ASSUME NEW w \in Worker,
               (\E r \in Request : Begin(w, r)) \/ ClaimBatch(w) \/ Operate(w) \/ Abort(w)
        PROVE  UNCHANGED Ledger!vars
    <3>1. UNCHANGED <<versions, batches>>
      BY <2>2 DEF Begin, ClaimBatch, Operate, Check, Lookup, Accept, Settle, Diverge, Record,
                  Handle, Rehandle, Abort, storeVars
    <3> QED BY <3>1, LedgerUnchanged
  <2>3. ASSUME NEW w \in Worker, Commit(w) PROVE Ledger!Next
    BY <2>3, CommitAnswers DEF Ledger!Next
  <2> QED BY <2>1, <2>2, <2>3 DEF Next
<1> QED BY <1>1, <1>2, Invariance, PTL DEF Spec, ImplementsLedger, Ledger!Spec
=============================================================================
