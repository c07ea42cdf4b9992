------------------------- MODULE SyncHistoryProofs -------------------------
(***************************************************************************)
(* Decisions about the past of an account's entities, for any handlers,    *)
(* requests, conflicts and histories.  The first argument is about locks   *)
(* only: two transactions that work for the same request hold the same     *)
(* conflict row, or the same entity row, from their second lookup to their *)
(* end, so one of them is not there.  The second is about what is read     *)
(* under those locks: as no one else can add to it, the version that was   *)
(* reviewed is the one replaced, and the resolution that was the latest is *)
(* the one undone.                                                         *)
(***************************************************************************)
EXTENDS SyncHistory, FiniteSetTheorems, SequenceTheorems, TLAPS

-----------------------------------------------------------------------------
(* The inductive invariant: the locks.                                     *)

\* Each worker has a transaction, and the resolutions are a sequence.
Shape ==
  /\ tx = [w \in Worker |-> tx[w]]
  /\ \E S : resolutions \in Seq(S)

\* w holds the row of its conflict.
HoldsConflict(w) == ~ IsRestore(tx[w].request) /\ tx[w].stage \notin {"idle", "conflict"}

\* No conflict row is held twice.
ConflictsExclusive ==
  \A v, w \in Worker : v # w /\ HoldsConflict(v) /\ HoldsConflict(w) =>
    tx[v].request.conflict # tx[w].request.conflict

\* No entity row is held twice.
EntitiesExclusive == \A v, w \in Worker : v # w => tx[v].locks \cap tx[w].locks = {}

\* A restoration starts with the lock of its entity.
RestoreHoldsEntity ==
  \A w \in Worker : IsRestore(tx[w].request) /\ tx[w].stage \notin {"idle", "entity"} =>
    tx[w].request.entity \in tx[w].locks

\* w has done its second lookup.
Rechecked(w) ==
  \/ tx[w].stage \in {"review", "copy", "write", "commit"}
  \/ tx[w].stage = "entity" /\ ~ IsRestore(tx[w].request)

\* A request that is still worked for after the second lookup is not settled.
Unanswered ==
  \A w \in Worker : Rechecked(w) => \A d \in Audit(tx[w].request) : d.request # tx[w].request

LInv == Shape /\ ConflictsExclusive /\ EntitiesExclusive /\ RestoreHoldsEntity /\ Unanswered

-----------------------------------------------------------------------------
(* Steps of one transaction that write nothing.                            *)

\* An entry in a transaction is what a step made of it; the others are as they were.
LEMMA Moved ==
  ASSUME Shape, NEW w \in Worker, NEW t, Become(w, t)
  PROVE  /\ tx' = [v \in Worker |-> IF v = w THEN t ELSE tx[v]]
         /\ tx'[w] = t
         /\ \A v \in Worker : v # w => tx'[v] = tx[v]
BY DEF Shape, Become

\* A transaction that ends holds nothing.
LEMMA Ends ==
  ASSUME LInv, NEW w \in Worker, Become(w, Idle), UNCHANGED storeVars
  PROVE  LInv'
<1>1. /\ tx' = [v \in Worker |-> IF v = w THEN Idle ELSE tx[v]]
      /\ tx'[w] = Idle
      /\ \A v \in Worker : v # w => tx'[v] = tx[v]
  BY Moved DEF LInv
<1>2. resolutions' = resolutions /\ restores' = restores
  BY DEF storeVars
<1>3. Idle.stage = "idle" /\ Idle.locks = {}
  BY DEF Idle, Tx
<1>4. Shape'
  BY <1>1, <1>2, <1>3 DEF LInv, Shape
<1>5. ConflictsExclusive'
  BY <1>1, <1>3 DEF LInv, ConflictsExclusive, HoldsConflict
<1>6. EntitiesExclusive'
  BY <1>1, <1>3 DEF LInv, EntitiesExclusive
<1>7. RestoreHoldsEntity'
  BY <1>1, <1>3 DEF LInv, RestoreHoldsEntity
<1>8. Unanswered'
  BY <1>1, <1>2, <1>3 DEF LInv, Unanswered, Rechecked, Audit
<1> QED
  BY <1>4, <1>5, <1>6, <1>7, <1>8 DEF LInv

\* A transaction that moves on with its request keeps the invariant when the
\* rows it holds are its own, and it looked up its request before it went on.
LEMMA MovesOn ==
  ASSUME LInv, NEW w \in Worker, UNCHANGED storeVars,
         NEW stage, NEW locks, NEW rows,
         Become(w, Tx(stage, tx[w].request, locks, rows)),
         ~ IsRestore(tx[w].request) /\ stage \notin {"idle", "conflict"} =>
           HoldsConflict(w) \/ ConflictFree(w, tx[w].request.conflict),
         \A v \in Worker : v # w => locks \cap tx[v].locks = {},
         IsRestore(tx[w].request) /\ stage \notin {"idle", "entity"} =>
           tx[w].request.entity \in locks,
         stage \in {"review", "copy", "write", "commit"}
             \/ (stage = "entity" /\ ~ IsRestore(tx[w].request)) =>
           Rechecked(w) \/ ~ Settled(tx[w].request)
  PROVE  LInv'
<1> DEFINE t == Tx(stage, tx[w].request, locks, rows)
<1>1. /\ tx' = [v \in Worker |-> IF v = w THEN t ELSE tx[v]]
      /\ tx'[w] = t
      /\ \A v \in Worker : v # w => tx'[v] = tx[v]
  BY Moved DEF LInv
<1>2. resolutions' = resolutions /\ restores' = restores
  BY DEF storeVars
<1>3. t.stage = stage /\ t.request = tx[w].request /\ t.locks = locks /\ t.rows = rows
  BY DEF Tx
<1>4. Shape'
  BY <1>1, <1>2 DEF LInv, Shape
<1>5. ConflictsExclusive'
  <2> SUFFICES ASSUME NEW u \in Worker, NEW v \in Worker, u # v,
                      HoldsConflict(u)', HoldsConflict(v)'
               PROVE  tx'[u].request.conflict # tx'[v].request.conflict
    BY DEF ConflictsExclusive
  <2>1. CASE u # w /\ v # w
    BY <1>1, <2>1 DEF LInv, ConflictsExclusive, HoldsConflict
  <2>2. CASE u = w
    BY <1>1, <1>3, <2>2 DEF LInv, ConflictsExclusive, HoldsConflict, ConflictFree, Others
  <2>3. CASE v = w
    BY <1>1, <1>3, <2>3 DEF LInv, ConflictsExclusive, HoldsConflict, ConflictFree, Others
  <2> QED
    BY <2>1, <2>2, <2>3
<1>6. EntitiesExclusive'
  BY <1>1, <1>3 DEF LInv, EntitiesExclusive
<1>7. RestoreHoldsEntity'
  BY <1>1, <1>3 DEF LInv, RestoreHoldsEntity
<1>8. Unanswered'
  <2>1. \A r : Audit(r)' = Audit(r)
    BY <1>2 DEF Audit
  <2>2. \A v \in Worker : v # w /\ Rechecked(v)' => Rechecked(v)
    BY <1>1 DEF Rechecked
  <2>3. Rechecked(w)' => \A d \in Audit(tx[w].request) : d.request # tx[w].request
    BY <1>1, <1>3 DEF LInv, Unanswered, Rechecked, Settled
  <2> QED
    BY <1>1, <1>3, <2>1, <2>2, <2>3 DEF LInv, Unanswered
<1> QED
  BY <1>4, <1>5, <1>6, <1>7, <1>8 DEF LInv

-----------------------------------------------------------------------------
(* Every step.                                                             *)

LEMMA BeginKeeps ==
  ASSUME LInv, NEW w \in Worker, NEW r \in Request, Begin(w, r)
  PROVE  LInv'
<1> DEFINE stage == IF IsRestore(r) THEN "entity" ELSE "conflict"
           t == Tx(stage, r, {}, {})
<1>1. Become(w, t) /\ UNCHANGED storeVars
  BY DEF Begin
<1>2. /\ tx' = [v \in Worker |-> IF v = w THEN t ELSE tx[v]]
      /\ tx'[w] = t
      /\ \A v \in Worker : v # w => tx'[v] = tx[v]
  BY <1>1, Moved DEF LInv
<1>3. resolutions' = resolutions /\ restores' = restores
  BY <1>1 DEF storeVars
<1>4. t.stage = stage /\ t.request = r /\ t.locks = {}
  BY DEF Tx
<1>5. Shape'
  BY <1>2, <1>3 DEF LInv, Shape
<1>6. ConflictsExclusive'
  BY <1>2, <1>4 DEF LInv, ConflictsExclusive, HoldsConflict
<1>7. EntitiesExclusive'
  BY <1>2, <1>4 DEF LInv, EntitiesExclusive
<1>8. RestoreHoldsEntity'
  BY <1>2, <1>4 DEF LInv, RestoreHoldsEntity
<1>9. Unanswered'
  BY <1>2, <1>3, <1>4 DEF LInv, Unanswered, Rechecked, Audit
<1> QED
  BY <1>5, <1>6, <1>7, <1>8, <1>9 DEF LInv

LEMMA LockConflictKeeps ==
  ASSUME LInv, NEW w \in Worker, LockConflict(w)
  PROVE  LInv'
<1>1. Become(w, Tx("recheck", tx[w].request, tx[w].locks, tx[w].rows))
  BY DEF LockConflict, To
<1>2. /\ tx[w].stage = "conflict" /\ ConflictFree(w, tx[w].request.conflict)
      /\ UNCHANGED storeVars
  BY DEF LockConflict
<1>3. \A v \in Worker : v # w => tx[w].locks \cap tx[v].locks = {}
  BY DEF LInv, EntitiesExclusive
<1>4. IsRestore(tx[w].request) => tx[w].request.entity \in tx[w].locks
  BY <1>2 DEF LInv, RestoreHoldsEntity
<1> QED
  BY <1>1, <1>2, <1>3, <1>4, MovesOn

LEMMA RecheckKeeps ==
  ASSUME LInv, NEW w \in Worker, Recheck(w)
  PROVE  LInv'
<1>1. tx[w].stage = "recheck" /\ UNCHANGED storeVars
  BY DEF Recheck
<1>2. CASE Settled(tx[w].request)
  BY <1>1, <1>2, Ends DEF Recheck
<1>3. CASE ~ Settled(tx[w].request)
  <2> DEFINE stage == IF IsRestore(tx[w].request) THEN "review" ELSE "entity"
  <2>1. To(w, stage)
    BY <1>3 DEF Recheck
  <2>2. Become(w, Tx(stage, tx[w].request, tx[w].locks, tx[w].rows))
    BY <2>1 DEF To
  <2>3. \A v \in Worker : v # w => tx[w].locks \cap tx[v].locks = {}
    BY DEF LInv, EntitiesExclusive
  <2>4. IsRestore(tx[w].request) => tx[w].request.entity \in tx[w].locks
    BY <1>1 DEF LInv, RestoreHoldsEntity
  <2>5. ~ IsRestore(tx[w].request) => HoldsConflict(w)
    BY <1>1 DEF HoldsConflict
  <2> QED
    BY <1>1, <1>3, <2>2, <2>3, <2>4, <2>5, MovesOn
<1> QED
  BY <1>2, <1>3

LEMMA LockEntityKeeps ==
  ASSUME LInv, NEW w \in Worker, LockEntity(w)
  PROVE  LInv'
<1> DEFINE e == tx[w].request.entity
           stage == IF IsRestore(tx[w].request) THEN "recheck" ELSE "review"
<1>1. tx[w].stage = "entity" /\ UNCHANGED storeVars
  BY DEF LockEntity
<1>2. CASE Become(w, Idle)
  BY <1>1, <1>2, Ends
<1>3. CASE LockFree(w, e) /\ Become(w, Tx(stage, tx[w].request, {e}, {}))
  <2>1. \A v \in Worker : v # w => {e} \cap tx[v].locks = {}
    BY <1>3 DEF LockFree, Others
  <2>2. ~ IsRestore(tx[w].request) => HoldsConflict(w) /\ Rechecked(w)
    BY <1>1 DEF HoldsConflict, Rechecked
  <2>3. IsRestore(tx[w].request) => stage = "recheck"
    OBVIOUS
  <2> QED
    BY <1>1, <1>3, <2>1, <2>2, <2>3, MovesOn
<1> QED
  BY <1>2, <1>3 DEF LockEntity

\* From its second lookup on, a transaction that takes locks no one holds and
\* goes to a later stage keeps the invariant.
LEMMA Advances ==
  ASSUME LInv, NEW w \in Worker, UNCHANGED storeVars,
         tx[w].stage \in {"review", "copy", "write"},
         NEW stage \in {"copy", "write", "commit"}, NEW locks, NEW rows,
         tx[w].locks \subseteq locks,
         \A v \in Worker : v # w => locks \cap tx[v].locks = {},
         Become(w, Tx(stage, tx[w].request, locks, rows))
  PROVE  LInv'
<1>1. Rechecked(w)
  BY DEF Rechecked
<1>2. ~ IsRestore(tx[w].request) => HoldsConflict(w)
  BY DEF HoldsConflict
<1>3. IsRestore(tx[w].request) => tx[w].request.entity \in locks
  BY DEF LInv, RestoreHoldsEntity
<1> QED
  BY <1>1, <1>2, <1>3, MovesOn

LEMMA ReviewKeeps ==
  ASSUME LInv, NEW w \in Worker, Review(w)
  PROVE  LInv'
<1>1. tx[w].stage = "review" /\ UNCHANGED storeVars
  BY DEF Review
<1>2. CASE Become(w, Idle)
  BY <1>1, <1>2, Ends
<1>3. ASSUME NEW stage \in {"copy", "write"}, To(w, stage)
      PROVE  LInv'
  <2>1. Become(w, Tx(stage, tx[w].request, tx[w].locks, tx[w].rows))
    BY <1>3 DEF To
  <2>2. \A v \in Worker : v # w => tx[w].locks \cap tx[v].locks = {}
    BY DEF LInv, EntitiesExclusive
  <2> QED
    BY <1>1, <2>1, <2>2, Advances
<1> QED
  BY <1>2, <1>3 DEF Review

LEMMA LockCopyKeeps ==
  ASSUME LInv, NEW w \in Worker, LockCopy(w)
  PROVE  LInv'
<1> DEFINE e == Prior(tx[w].request).entity
<1>1. tx[w].stage = "copy" /\ UNCHANGED storeVars /\ LockFree(w, e)
  BY DEF LockCopy
<1>2. CASE Become(w, Idle)
  BY <1>1, <1>2, Ends
<1>3. CASE Become(w, Tx("write", tx[w].request, tx[w].locks \cup {e}, {}))
  <2>1. \A v \in Worker : v # w => (tx[w].locks \cup {e}) \cap tx[v].locks = {}
    BY <1>1 DEF LInv, EntitiesExclusive, LockFree, Others
  <2> QED
    BY <1>1, <1>3, <2>1, Advances
<1> QED
  BY <1>2, <1>3 DEF LockCopy

LEMMA WriteKeeps ==
  ASSUME LInv, NEW w \in Worker, Write(w)
  PROVE  LInv'
<1> DEFINE row == NewRow(tx[w].request)
<1>1. tx[w].stage = "write" /\ UNCHANGED storeVars
  BY DEF Write
<1>2. CASE Become(w, Idle)
  BY <1>1, <1>2, Ends
<1>3. CASE Become(w, Tx("commit", tx[w].request, tx[w].locks, {row}))
  <2>1. \A v \in Worker : v # w => tx[w].locks \cap tx[v].locks = {}
    BY DEF LInv, EntitiesExclusive
  <2> QED
    BY <1>1, <1>3, <2>1, Advances
<1> QED
  BY <1>2, <1>3 DEF Write

\* Appending to a sequence adds one element to its set.
LEMMA AppendAdds ==
  ASSUME NEW S, NEW s \in Seq(S), NEW d
  PROVE  /\ Append(s, d) \in Seq(S \cup {d})
         /\ ToSet(Append(s, d)) = ToSet(s) \cup {d}
<1>1. s \in Seq(S \cup {d})
  OBVIOUS
<1>2. Append(s, d) \in Seq(S \cup {d})
  BY <1>1
<1>3. /\ DOMAIN Append(s, d) = DOMAIN s \cup {Len(s) + 1}
      /\ \A i \in DOMAIN s : Append(s, d)[i] = s[i]
      /\ Append(s, d)[Len(s) + 1] = d
  BY <1>1
<1> QED
  BY <1>2, <1>3 DEF ToSet

\* Two transactions that are past the second lookup work for different requests.
LEMMA DifferentRequests ==
  ASSUME LInv, NEW v \in Worker, NEW w \in Worker, v # w, Rechecked(v), Rechecked(w)
  PROVE  tx[v].request # tx[w].request
<1> SUFFICES ASSUME tx[v].request = tx[w].request
             PROVE  FALSE
  OBVIOUS
<1>1. CASE IsRestore(tx[w].request)
  <2>1. tx[w].request.entity \in tx[v].locks \cap tx[w].locks
    BY <1>1 DEF LInv, RestoreHoldsEntity, Rechecked
  <2> QED
    BY <2>1 DEF LInv, EntitiesExclusive
<1>2. CASE ~ IsRestore(tx[w].request)
  <2>1. HoldsConflict(v) /\ HoldsConflict(w)
    BY <1>2 DEF HoldsConflict, Rechecked
  <2> QED
    BY <2>1 DEF LInv, ConflictsExclusive
<1> QED
  BY <1>1, <1>2

LEMMA CommitKeeps ==
  ASSUME LInv, NEW w \in Worker, Commit(w)
  PROVE  LInv'
<1> DEFINE r == tx[w].request
<1>1. PICK d : /\ d.request = r
               /\ IF IsRestore(r)
                  THEN restores' = restores \cup {d} /\ UNCHANGED resolutions
                  ELSE resolutions' = Append(resolutions, d) /\ UNCHANGED restores
  BY DEF Commit
<1>2. /\ tx' = [v \in Worker |-> IF v = w THEN Idle ELSE tx[v]]
      /\ tx'[w] = Idle
      /\ \A v \in Worker : v # w => tx'[v] = tx[v]
  <2>1. Become(w, Idle)
    BY DEF Commit
  <2> QED
    BY <2>1, Moved DEF LInv
<1>3. Idle.stage = "idle" /\ Idle.locks = {}
  BY DEF Idle, Tx
<1>4. PICK S : resolutions \in Seq(S)
  BY DEF LInv, Shape
<1>5. Append(resolutions, d) \in Seq(S \cup {d}) /\ ToSet(Append(resolutions, d)) = ToSet(resolutions) \cup {d}
  BY <1>4, AppendAdds
<1>6. Shape'
  <2>1. \E T : resolutions' \in Seq(T)
    BY <1>1, <1>4, <1>5
  <2> QED
    BY <1>2, <1>3, <2>1 DEF LInv, Shape
<1>7. ConflictsExclusive'
  BY <1>2, <1>3 DEF LInv, ConflictsExclusive, HoldsConflict
<1>8. EntitiesExclusive'
  BY <1>2, <1>3 DEF LInv, EntitiesExclusive
<1>9. RestoreHoldsEntity'
  BY <1>2, <1>3 DEF LInv, RestoreHoldsEntity
<1>10. Unanswered'
  <2>1. \A q : Audit(q)' \subseteq Audit(q) \cup {d}
    BY <1>1, <1>5 DEF Audit
  <2> SUFFICES ASSUME NEW v \in Worker, Rechecked(v)'
               PROVE  \A a \in Audit(tx[v].request) \cup {d} : a.request # tx[v].request /\ tx'[v] = tx[v]
    BY <2>1 DEF Unanswered
  <2>2. v # w /\ tx'[v] = tx[v]
    BY <1>2, <1>3 DEF Rechecked
  <2>3. Rechecked(v) /\ Rechecked(w)
    BY <2>2 DEF Rechecked, Commit
  <2>4. d.request # tx[v].request
    BY <1>1, <2>2, <2>3, DifferentRequests
  <2> QED
    BY <2>2, <2>3, <2>4 DEF LInv, Unanswered
<1> QED
  BY <1>6, <1>7, <1>8, <1>9, <1>10 DEF LInv

-----------------------------------------------------------------------------
(* Retries.                                                                *)

LEMMA InitHolds ==
  ASSUME Init
  PROVE  LInv
<1>1. \A w \in Worker : tx[w] = Idle
  BY DEF Init
<1>2. Idle.stage = "idle" /\ Idle.locks = {}
  BY DEF Idle, Tx
<1>3. Shape
  <2>1. resolutions \in Seq({})
    BY DEF Init
  <2> QED
    BY <1>1, <1>2, <2>1 DEF Init, Shape
<1> QED
  BY <1>1, <1>2, <1>3 DEF LInv, ConflictsExclusive, HoldsConflict, EntitiesExclusive,
                          RestoreHoldsEntity, Unanswered, Rechecked

LEMMA NextKeeps ==
  ASSUME LInv, [Next]_vars
  PROVE  LInv'
<1>1. ASSUME UNCHANGED <<resolutions, restores, tx>>
      PROVE  LInv'
  BY <1>1 DEF LInv, Shape, ConflictsExclusive, HoldsConflict, EntitiesExclusive,
              RestoreHoldsEntity, Unanswered, Rechecked, Audit
<1>2. ASSUME NEW w \in Worker, NEW r \in Request, Begin(w, r)
      PROVE  LInv'
  BY <1>2, BeginKeeps
<1>3. ASSUME NEW w \in Worker, Abort(w)
      PROVE  LInv'
  BY <1>3, Ends DEF Abort
<1>4. ASSUME NEW w \in Worker, Handle(w)
      PROVE  LInv'
  BY <1>3, <1>4, LockConflictKeeps, LockEntityKeeps, RecheckKeeps, ReviewKeeps, LockCopyKeeps,
     WriteKeeps, CommitKeeps DEF Handle
<1>5. ASSUME NEW op, NEW e, NEW kind, NEW content, Push(op, e, kind, content)
      PROVE  LInv'
  BY <1>1, <1>5 DEF Push
<1> QED
  BY <1>1, <1>2, <1>4, <1>5 DEF Next, vars

\* In every behaviour, no transaction that is past its second lookup works for a
\* request that is settled: the retry of a settled decision gets the answer the
\* first attempt was given, and is never refused because of its own effect.
THEOREM RetriesMeetAnswers == Spec => []RetryMeetsAnswer
<1>1. Init => LInv
  BY InitHolds
<1>2. LInv /\ [Next]_vars => LInv'
  BY NextKeeps
<1>3. LInv => RetryMeetsAnswer
  BY DEF LInv, Unanswered, Rechecked, RetryMeetsAnswer
<1> QED
  BY <1>1, <1>2, <1>3, PTL DEF Spec

-----------------------------------------------------------------------------
(* The inductive invariant: the rows.                                      *)

\* The versions of an entity are numbered from 1 without a gap.
Numbered ==
  \A e \in Entity : /\ IsFiniteSet(RowsOf(e))
                    /\ {v.version : v \in RowsOf(e)} = 1 .. Length(e)

\* No two rows, committed or not, have a unique key in common.
RowsApart ==
  /\ \A p, q \in versions : Clash(p, q) => p = q
  /\ \A w \in Worker : \A p \in tx[w].rows :
       /\ \A q \in versions : ~ Clash(p, q)
       /\ \A v \in Worker \ {w} : \A q \in tx[v].rows : ~ Clash(p, q)

\* Only an entity that is there has a reference, and not a live one when deleted.
ReferencesFit ==
  /\ \A e \in Entity : RowsOf(e) = {} => references[e] = "none"
  /\ DeletedStaysHidden

Decisions == ToSet(resolutions) \cup restores

\* A decision wrote the version it is recorded with: of the copy that it saved or
\* deleted again, or of the entity it is about.
DecisionFits(d) ==
  /\ d.request \in Request
  /\ \E v \in RowsOf(d.entity) : v.version = d.version /\ v.op = d.request.op
  /\ d.request.action = "saveCopy" => d.entity = d.request.copy /\ d.version = 1
  /\ d.request.action \notin {"saveCopy", "undo"} => d.entity = d.request.entity
  /\ d.request.action = "undo" =>
       \E p \in Settlements(d.request.conflict) :
         /\ p.request.op = d.request.undoes
         /\ d.entity = IF p.request.action = "saveCopy" THEN p.entity ELSE d.request.entity

DecisionsFit ==
  /\ \A d \in ToSet(resolutions) : DecisionFits(d) /\ ~ IsRestore(d.request)
  /\ \A d \in restores : DecisionFits(d) /\ IsRestore(d.request)
  /\ \A i, j \in DOMAIN resolutions : resolutions[i].request.op = resolutions[j].request.op => i = j

-----------------------------------------------------------------------------
(* The open transactions.                                                  *)

Locked == {"review", "copy", "write", "commit"}

\* What a transaction has read under its locks stays so.
TxFits(t) ==
  LET r == t.request
  IN
  /\ t.stage = "idle" => t = Idle
  /\ t.stage # "idle" => r \in Request
  /\ t.stage = "conflict" => ~ IsRestore(r)
  /\ t.stage # "commit" => t.rows = {}
  /\ t.stage \in Locked => r.entity \in t.locks
  /\ t.stage \in {"copy", "write", "commit"} => Unchanged(r) /\ Available(r)
  /\ t.stage = "copy" => UndoesCopy(r)
  /\ t.stage \in {"write", "commit"} /\ UndoesCopy(r) =>
       Prior(r).entity \in t.locks /\ CopyUnchanged(Prior(r))
  /\ t.stage = "commit" => t.rows = {NewRow(r)}
  /\ \A e \in t.locks : RowsOf(e) # {}

HInv ==
  /\ TypeOK
  /\ Numbered
  /\ RowsApart
  /\ ReferencesFit
  /\ DecisionsFit
  /\ UndoesTheLatest
  /\ UndoRestores
  /\ \A w \in Worker : TxFits(tx[w])

-----------------------------------------------------------------------------
(* Types.                                                                  *)

LEMMA RequestType ==
  ASSUME NEW r \in Request
  PROVE  /\ r.conflict \in Conflict \cup {NoConflict} /\ r.entity \in Entity /\ r.copy \in Entity \cup {0}
         /\ r.action \in Action /\ r.op \in Operation /\ r.payload \in Content
         /\ IsRestore(r) => r.action = "restoreVersion"
         /\ ~ IsRestore(r) => r.conflict \in Conflict /\ r.entity = r.conflict.entity
         /\ r.action = "saveCopy" => r.copy \in Entity
         /\ r.action = "undo" <=> r.undoes # NoOp
BY RequestAssumption DEF WellFormed, IsRestore, Operation, Content

LEMMA CandidateType ==
  ASSUME NEW c \in Conflict
  PROVE  /\ c.local.content \in Content /\ c.cloud.content \in Content
         /\ c.local.tombstone \in BOOLEAN /\ c.cloud.tombstone \in BOOLEAN
BY RequestAssumption DEF Content

LEMMA TxFields ==
  ASSUME NEW stage, NEW r, NEW locks, NEW rows
  PROVE  LET t == Tx(stage, r, locks, rows)
         IN  t.stage = stage /\ t.request = r /\ t.locks = locks /\ t.rows = rows
BY DEF Tx

LEMMA IdleFits ==
  /\ Idle \in Transaction /\ TxFits(Idle) /\ Idle.stage = "idle" /\ Idle.locks = {} /\ Idle.rows = {}
BY DEF Idle, Tx, Transaction, Stage, TxFits, Locked

-----------------------------------------------------------------------------
(* Versions.                                                               *)

LEMMA NumberOf ==
  ASSUME NEW R, \A p, q \in R : p.version = q.version => p = q, NEW v \in R
  PROVE  (CHOOSE x \in R : x.version = v.version) = v
OBVIOUS

LEMMA RowOf ==
  ASSUME HInv, NEW e, NEW v \in RowsOf(e)
  PROVE  Row(e, v.version) = v /\ HasRow(e, v.version)
<1>1. \A p, q \in RowsOf(e) : p.version = q.version => p = q
  BY DEF HInv, RowsApart, Clash, RowsOf
<1> QED BY <1>1, NumberOf DEF Row, HasRow

LEMMA LengthIs ==
  ASSUME HInv, NEW e \in Entity
  PROVE  /\ Length(e) \in Nat /\ IsFiniteSet(RowsOf(e)) /\ RowsOf(e) \subseteq VersionRow
         /\ (RowsOf(e) = {} <=> Length(e) = 0)
         /\ \A n : HasRow(e, n) <=> n \in 1 .. Length(e)
         /\ \A n \in 1 .. Length(e) : Row(e, n) \in RowsOf(e) /\ Row(e, n).version = n
         /\ \A v \in RowsOf(e) : v.version \in 1 .. Length(e)
<1>1. IsFiniteSet(RowsOf(e)) /\ {v.version : v \in RowsOf(e)} = 1 .. Length(e)
  BY DEF HInv, Numbered
<1>2. Length(e) \in Nat
  BY <1>1, FS_CardinalityType DEF Length
<1>3. (RowsOf(e) = {} <=> Length(e) = 0)
  BY <1>1, FS_EmptySet DEF Length
<1>4. \A n : HasRow(e, n) <=> n \in 1 .. Length(e)
  BY <1>1 DEF HasRow
<1>5. \A n \in 1 .. Length(e) : Row(e, n) \in RowsOf(e) /\ Row(e, n).version = n
  BY <1>4 DEF HasRow, Row
<1>6. RowsOf(e) \subseteq VersionRow
  BY DEF HInv, TypeOK, RowsOf
<1>7. \A v \in RowsOf(e) : v.version \in 1 .. Length(e)
  BY <1>1
<1> QED BY <1>1, <1>2, <1>3, <1>4, <1>5, <1>6, <1>7

LEMMA LatestIs ==
  ASSUME HInv, NEW e \in Entity, RowsOf(e) # {}
  PROVE  Latest(e) \in RowsOf(e) /\ Latest(e).version = Length(e)
BY LengthIs DEF Latest

LEMMA StateIs ==
  ASSUME HInv, NEW e \in Entity, NEW n, HasRow(e, n)
  PROVE  StateOf(Row(e, n)).content \in Content /\ StateOf(Row(e, n)).tombstone \in BOOLEAN
<1>1. Row(e, n) \in VersionRow
  BY LengthIs
<1> QED BY <1>1 DEF StateOf, VersionRow

-----------------------------------------------------------------------------
(* Resolutions.                                                            *)

LEMMA ResolutionsAre ==
  ASSUME HInv
  PROVE  /\ resolutions \in Seq(Decision) /\ Len(resolutions) \in Nat
         /\ DOMAIN resolutions = 1 .. Len(resolutions)
         /\ \A i \in DOMAIN resolutions : resolutions[i] \in Decision /\ resolutions[i] \in ToSet(resolutions)
         /\ \A d \in ToSet(resolutions) : \E i \in DOMAIN resolutions : d = resolutions[i]
         /\ \A c : Settlements(c) \subseteq ToSet(resolutions)
         /\ \A p, q \in ToSet(resolutions) : p.request.op = q.request.op => p = q
<1>1. resolutions \in Seq(Decision)
  BY DEF HInv, TypeOK
<1>2. \A i, j \in DOMAIN resolutions : resolutions[i].request.op = resolutions[j].request.op => i = j
  BY DEF HInv, DecisionsFit
<1>3. \A c : Settlements(c) \subseteq ToSet(resolutions)
  BY DEF Settlements, Of, ToSet
<1>4. \A d \in ToSet(resolutions) : \E i \in DOMAIN resolutions : d = resolutions[i]
  BY DEF ToSet
<1>5. \A i \in DOMAIN resolutions : resolutions[i] \in Decision /\ resolutions[i] \in ToSet(resolutions)
  BY <1>1 DEF ToSet
<1> QED BY <1>1, <1>2, <1>3, <1>4, <1>5

LEMMA OpOf ==
  ASSUME NEW S, \A p, q \in S : p.request.op = q.request.op => p = q, NEW p \in S
  PROVE  (CHOOSE x \in S : x.request.op = p.request.op) = p
OBVIOUS

\* What is undone is the latest resolution of the conflict.
LEMMA PriorIs ==
  ASSUME HInv, NEW r, Undoable(r)
  PROVE  /\ Prior(r) \in Settlements(r.conflict) /\ Prior(r) \in ToSet(resolutions)
         /\ Prior(r) \in Decision /\ Prior(r).request.op = r.undoes
         /\ Prior(r).request.conflict = r.conflict
<1>1. PICK m \in Of(r.conflict) : resolutions[m].request.op = r.undoes
  BY DEF Undoable
<1>2. /\ m \in DOMAIN resolutions /\ resolutions[m] \in Settlements(r.conflict)
      /\ resolutions[m].request.conflict = r.conflict
  BY <1>1 DEF Settlements, Of
<1>3. resolutions[m] \in ToSet(resolutions) /\ resolutions[m] \in Decision
  BY <1>2, ResolutionsAre
<1>4. \A p, q \in Settlements(r.conflict) : p.request.op = q.request.op => p = q
  BY ResolutionsAre
<1>5. Prior(r) = resolutions[m]
  BY <1>1, <1>2, <1>4, OpOf DEF Prior
<1> QED BY <1>1, <1>2, <1>3, <1>5

-----------------------------------------------------------------------------
(* What a transaction reads under its locks.                               *)

\* Rows and resolutions read from a given set of them.
RowIn(R, n)    == CHOOSE v \in R : v.version = n
PriorIn(S, op) == CHOOSE d \in S : d.request.op = op

LEMMA SameRows ==
  ASSUME NEW e, RowsOf(e)' = RowsOf(e)
  PROVE  /\ Length(e)' = Length(e) /\ Latest(e)' = Latest(e)
         /\ \A n : Row(e, n)' = Row(e, n)
         /\ \A n : HasRow(e, n)' <=> HasRow(e, n)
<1>1. Length(e)' = Length(e)
  BY DEF Length
<1>2. ASSUME NEW n
      PROVE  Row(e, n)' = RowIn(RowsOf(e)', n) /\ Row(e, n) = RowIn(RowsOf(e), n)
  BY DEF Row, RowIn
<1>3. \A n : Row(e, n)' = Row(e, n)
  BY <1>2
<1>4. \A n : HasRow(e, n)' <=> HasRow(e, n)
  BY DEF HasRow
<1>5. Latest(e)' = Latest(e)
  <2>1. Latest(e)' = RowIn(RowsOf(e)', Length(e)') /\ Latest(e) = RowIn(RowsOf(e), Length(e))
    BY DEF Latest, Row, RowIn
  <2> QED BY <1>1, <2>1
<1> QED BY <1>1, <1>3, <1>4, <1>5

\* A request sees what it saw, when its entity has the rows it had and its conflict
\* the resolutions.
LEMMA SameView ==
  ASSUME NEW r, RowsOf(r.entity)' = RowsOf(r.entity),
         r.action = "undo" =>
           Settlements(r.conflict)' = Settlements(r.conflict) /\ (Undoable(r)' <=> Undoable(r))
  PROVE  /\ Unchanged(r)' <=> Unchanged(r)
         /\ r.action = "undo" => Prior(r)' = Prior(r)
         /\ UndoesCopy(r)' <=> UndoesCopy(r)
         /\ Available(r)' <=> Available(r)
         /\ Target(r)' = Target(r)
         /\ Source(r)' = Source(r)
<1>1. /\ Length(r.entity)' = Length(r.entity) /\ Latest(r.entity)' = Latest(r.entity)
      /\ \A n : Row(r.entity, n)' = Row(r.entity, n)
      /\ \A n : HasRow(r.entity, n)' <=> HasRow(r.entity, n)
  BY SameRows
<1>2. r.action = "undo" => Prior(r)' = Prior(r)
  <2>1. Prior(r)' = PriorIn(Settlements(r.conflict)', r.undoes) /\ Prior(r) = PriorIn(Settlements(r.conflict), r.undoes)
    BY DEF Prior, PriorIn
  <2> QED BY <2>1
<1>3. UndoesCopy(r)' <=> UndoesCopy(r)
  BY <1>2 DEF UndoesCopy
<1>4. Unchanged(r)' <=> Unchanged(r)
  BY <1>1 DEF Unchanged
<1>5. Available(r)' <=> Available(r)
  <2>1. r.action = "undo" =>
          (HasRow(r.entity, Prior(r).version - 1)' <=> HasRow(r.entity, Prior(r).version - 1))
    BY <1>2 DEF HasRow
  <2>2. HasRow(r.entity, r.target)' <=> HasRow(r.entity, r.target)
    BY <1>1
  <2> QED BY <1>3, <2>1, <2>2 DEF Available
<1>6. Target(r)' = Target(r)
  BY <1>2, <1>3 DEF Target, UndoesCopy
<1>7. r.action = "undo" => Before(r)' = Before(r)
  <2>1. Before(r)' = StateOf(RowIn(RowsOf(r.entity)', Prior(r)'.version - 1)) /\ Before(r) = StateOf(RowIn(RowsOf(r.entity), Prior(r).version - 1))
    BY DEF Before, Row, RowIn, StateOf
  <2> QED BY <1>2, <2>1
<1>8. StateOf(Row(r.entity, r.target))' = StateOf(Row(r.entity, r.target))
  BY <1>1 DEF StateOf
<1>9. Source(r)' = Source(r)
  BY <1>3, <1>7, <1>8 DEF Source
<1> QED BY <1>2, <1>3, <1>4, <1>5, <1>6, <1>9

\* A transaction whose entities keep their rows, and whose conflict its resolutions,
\* still fits.
LEMMA StillFits ==
  ASSUME NEW t, TxFits(t),
         \A e \in t.locks : RowsOf(e)' = RowsOf(e),
         t.stage \in Locked /\ t.request.action = "undo" =>
           /\ Settlements(t.request.conflict)' = Settlements(t.request.conflict)
           /\ Undoable(t.request)' <=> Undoable(t.request)
  PROVE  TxFits(t)'
<1> DEFINE r == t.request
<1>1. \A e \in t.locks : RowsOf(e)' # {}
  BY DEF TxFits
<1>2. CASE t.stage \notin Locked
  <2>1. t.stage \notin {"review", "copy", "write", "commit"}
    BY <1>2 DEF Locked
  <2> QED BY <1>1, <2>1 DEF TxFits, Locked, Idle, Tx, IsRestore
<1>3. CASE t.stage \in Locked
  <2>1. RowsOf(r.entity)' = RowsOf(r.entity)
    BY <1>3 DEF TxFits
  <2>2. r.action = "undo" => Settlements(r.conflict)' = Settlements(r.conflict) /\ (Undoable(r)' <=> Undoable(r))
    BY <1>3
  <2>3. /\ Unchanged(r)' <=> Unchanged(r)
        /\ r.action = "undo" => Prior(r)' = Prior(r)
        /\ UndoesCopy(r)' <=> UndoesCopy(r)
        /\ Available(r)' <=> Available(r)
        /\ Target(r)' = Target(r)
        /\ Source(r)' = Source(r)
    BY <2>1, <2>2, SameView
  <2>4. t.stage \in {"write", "commit"} /\ r.action # "saveCopy" =>
          RowsOf(Target(r))' = RowsOf(Target(r))
    <3>1. t.stage \in {"write", "commit"} /\ r.action # "saveCopy" => Target(r) \in t.locks
      BY <1>3 DEF TxFits, Target, Locked
    <3>2. \A e \in t.locks : RowsOf(e)' = {v \in versions' : v.entity = e} /\ RowsOf(e) = {v \in versions : v.entity = e}
      BY DEF RowsOf
    <3>3. RowsOf(Target(r))' = {v \in versions' : v.entity = Target(r)'} /\ RowsOf(Target(r)) = {v \in versions : v.entity = Target(r)}
      BY DEF RowsOf
    <3> QED BY <2>3, <3>1, <3>2, <3>3
  <2>5. t.stage = "commit" => NewRow(r)' = NewRow(r)
    <3>1. t.stage = "commit" /\ r.action # "saveCopy" => Length(Target(r))' = Length(Target(r))
      BY <2>4 DEF Length
    <3> QED BY <2>3, <3>1 DEF NewRow, KindFor
  <2>6. UndoesCopy(r) => Prior(r)' = Prior(r)
    BY <2>3 DEF UndoesCopy
  <2>7. t.stage \in {"write", "commit"} /\ UndoesCopy(r) => (CopyUnchanged(Prior(r))' <=> CopyUnchanged(Prior(r)))
    <3>1. t.stage \in {"write", "commit"} /\ UndoesCopy(r) => Target(r) = Prior(r).entity /\ r.action # "saveCopy"
      BY DEF Target, UndoesCopy
    <3>2. t.stage \in {"write", "commit"} /\ UndoesCopy(r) => RowsOf(Prior(r).entity)' = RowsOf(Prior(r).entity)
      <4> HAVE t.stage \in {"write", "commit"} /\ UndoesCopy(r)
      <4>1. RowsOf(Prior(r).entity)' = {v \in versions' : v.entity = Prior(r)'.entity}
        BY DEF RowsOf
      <4>2. RowsOf(Target(r))' = {v \in versions' : v.entity = Target(r)'}
        BY DEF RowsOf
      <4>3. RowsOf(Target(r))' = RowsOf(Target(r))
        BY <2>4, <3>1
      <4>4. RowsOf(Target(r)) = RowsOf(Prior(r).entity)
        BY <3>1
      <4> QED BY <2>3, <2>6, <3>1, <4>1, <4>2, <4>3, <4>4
    <3>3. t.stage \in {"write", "commit"} /\ UndoesCopy(r) => Length(Prior(r).entity)' = Length(Prior(r).entity)
      BY <3>2 DEF Length
    <3> QED BY <2>6, <3>3 DEF CopyUnchanged
  <2> HIDE DEF r
  <2>8. t.stage \in Locked => t.stage \notin {"idle", "conflict"}
    BY DEF Locked
  <2> QED BY <1>1, <1>3, <2>3, <2>5, <2>6, <2>7, <2>8 DEF TxFits, r
<1> QED BY <1>2, <1>3

-----------------------------------------------------------------------------
(* Steps that write nothing.                                               *)

LEMMA Settles ==
  ASSUME UNCHANGED storeVars
  PROVE  /\ \A e : RowsOf(e)' = RowsOf(e)
         /\ \A c : Of(c)' = Of(c) /\ Settlements(c)' = Settlements(c)
         /\ \A r : Undoable(r)' <=> Undoable(r)
<1>1. versions' = versions /\ resolutions' = resolutions
  BY DEF storeVars
<1>2. \A e : RowsOf(e)' = RowsOf(e)
  BY <1>1 DEF RowsOf
<1>3. \A c : Of(c)' = Of(c)
  BY <1>1 DEF Of
<1>4. \A c : Settlements(c)' = Settlements(c)
  BY <1>1, <1>3 DEF Settlements
<1>5. \A r : Undoable(r)' <=> Undoable(r)
  BY <1>1, <1>3 DEF Undoable
<1> QED BY <1>2, <1>3, <1>4, <1>5

\* A resolution d undoes p.
UndoFits(d, p) ==
  /\ Restores(d, p) \/ (p.request.action = "undo" /\ p.entity # p.request.entity)
  /\ p.request.action = "saveCopy" => d.version = p.version + 1

LEMMA UndoesFit ==
  /\ UndoRestores <=> \A d \in ToSet(resolutions) : d.request.action = "undo" => UndoFits(d, UndoneBy(d))
  /\ UndoRestores' <=> \A d \in ToSet(resolutions') : d.request.action = "undo" => UndoFits(d, UndoneBy(d))'
<1>1. UndoRestores <=> \A d \in ToSet(resolutions) : d.request.action = "undo" => UndoFits(d, UndoneBy(d))
  BY DEF UndoRestores, UndoFits
<1>2. UndoRestores' <=> \A d \in ToSet(resolutions') : d.request.action = "undo" => UndoFits(d, UndoneBy(d))'
  BY DEF UndoRestores, UndoFits
<1> QED BY <1>1, <1>2

\* When the tables stay as they are, the transactions have to fit them.
LEMMA SameStore ==
  ASSUME HInv, UNCHANGED storeVars, tx' \in [Worker -> Transaction],
         \A v \in Worker : TxFits(tx'[v]),
         \A u \in Worker : \A p \in tx'[u].rows : \A q \in versions : ~ Clash(p, q),
         \A u, v \in Worker : \A p \in tx'[u].rows : \A q \in tx'[v].rows : v # u => ~ Clash(p, q)
  PROVE  HInv'
<1>2. versions' = versions /\ resolutions' = resolutions /\ restores' = restores /\ references' = references
  BY DEF storeVars
<1>3. /\ \A e : RowsOf(e)' = RowsOf(e)
      /\ \A c : Of(c)' = Of(c) /\ Settlements(c)' = Settlements(c)
      /\ \A r : Undoable(r)' <=> Undoable(r)
  BY Settles
<1>4. \A e : /\ Length(e)' = Length(e) /\ Latest(e)' = Latest(e)
             /\ \A n : Row(e, n)' = Row(e, n)
  BY <1>3, SameRows
<1>5. TypeOK'
  BY <1>2 DEF HInv, TypeOK
<1>6. Numbered'
  BY <1>3, <1>4 DEF HInv, Numbered
<1>7. RowsApart'
  BY <1>2 DEF HInv, RowsApart, Clash
<1>8. ReferencesFit'
  BY <1>2, <1>3, <1>4 DEF HInv, ReferencesFit, DeletedStaysHidden
<1>9. DecisionsFit'
  <2>1. \A d : DecisionFits(d)' <=> DecisionFits(d)
    BY <1>3 DEF DecisionFits
  <2> QED BY <1>2, <2>1 DEF HInv, DecisionsFit
<1>10. UndoesTheLatest'
  BY <1>2, <1>3 DEF HInv, UndoesTheLatest
<1>11. UndoRestores'
  <2>1. \A d : UndoneBy(d)' = UndoneBy(d)
    BY <1>2 DEF UndoneBy
  <2>2. \A d, p : UndoFits(d, p)' <=> UndoFits(d, p)
    BY <1>4 DEF UndoFits, Restores, Predecessor, StateOf
  <2> QED BY <1>2, <2>1, <2>2, UndoesFit DEF HInv
<1>12. ASSUME NEW v \in Worker
       PROVE  TxFits(tx[v])'
  <2>1. \A u : TxFits(u) => TxFits(u)'
    BY <1>3, StillFits
  <2> QED BY <2>1
<1> QED BY <1>5, <1>6, <1>7, <1>8, <1>9, <1>10, <1>11, <1>12 DEF HInv

\* The transaction that took a step may hold other locks, or rows that clash with none.
LEMMA QuietStep ==
  ASSUME HInv, LInv, UNCHANGED storeVars, NEW w \in Worker, NEW t \in Transaction, Become(w, t), TxFits(t),
         \A p \in t.rows : /\ \A q \in versions : ~ Clash(p, q)
                           /\ \A v \in Worker \ {w} : \A q \in tx[v].rows : ~ Clash(p, q) /\ ~ Clash(q, p)
  PROVE  HInv'
<1>1. /\ tx' = [v \in Worker |-> IF v = w THEN t ELSE tx[v]]
      /\ tx'[w] = t
      /\ \A v \in Worker : v # w => tx'[v] = tx[v]
  BY Moved DEF LInv
<1>2. tx' \in [Worker -> Transaction] /\ \A v \in Worker : TxFits(tx'[v])
  BY <1>1 DEF HInv, TypeOK
<1>3. \A u \in Worker : \A p \in tx[u].rows :
        /\ \A q \in versions : ~ Clash(p, q)
        /\ \A v \in Worker \ {u} : \A q \in tx[v].rows : ~ Clash(p, q)
  BY DEF HInv, RowsApart
<1>4. \A u \in Worker : \A p \in tx'[u].rows : \A q \in versions : ~ Clash(p, q)
  BY <1>1, <1>3
<1>5. ASSUME NEW u \in Worker, NEW v \in Worker, v # u, NEW p \in tx'[u].rows, NEW q \in tx'[v].rows
      PROVE  ~ Clash(p, q)
  <2>1. CASE u = w
    BY <1>1, <1>5, <2>1
  <2>2. CASE v = w
    BY <1>1, <1>5, <2>2
  <2>3. CASE u # w /\ v # w
    BY <1>1, <1>3, <1>5, <2>3
  <2> QED BY <2>1, <2>2, <2>3
<1> QED BY <1>2, <1>4, <1>5, SameStore

\* An entry that writes nothing is all a step without rows has to fit.
LEMMA RowlessStep ==
  ASSUME HInv, LInv, UNCHANGED storeVars, NEW w \in Worker,
         NEW stage \in Stage, NEW r \in Request, NEW locks \in SUBSET Entity,
         Become(w, Tx(stage, r, locks, {})), stage \notin {"idle", "commit"},
         stage = "conflict" => ~ IsRestore(r),
         stage \in Locked => r.entity \in locks,
         stage \in {"copy", "write"} => Unchanged(r) /\ Available(r),
         stage = "copy" => UndoesCopy(r),
         stage = "write" /\ UndoesCopy(r) => Prior(r).entity \in locks /\ CopyUnchanged(Prior(r)),
         \A e \in locks : RowsOf(e) # {}
  PROVE  HInv'
<1> DEFINE t == Tx(stage, r, locks, {})
<1>1. t.stage = stage /\ t.request = r /\ t.locks = locks /\ t.rows = {}
  BY TxFields
<1>2. t \in Transaction
  BY DEF Tx, Transaction
<1> HIDE DEF t
<1>3. TxFits(t)
  BY <1>1 DEF TxFits
<1>4. Become(w, t)
  BY DEF t
<1> QED BY <1>1, <1>2, <1>3, <1>4, QuietStep

LEMMA EndStep ==
  ASSUME HInv, LInv, UNCHANGED storeVars, NEW w \in Worker, Become(w, Idle)
  PROVE  HInv'
BY IdleFits, QuietStep

\* What holds of the transaction of a worker.
LEMMA TxIs ==
  ASSUME HInv, NEW w \in Worker, tx[w].stage # "idle"
  PROVE  /\ tx[w] \in Transaction /\ TxFits(tx[w])
         /\ tx[w].request \in Request /\ tx[w].locks \subseteq Entity
         /\ \A e \in tx[w].locks : RowsOf(e) # {}
         /\ tx[w].stage # "commit" => tx[w].rows = {}
<1>1. tx[w] \in Transaction
  BY DEF HInv, TypeOK
<1>2. TxFits(tx[w])
  BY DEF HInv
<1> QED BY <1>1, <1>2 DEF TxFits, Transaction

LEMMA BeginStep ==
  ASSUME HInv, LInv, NEW w \in Worker, NEW r \in Request, Begin(w, r)
  PROVE  HInv'
<1> DEFINE stage == IF IsRestore(r) THEN "entity" ELSE "conflict"
<1>1. Become(w, Tx(stage, r, {}, {})) /\ UNCHANGED storeVars
  BY DEF Begin
<1>2. stage \in Stage /\ stage \notin {"idle", "commit", "copy", "write"} /\ stage \notin Locked
  BY DEF Stage, Locked
<1>3. stage = "conflict" => ~ IsRestore(r)
  OBVIOUS
<1> HIDE DEF stage
<1> QED BY <1>1, <1>2, <1>3, RowlessStep

LEMMA LockConflictStep ==
  ASSUME HInv, LInv, NEW w \in Worker, LockConflict(w)
  PROVE  HInv'
<1>1. tx[w].stage = "conflict" /\ Become(w, Tx("recheck", tx[w].request, tx[w].locks, tx[w].rows)) /\ UNCHANGED storeVars
  BY DEF LockConflict, To
<1>2. /\ tx[w].request \in Request /\ tx[w].locks \subseteq Entity
      /\ \A e \in tx[w].locks : RowsOf(e) # {}
      /\ tx[w].rows = {}
  BY <1>1, TxIs
<1>3. "recheck" \in Stage /\ "recheck" \notin Locked
  BY DEF Stage, Locked
<1> QED BY <1>1, <1>2, <1>3, RowlessStep

LEMMA RecheckStep ==
  ASSUME HInv, LInv, NEW w \in Worker, Recheck(w)
  PROVE  HInv'
<1> DEFINE stage == IF IsRestore(tx[w].request) THEN "review" ELSE "entity"
<1>1. tx[w].stage = "recheck" /\ UNCHANGED storeVars
  BY DEF Recheck
<1>2. /\ tx[w].request \in Request /\ tx[w].locks \subseteq Entity
      /\ \A e \in tx[w].locks : RowsOf(e) # {}
      /\ tx[w].rows = {}
  BY <1>1, TxIs
<1>3. Become(w, Idle) \/ Become(w, Tx(stage, tx[w].request, tx[w].locks, {}))
  BY <1>2 DEF Recheck, To
<1>4. stage \in Locked => tx[w].request.entity \in tx[w].locks
  BY <1>1 DEF LInv, RestoreHoldsEntity, Locked
<1>5. stage \in Stage /\ stage \notin {"idle", "commit", "copy", "write", "conflict"}
  BY DEF Stage
<1> HIDE DEF stage
<1> QED BY <1>1, <1>2, <1>3, <1>4, <1>5, EndStep, RowlessStep

LEMMA LockEntityStep ==
  ASSUME HInv, LInv, NEW w \in Worker, LockEntity(w)
  PROVE  HInv'
<1> DEFINE r == tx[w].request
           stage == IF IsRestore(r) THEN "recheck" ELSE "review"
<1>1. tx[w].stage = "entity" /\ UNCHANGED storeVars
  BY DEF LockEntity
<1>2. r \in Request /\ r.entity \in Entity
  BY <1>1, TxIs, RequestType
<1>3. Become(w, Idle) \/ (RowsOf(r.entity) # {} /\ Become(w, Tx(stage, r, {r.entity}, {})))
  BY DEF LockEntity
<1>4. stage \in Stage /\ stage \notin {"idle", "commit", "copy", "write", "conflict"}
  BY DEF Stage
<1> HIDE DEF stage, r
<1> QED BY <1>1, <1>2, <1>3, <1>4, EndStep, RowlessStep

LEMMA ReviewStep ==
  ASSUME HInv, LInv, NEW w \in Worker, Review(w)
  PROVE  HInv'
<1> DEFINE r == tx[w].request
           stage == IF UndoesCopy(r) THEN "copy" ELSE "write"
<1>1. tx[w].stage = "review" /\ UNCHANGED storeVars
  BY DEF Review
<1>2. /\ r \in Request /\ tx[w].locks \subseteq Entity
      /\ \A e \in tx[w].locks : RowsOf(e) # {}
      /\ tx[w].rows = {} /\ r.entity \in tx[w].locks
  BY <1>1, TxIs DEF TxFits, Locked
<1>3. Become(w, Idle) \/ (Unchanged(r) /\ Available(r) /\ Become(w, Tx(stage, r, tx[w].locks, {})))
  BY <1>2 DEF Review, To
<1>4. stage \in Stage /\ stage \in {"copy", "write"}
  BY DEF Stage
<1>5. (stage = "copy" => UndoesCopy(r)) /\ (stage = "write" => ~ UndoesCopy(r))
  OBVIOUS
<1> HIDE DEF stage, r
<1> QED BY <1>1, <1>2, <1>3, <1>4, <1>5, EndStep, RowlessStep

LEMMA LockCopyStep ==
  ASSUME HInv, LInv, NEW w \in Worker, LockCopy(w)
  PROVE  HInv'
<1> DEFINE r == tx[w].request
           d == Prior(r)
<1>1. tx[w].stage = "copy" /\ UNCHANGED storeVars
  BY DEF LockCopy
<1>2. /\ r \in Request /\ tx[w].locks \subseteq Entity
      /\ \A e \in tx[w].locks : RowsOf(e) # {}
      /\ r.entity \in tx[w].locks /\ Unchanged(r) /\ Available(r) /\ UndoesCopy(r)
  BY <1>1, TxIs DEF TxFits, Locked
<1>3. Become(w, Idle) \/ (CopyUnchanged(d) /\ Become(w, Tx("write", r, tx[w].locks \cup {d.entity}, {})))
  BY DEF LockCopy
<1>4. d.entity \in Entity /\ RowsOf(d.entity) # {}
  <2>1. Undoable(r)
    BY <1>2 DEF Available, UndoesCopy
  <2>2. d \in Decision /\ d \in ToSet(resolutions)
    BY <2>1, PriorIs
  <2>3. DecisionFits(d)
    BY <2>2 DEF HInv, DecisionsFit
  <2> QED BY <2>2, <2>3 DEF Decision, DecisionFits
<1>5. "write" \in Stage
  BY DEF Stage
<1> HIDE DEF r, d
<1>6. d = Prior(r)
  BY DEF d
<1>7. tx[w].locks \cup {d.entity} \in SUBSET Entity
  BY <1>2, <1>4
<1> QED BY <1>1, <1>2, <1>3, <1>4, <1>5, <1>6, <1>7, EndStep, RowlessStep

-----------------------------------------------------------------------------
(* The row a decision adds.                                                *)

LEMMA TargetType ==
  ASSUME HInv, NEW r \in Request, Available(r)
  PROVE  Target(r) \in Entity
<1>1. CASE r.action = "saveCopy"
  BY <1>1, RequestType DEF Target
<1>2. CASE r.action # "saveCopy" /\ UndoesCopy(r)
  <2>1. Undoable(r)
    BY <1>2 DEF Available, UndoesCopy
  <2> QED BY <1>2, <2>1, PriorIs DEF Target, Decision
<1>3. CASE r.action # "saveCopy" /\ ~ UndoesCopy(r)
  BY <1>3, RequestType DEF Target
<1> QED BY <1>1, <1>2, <1>3

LEMMA SourceType ==
  ASSUME HInv, NEW r \in Request, Available(r)
  PROVE  Source(r).content \in Content /\ Source(r).tombstone \in BOOLEAN
<1>1. r.entity \in Entity /\ r.action \in Action /\ r.payload \in Content
  BY RequestType
<1>2. r.action \in {"keepLocal", "saveCopy", "useCloud"} => r.conflict \in Conflict
  BY RequestType
<1>3. CASE r.action \in {"keepLocal", "saveCopy"}
  BY <1>2, <1>3, CandidateType DEF Source
<1>4. CASE r.action = "useCloud"
  BY <1>2, <1>4, CandidateType DEF Source
<1>5. CASE r.action = "manualMerge"
  BY <1>1, <1>5 DEF Source
<1>6. CASE r.action = "restoreVersion"
  BY <1>1, <1>6, StateIs DEF Source, Available
<1>7. CASE r.action = "undo"
  <2>1. CASE UndoesCopy(r)
    <3>1. NoContent \in Content
      BY DEF Content
    <3> QED BY <1>7, <2>1, <3>1 DEF Source, Deleted
  <2>2. CASE ~ UndoesCopy(r)
    <3>1. HasRow(r.entity, Prior(r).version - 1)
      BY <1>7, <2>2 DEF Available
    <3>2. StateOf(Row(r.entity, Prior(r).version - 1)).content \in Content /\ StateOf(Row(r.entity, Prior(r).version - 1)).tombstone \in BOOLEAN
      BY <1>1, <3>1, StateIs
    <3> QED BY <1>7, <2>2, <3>2 DEF Source, Before
  <2> QED BY <2>1, <2>2
<1> QED BY <1>1, <1>3, <1>4, <1>5, <1>6, <1>7 DEF Action

LEMMA NewRowIs ==
  ASSUME HInv, NEW r \in Request, Available(r)
  PROVE  LET row == NewRow(r)
         IN  /\ row \in VersionRow /\ row.entity = Target(r) /\ row.op = r.op
             /\ row.version = (IF r.action = "saveCopy" THEN 1 ELSE Length(Target(r)) + 1)
             /\ row.content = Source(r).content /\ row.tombstone = Source(r).tombstone
             /\ row.tombstone => row.kind = "delete" \/ r.action = "saveCopy"
<1>1. Target(r) \in Entity /\ Length(Target(r)) \in Nat
  BY TargetType, LengthIs
<1>2. Source(r).content \in Content /\ Source(r).tombstone \in BOOLEAN
  BY SourceType
<1>3. r.op \in Operation
  BY RequestType
<1>4. KindFor(r.action, Source(r).tombstone) \in Kind /\ "create" \in Kind
  BY DEF KindFor, Kind
<1>5. Length(Target(r)) + 1 \in Nat \ {0}
  BY <1>1
<1>6. Source(r).tombstone => KindFor(r.action, Source(r).tombstone) = "delete"
  BY DEF KindFor
<1> QED BY <1>1, <1>2, <1>3, <1>4, <1>5, <1>6 DEF NewRow, VersionRow

LEMMA WriteStep ==
  ASSUME HInv, LInv, NEW w \in Worker, Write(w)
  PROVE  HInv'
<1> DEFINE r == tx[w].request
           row == NewRow(r)
           t == Tx("commit", r, tx[w].locks, {row})
<1>1. tx[w].stage = "write" /\ UNCHANGED storeVars
  BY DEF Write
<1>2. /\ r \in Request /\ tx[w].locks \subseteq Entity
      /\ \A e \in tx[w].locks : RowsOf(e) # {}
      /\ r.entity \in tx[w].locks /\ Unchanged(r) /\ Available(r)
      /\ UndoesCopy(r) => Prior(r).entity \in tx[w].locks /\ CopyUnchanged(Prior(r))
  BY <1>1, TxIs DEF TxFits, Locked
<1>3. row \in VersionRow
  BY <1>2, NewRowIs
<1>4. \/ Become(w, Idle)
      \/ /\ Become(w, t) /\ \A q \in versions : ~ Clash(q, row)
         /\ \A v \in Worker \ {w} : \A q \in tx[v].rows : ~ Clash(q, row)
  BY DEF Write, RowTaken, RowFree, Others
<1>5. t.stage = "commit" /\ t.request = r /\ t.locks = tx[w].locks /\ t.rows = {row}
  BY TxFields
<1>6. "commit" \in Stage
  BY DEF Stage
<1>7. t \in Transaction
  BY <1>2, <1>3, <1>6 DEF Tx, Transaction
<1>8. row = NewRow(r)
  OBVIOUS
<1> HIDE DEF t, row, r
<1>9. TxFits(t)
  BY <1>2, <1>5, <1>8 DEF TxFits
<1>10. \A p, q : Clash(p, q) <=> Clash(q, p)
  BY DEF Clash
<1> QED BY <1>1, <1>4, <1>5, <1>7, <1>9, <1>10, EndStep, QuietStep

-----------------------------------------------------------------------------
(* Accepting a row.                                                        *)

\* The next version of its entity, with no key that is taken.
NextRow(row) ==
  /\ row \in VersionRow /\ row.version = Length(row.entity) + 1
  /\ \A q \in versions : ~ Clash(row, q)
  /\ row.tombstone => row.kind = "delete" \/ RowsOf(row.entity) = {}

LEMMA AcceptRows ==
  ASSUME HInv, NEW row, NextRow(row), Accept(row)
  PROVE  /\ \A e : e # row.entity => RowsOf(e)' = RowsOf(e)
         /\ RowsOf(row.entity)' = RowsOf(row.entity) \cup {row}
         /\ \A e : RowsOf(e) \subseteq RowsOf(e)'
         /\ Length(row.entity)' = Length(row.entity) + 1
         /\ Latest(row.entity)' = row
         /\ \A e \in Entity : \A n \in 1 .. Length(e) : Row(e, n)' = Row(e, n)
<1> DEFINE f == row.entity
<1>1. versions' = versions \cup {row} /\ row \notin versions
  BY DEF Accept, NextRow, Clash
<1>2. \A e : e # f => RowsOf(e)' = RowsOf(e)
  BY <1>1 DEF RowsOf
<1>3. RowsOf(f)' = RowsOf(f) \cup {row} /\ row \notin RowsOf(f)
  BY <1>1 DEF RowsOf
<1>4. f \in Entity
  BY DEF NextRow, VersionRow
<1> HIDE DEF f
<1>5. Length(f) \in Nat /\ IsFiniteSet(RowsOf(f)) /\ \A v \in RowsOf(f) : v.version \in 1 .. Length(f)
  BY <1>4, LengthIs
<1>6. Length(f)' = Length(f) + 1
  <2>1. Cardinality(RowsOf(f) \cup {row}) = Cardinality(RowsOf(f)) + 1
    BY <1>3, <1>5, FS_AddElement
  <2> QED BY <1>3, <2>1 DEF Length
<1>7. row.version = Length(f) + 1
  BY DEF NextRow, f
<1>8. \A p, q \in RowsOf(f)' : p.version = q.version => p = q
  <2>1. \A p, q \in RowsOf(f) : p.version = q.version => p = q
    BY DEF HInv, RowsApart, Clash, RowsOf
  <2>2. \A p \in RowsOf(f) : p.version # row.version
    BY <1>5, <1>7
  <2> QED BY <1>3, <2>1, <2>2
<1>9. Latest(f)' = row
  <2>1. Latest(f)' = RowIn(RowsOf(f)', Length(f)')
    BY DEF Latest, Row, RowIn
  <2>2. RowIn(RowsOf(f)', row.version) = row
    BY <1>3, <1>8, NumberOf DEF RowIn
  <2> QED BY <1>6, <1>7, <2>1, <2>2
<1>10. ASSUME NEW e \in Entity, NEW n \in 1 .. Length(e)
       PROVE  Row(e, n)' = Row(e, n)
  <2>1. CASE e # f
    BY <1>2, <2>1, SameRows
  <2>2. CASE e = f
    <3>1. Row(f, n) \in RowsOf(f) /\ Row(f, n).version = n
      BY <1>10, <2>2, LengthIs
    <3>2. RowIn(RowsOf(f)', Row(f, n).version) = Row(f, n)
      BY <1>3, <1>8, <3>1, NumberOf DEF RowIn
    <3>3. Row(f, n)' = RowIn(RowsOf(f)', n)
      BY DEF Row, RowIn
    <3> QED BY <2>2, <3>1, <3>2, <3>3
  <2> QED BY <2>1, <2>2
<1>11. \A e : RowsOf(e) \subseteq RowsOf(e)'
  BY <1>1 DEF RowsOf
<1> QED BY <1>2, <1>3, <1>6, <1>9, <1>10, <1>11 DEF f

LEMMA AcceptNumbers ==
  ASSUME HInv, NEW row, NextRow(row), Accept(row)
  PROVE  Numbered'
<1> DEFINE f == row.entity
<1>1. /\ \A e : e # f => RowsOf(e)' = RowsOf(e)
      /\ RowsOf(f)' = RowsOf(f) \cup {row}
      /\ Length(f)' = Length(f) + 1 /\ row.version = Length(f) + 1
  BY AcceptRows DEF NextRow
<1>2. \A e \in Entity : IsFiniteSet(RowsOf(e)) /\ {v.version : v \in RowsOf(e)} = 1 .. Length(e)
  BY DEF HInv, Numbered
<1>3. f \in Entity
  BY DEF NextRow, VersionRow
<1>4. Length(f) \in Nat
  BY <1>3, LengthIs
<1> HIDE DEF f
<1>5. \A e \in Entity : e # f => Length(e)' = Length(e)
  BY <1>1, SameRows
<1>6. IsFiniteSet(RowsOf(f) \cup {row})
  BY <1>2, <1>3, FS_AddElement
<1>7. {v.version : v \in RowsOf(f) \cup {row}} = 1 .. (Length(f) + 1)
  <2>1. {v.version : v \in RowsOf(f) \cup {row}} = {v.version : v \in RowsOf(f)} \cup {row.version}
    OBVIOUS
  <2>2. 1 .. (Length(f) + 1) = 1 .. Length(f) \cup {Length(f) + 1}
    BY <1>4
  <2> QED BY <1>1, <1>2, <1>3, <2>1, <2>2
<1>8. ASSUME NEW e \in Entity
      PROVE  IsFiniteSet(RowsOf(e)') /\ {v.version : v \in RowsOf(e)'} = 1 .. Length(e)'
  BY <1>1, <1>2, <1>5, <1>6, <1>7
<1> QED BY <1>8 DEF Numbered

LEMMA AcceptReferences ==
  ASSUME HInv, NEW row, NextRow(row), Accept(row)
  PROVE  ReferencesFit'
<1> DEFINE f == row.entity
<1>1. /\ \A e : e # f => RowsOf(e)' = RowsOf(e)
      /\ RowsOf(f)' = RowsOf(f) \cup {row} /\ Latest(f)' = row
  BY AcceptRows
<1>2. f \in Entity /\ references \in [Entity -> {"none", "live", "deleted"}]
  BY DEF NextRow, VersionRow, HInv, TypeOK
<1>3. /\ \A e \in Entity : e # f => references'[e] = references[e]
      /\ references'[f] = Lifecycle(references[f], row.kind)
  BY <1>2 DEF Accept
<1>4. row.tombstone => references'[f] # "live"
  <2>1. RowsOf(f) = {} => references[f] = "none"
    BY <1>2 DEF HInv, ReferencesFit
  <2>2. Lifecycle("none", row.kind) = "none"
    BY DEF Lifecycle
  <2>3. Lifecycle(references[f], "delete") # "live"
    BY <1>2 DEF Lifecycle
  <2> QED BY <1>3, <2>1, <2>2, <2>3 DEF NextRow
<1> HIDE DEF f
<1>5. \A e \in Entity : e # f => Latest(e)' = Latest(e)
  BY <1>1, SameRows
<1>6. \A e \in Entity : RowsOf(e)' = {} => references'[e] = "none"
  BY <1>1, <1>3 DEF HInv, ReferencesFit
<1>7. ASSUME NEW e \in Entity, RowsOf(e)' # {}, Latest(e)'.tombstone
      PROVE  references'[e] # "live"
  <2>1. CASE e = f
    BY <1>1, <1>4, <1>7, <2>1
  <2>2. CASE e # f
    BY <1>1, <1>3, <1>5, <1>7, <2>2 DEF HInv, ReferencesFit, DeletedStaysHidden
  <2> QED BY <2>1, <2>2
<1> QED BY <1>6, <1>7 DEF ReferencesFit, DeletedStaysHidden

\* What a decision has written stays as it was.
LEMMA AcceptDecisions ==
  ASSUME HInv, NEW row, NextRow(row), Accept(row), NEW d, DecisionFits(d), d \in Decision,
         \A c : Settlements(c) \subseteq Settlements(c)'
  PROVE  DecisionFits(d)'
<1>1. RowsOf(d.entity) \subseteq RowsOf(d.entity)'
  BY AcceptRows
<1>2. Settlements(d.request.conflict) \subseteq Settlements(d.request.conflict)'
  OBVIOUS
<1> QED BY <1>1, <1>2 DEF DecisionFits

\* A decision is the version that it is recorded with.
LEMMA DecisionIs ==
  ASSUME HInv, NEW d \in Decisions
  PROVE  /\ d \in Decision /\ DecisionFits(d) /\ d.entity \in Entity
         /\ d.version \in 1 .. Length(d.entity) /\ Length(d.entity) \in Nat
         /\ Row(d.entity, d.version).op = d.request.op /\ Row(d.entity, d.version) \in versions
<1>1. d \in Decision
  BY ResolutionsAre DEF Decisions, HInv, TypeOK
<1>2. DecisionFits(d)
  BY DEF Decisions, HInv, DecisionsFit
<1>3. d.entity \in Entity
  BY <1>1 DEF Decision
<1>4. PICK v \in RowsOf(d.entity) : v.version = d.version /\ v.op = d.request.op
  BY <1>2 DEF DecisionFits
<1>5. Row(d.entity, v.version) = v
  BY RowOf
<1>6. v.version \in 1 .. Length(d.entity) /\ Length(d.entity) \in Nat
  BY <1>3, LengthIs
<1>7. v \in versions
  BY DEF RowsOf
<1> QED BY <1>1, <1>2, <1>3, <1>4, <1>5, <1>6, <1>7

\* What an undo undoes.
LEMMA UndoneIs ==
  ASSUME HInv, NEW d \in ToSet(resolutions), d.request.action = "undo"
  PROVE  /\ UndoneBy(d) \in ToSet(resolutions) /\ UndoneBy(d).request.op = d.request.undoes
         /\ UndoneBy(d) \in Settlements(d.request.conflict)
<1>1. PICK p \in Settlements(d.request.conflict) : p.request.op = d.request.undoes
  BY DEF HInv, DecisionsFit, DecisionFits
<1>2. p \in ToSet(resolutions) /\ \A x, y \in ToSet(resolutions) : x.request.op = y.request.op => x = y
  BY ResolutionsAre
<1>3. UndoneBy(d) = p
  BY <1>1, <1>2, OpOf DEF UndoneBy
<1> QED BY <1>1, <1>2, <1>3

LEMMA AcceptUndoes ==
  ASSUME HInv, NEW row, NextRow(row), Accept(row), NEW d \in ToSet(resolutions), NEW p \in ToSet(resolutions),
         UndoFits(d, p)
  PROVE  UndoFits(d, p)'
<1>1. /\ \A e \in Entity : \A n \in 1 .. Length(e) : Row(e, n)' = Row(e, n)
  BY AcceptRows
<1>2. d.entity \in Entity /\ d.version \in 1 .. Length(d.entity)
  BY DecisionIs DEF Decisions
<1>3. p.entity \in Entity /\ p.version \in 1 .. Length(p.entity) /\ Length(p.entity) \in Nat
  BY DecisionIs DEF Decisions
<1>4. p.version # 1 => p.version - 1 \in 1 .. Length(p.entity)
  BY <1>3
<1>5. Row(d.entity, d.version)' = Row(d.entity, d.version)
  BY <1>1, <1>2
<1>6. p.version # 1 => Row(p.entity, p.version - 1)' = Row(p.entity, p.version - 1)
  BY <1>1, <1>3, <1>4
<1> QED BY <1>5, <1>6 DEF UndoFits, Restores, Predecessor, StateOf

LEMMA PushStep ==
  ASSUME HInv, LInv, NEW op \in PushOp, NEW e \in Entity, NEW kind \in Kind,
         NEW content \in PushContent \cup {NoContent}, Push(op, e, kind, content)
  PROVE  HInv'
<1> DEFINE row == [entity |-> e, version |-> Length(e) + 1, content |-> content,
                   tombstone |-> kind = "delete", kind |-> kind, op |-> op]
<1>1. /\ \A w \in Worker : e \notin tx[w].locks
      /\ \A w \in Worker : \A q \in tx[w].rows : ~ Clash(q, row)
      /\ \A q \in versions : ~ Clash(q, row)
      /\ Accept(row) /\ resolutions' = resolutions /\ restores' = restores /\ tx' = tx
  BY DEF Push, RowFree, RowTaken
<1>2. Length(e) \in Nat
  BY LengthIs
<1>3. row \in VersionRow
  BY <1>2 DEF VersionRow, Operation, Content
<1>4. \A p, q : Clash(p, q) <=> Clash(q, p)
  BY DEF Clash
<1>5. NextRow(row)
  BY <1>1, <1>3, <1>4 DEF NextRow
<1>6. row.entity = e
  OBVIOUS
<1> HIDE DEF row
<1>7. /\ \A f : f # e => RowsOf(f)' = RowsOf(f)
      /\ \A f : RowsOf(f) \subseteq RowsOf(f)'
  BY <1>1, <1>5, <1>6, AcceptRows
<1>8. /\ \A c : Of(c)' = Of(c)
      /\ versions' = versions \cup {row}
  BY <1>1 DEF Of, Accept
<1>9. /\ \A c : Settlements(c)' = Settlements(c)
      /\ \A r : Undoable(r)' <=> Undoable(r)
  BY <1>1, <1>8 DEF Settlements, Undoable
<1>10. TypeOK'
  <2>1. references' \in [Entity -> {"none", "live", "deleted"}]
    <3>1. Lifecycle(references[e], row.kind) \in {"none", "live", "deleted"}
      BY DEF HInv, TypeOK, Lifecycle
    <3> QED BY <1>1, <1>6, <3>1 DEF HInv, TypeOK, Accept
  <2> QED BY <1>1, <1>3, <1>8, <2>1 DEF HInv, TypeOK
<1>11. Numbered' /\ ReferencesFit'
  BY <1>1, <1>5, AcceptNumbers, AcceptReferences
<1>12. RowsApart'
  <2>1. \A p, q \in versions' : Clash(p, q) => p = q
    BY <1>1, <1>4, <1>8 DEF HInv, RowsApart
  <2>2. \A w \in Worker : \A p \in tx[w].rows : \A q \in versions' : ~ Clash(p, q)
    BY <1>1, <1>8 DEF HInv, RowsApart
  <2> QED BY <1>1, <2>1, <2>2 DEF HInv, RowsApart, Clash
<1>13. DecisionsFit'
  <2>1. \A d \in Decisions : d \in Decision /\ DecisionFits(d)
    BY DecisionIs
  <2>2. \A d \in Decisions : DecisionFits(d)'
    BY <1>1, <1>5, <1>9, <2>1, AcceptDecisions
  <2> QED BY <1>1, <2>2 DEF HInv, DecisionsFit, Decisions
<1>14. UndoesTheLatest'
  BY <1>1, <1>8 DEF HInv, UndoesTheLatest
<1>15. UndoRestores'
  <2>1. \A d : UndoneBy(d)' = UndoneBy(d)
    BY <1>1 DEF UndoneBy
  <2>2. ASSUME NEW d \in ToSet(resolutions), d.request.action = "undo"
        PROVE  UndoFits(d, UndoneBy(d))'
    <3>1. UndoneBy(d) \in ToSet(resolutions) /\ UndoFits(d, UndoneBy(d))
      BY <2>2, UndoneIs, UndoesFit DEF HInv
    <3>2. \A p \in ToSet(resolutions) : UndoFits(d, p) => UndoFits(d, p)'
      BY <1>1, <1>5, AcceptUndoes
    <3> QED BY <2>1, <3>1, <3>2
  <2> QED BY <1>1, <2>2, UndoesFit
<1>16. ASSUME NEW v \in Worker
       PROVE  TxFits(tx[v])'
  <2>1. \A u : TxFits(u) /\ e \notin u.locks => TxFits(u)'
    BY <1>7, <1>9, StillFits
  <2>2. TxFits(tx'[v]) /\ e \notin tx'[v].locks
    BY <1>1 DEF HInv
  <2> QED BY <2>1, <2>2
<1> QED BY <1>10, <1>11, <1>12, <1>13, <1>14, <1>15, <1>16 DEF HInv

-----------------------------------------------------------------------------
(* The commit of a decision.                                               *)

\* The row that w wrote and the audit row that goes with it.
LEMMA CommitIs ==
  ASSUME HInv, NEW w \in Worker, tx[w].stage = "commit"
  PROVE  LET r   == tx[w].request
             row == NewRow(r)
         IN  /\ r \in Request /\ tx[w].rows = {row} /\ Available(r) /\ NextRow(row)
             /\ r.entity \in tx[w].locks /\ row.entity = Target(r) /\ row.op = r.op
             /\ r.action = "saveCopy" => RowsOf(row.entity) = {} /\ row.version = 1
             /\ row.entity \in tx[w].locks \/ RowsOf(row.entity) = {}
             /\ row.content = Source(r).content /\ row.tombstone = Source(r).tombstone
             /\ UndoesCopy(r) => CopyUnchanged(Prior(r))
<1> DEFINE r   == tx[w].request
           row == NewRow(r)
<1>1. /\ r \in Request /\ tx[w].rows = {row} /\ Available(r) /\ r.entity \in tx[w].locks
      /\ UndoesCopy(r) => Prior(r).entity \in tx[w].locks /\ CopyUnchanged(Prior(r))
  BY TxIs DEF TxFits, Locked
<1>2. /\ row \in VersionRow /\ row.entity = Target(r) /\ row.op = r.op
      /\ row.version = (IF r.action = "saveCopy" THEN 1 ELSE Length(Target(r)) + 1)
      /\ row.content = Source(r).content /\ row.tombstone = Source(r).tombstone
      /\ row.tombstone => row.kind = "delete" \/ r.action = "saveCopy"
  BY <1>1, NewRowIs
<1>3. \A q \in versions : ~ Clash(row, q)
  BY <1>1 DEF HInv, RowsApart
<1>4. Target(r) = r.copy \/ Target(r) = r.entity \/ (UndoesCopy(r) /\ Target(r) = Prior(r).entity)
  BY DEF Target
<1>5. r.action # "saveCopy" => Target(r) \in tx[w].locks
  BY <1>1 DEF Target
<1> HIDE DEF row, r
<1>6. row.entity \in Entity
  BY <1>2 DEF VersionRow
<1>7. r.action = "saveCopy" => RowsOf(row.entity) = {}
  <2> SUFFICES ASSUME r.action = "saveCopy", RowsOf(row.entity) # {}
               PROVE  FALSE
    OBVIOUS
  <2>1. 1 \in 1 .. Length(row.entity)
    BY <1>6, LengthIs
  <2>2. Row(row.entity, 1) \in RowsOf(row.entity) /\ Row(row.entity, 1).version = 1
    BY <1>6, <2>1, LengthIs
  <2>3. Clash(row, Row(row.entity, 1)) /\ Row(row.entity, 1) \in versions
    BY <1>2, <2>2 DEF Clash, RowsOf
  <2> QED BY <1>3, <2>3
<1>8. row.version = Length(row.entity) + 1
  BY <1>2, <1>6, <1>7, LengthIs
<1>9. NextRow(row)
  BY <1>2, <1>3, <1>7, <1>8 DEF NextRow
<1> QED BY <1>1, <1>2, <1>5, <1>7, <1>9 DEF row, r

\* Where an appended resolution is, and those before it.
LEMMA Appended ==
  ASSUME HInv, NEW d \in Decision, resolutions' = Append(resolutions, d)
  PROVE  /\ resolutions' \in Seq(Decision) /\ Len(resolutions)' = Len(resolutions) + 1
         /\ DOMAIN resolutions' = DOMAIN resolutions \cup {Len(resolutions) + 1}
         /\ \A i \in DOMAIN resolutions : resolutions'[i] = resolutions[i] /\ i < Len(resolutions) + 1
         /\ resolutions'[Len(resolutions) + 1] = d
         /\ ToSet(resolutions') = ToSet(resolutions) \cup {d}
         /\ \A c : Of(c)' = Of(c) \cup IF d.request.conflict = c THEN {Len(resolutions) + 1} ELSE {}
         /\ \A c : Settlements(c)' = Settlements(c) \cup IF d.request.conflict = c THEN {d} ELSE {}
         /\ \A r : r.conflict # d.request.conflict => (Undoable(r)' <=> Undoable(r))
<1>1. resolutions \in Seq(Decision) /\ Len(resolutions) \in Nat /\ DOMAIN resolutions = 1 .. Len(resolutions)
  BY ResolutionsAre
<1>2. /\ resolutions' \in Seq(Decision) /\ Len(resolutions)' = Len(resolutions) + 1
      /\ DOMAIN resolutions' = DOMAIN resolutions \cup {Len(resolutions) + 1}
      /\ \A i \in DOMAIN resolutions : resolutions'[i] = resolutions[i] /\ i < Len(resolutions) + 1
      /\ resolutions'[Len(resolutions) + 1] = d
      /\ Len(resolutions) + 1 \notin DOMAIN resolutions
  BY <1>1
<1>3. ToSet(resolutions') = ToSet(resolutions) \cup {d}
  BY <1>1, AppendAdds
<1>4. ASSUME NEW c
      PROVE  Of(c)' = Of(c) \cup IF d.request.conflict = c THEN {Len(resolutions) + 1} ELSE {}
  BY <1>2 DEF Of
<1>5. ASSUME NEW c
      PROVE  Settlements(c)' = Settlements(c) \cup IF d.request.conflict = c THEN {d} ELSE {}
  <2>1. \A i \in Of(c) : i \in DOMAIN resolutions
    BY DEF Of
  <2>2. \A i \in Of(c) : resolutions'[i] = resolutions[i]
    BY <1>2, <2>1
  <2>3. Settlements(c)' = {resolutions'[i] : i \in Of(c)'}
    BY DEF Settlements
  <2>4. Settlements(c) = {resolutions[i] : i \in Of(c)}
    BY DEF Settlements
  <2> QED
    <3>1. CASE d.request.conflict = c
      <4> DEFINE n == Len(resolutions) + 1
      <4>1. Of(c)' = Of(c) \cup {n} /\ resolutions'[n] = d
        BY <1>2, <1>4, <3>1
      <4> HIDE DEF n
      <4>2. {resolutions'[i] : i \in Of(c) \cup {n}} = {resolutions'[i] : i \in Of(c)} \cup {resolutions'[n]}
        OBVIOUS
      <4>3. {resolutions'[i] : i \in Of(c)} = {resolutions[i] : i \in Of(c)}
        BY <2>2
      <4> QED BY <2>3, <2>4, <3>1, <4>1, <4>2, <4>3
    <3>2. CASE d.request.conflict # c
      <4>1. Of(c)' = Of(c)
        BY <1>4, <3>2
      <4> QED BY <2>2, <2>3, <2>4, <3>2, <4>1
    <3> QED BY <3>1, <3>2
<1>6. ASSUME NEW r, r.conflict # d.request.conflict
      PROVE  Undoable(r)' <=> Undoable(r)
  <2>1. Of(r.conflict)' = Of(r.conflict)
    BY <1>4, <1>6
  <2>2. \A i \in Of(r.conflict) : i \in DOMAIN resolutions /\ resolutions'[i] = resolutions[i]
    BY <1>2 DEF Of
  <2> QED BY <2>1, <2>2 DEF Undoable
<1> QED BY <1>2, <1>3, <1>4, <1>5, <1>6

\* An undo undoes the resolution just before it, in a sequence of resolutions.
OfIn(s, c) == {i \in DOMAIN s : s[i].request.conflict = c}
LatestIn(s) ==
  \A i \in DOMAIN s : s[i].request.action = "undo" =>
    \E j \in OfIn(s, s[i].request.conflict) :
      /\ j < i
      /\ s[j].request.op = s[i].request.undoes
      /\ \A k \in OfIn(s, s[i].request.conflict) : ~ (j < k /\ k < i)

LEMMA LatestIsLast ==
  ASSUME NEW s \in Seq(Decision), LatestIn(s), NEW d \in Decision,
         d.request.action = "undo" =>
           \E j \in OfIn(s, d.request.conflict) :
             s[j].request.op = d.request.undoes /\ \A k \in OfIn(s, d.request.conflict) : k <= j
  PROVE  LatestIn(Append(s, d))
<1> DEFINE n == Len(s) + 1
           a == Append(s, d)
<1>1. /\ DOMAIN a = DOMAIN s \cup {n} /\ n \in Nat /\ DOMAIN s \subseteq Nat
      /\ \A i \in DOMAIN s : a[i] = s[i] /\ i < n
      /\ a[n] = d
  OBVIOUS
<1>2. \A c : OfIn(s, c) \subseteq DOMAIN s
  BY DEF OfIn
<1> HIDE DEF n, a
<1>3. \A c : OfIn(a, c) \subseteq OfIn(s, c) \cup {n} /\ OfIn(s, c) \subseteq OfIn(a, c)
  BY <1>1 DEF OfIn
<1>4. ASSUME NEW i \in DOMAIN a, a[i].request.action = "undo"
      PROVE  \E j \in OfIn(a, a[i].request.conflict) :
               /\ j < i
               /\ a[j].request.op = a[i].request.undoes
               /\ \A k \in OfIn(a, a[i].request.conflict) : ~ (j < k /\ k < i)
  <2> DEFINE c == a[i].request.conflict
  <2>1. CASE i \in DOMAIN s
    <3>1. PICK j \in OfIn(s, c) : j < i /\ s[j].request.op = s[i].request.undoes
                                 /\ \A k \in OfIn(s, c) : ~ (j < k /\ k < i)
      BY <1>1, <1>4, <2>1 DEF LatestIn
    <3> HIDE DEF c
    <3>2. \A k \in OfIn(a, c) : ~ (j < k /\ k < i)
      BY <1>1, <1>3, <2>1, <3>1
    <3>3. j \in OfIn(a, c) /\ a[j] = s[j] /\ a[i] = s[i]
      BY <1>1, <1>2, <1>3, <2>1, <3>1
    <3> QED BY <3>1, <3>2, <3>3 DEF c
  <2>2. CASE i = n
    <3>1. c = d.request.conflict
      BY <1>1, <2>2
    <3>2. PICK j \in OfIn(s, c) : s[j].request.op = d.request.undoes /\ \A k \in OfIn(s, c) : k <= j
      BY <1>1, <1>4, <2>2, <3>1
    <3> HIDE DEF c
    <3>3. j \in DOMAIN s /\ j \in OfIn(a, c) /\ a[j] = s[j] /\ j < n
      BY <1>1, <1>2, <1>3, <3>2
    <3>4. \A k \in OfIn(a, c) : ~ (j < k /\ k < n)
      BY <1>1, <1>2, <1>3, <3>2, <3>3
    <3> QED BY <1>1, <2>2, <3>2, <3>3, <3>4 DEF c
  <2> QED BY <1>1, <2>1, <2>2
<1> QED BY <1>4 DEF LatestIn, a

\* The latest resolution, which is undone, stays just before its undo.
LEMMA CommitUndoesTheLatest ==
  ASSUME HInv, NEW d \in Decision, resolutions' = Append(resolutions, d),
         d.request.action = "undo" => Undoable(d.request)
  PROVE  UndoesTheLatest'
<1>1. UndoesTheLatest <=> LatestIn(resolutions)
  BY DEF UndoesTheLatest, LatestIn, Of, OfIn
<1>2. UndoesTheLatest' <=> LatestIn(resolutions')
  BY DEF UndoesTheLatest, LatestIn, Of, OfIn
<1>3. \A c : Of(c) = OfIn(resolutions, c)
  BY DEF Of, OfIn
<1>4. d.request.action = "undo" =>
        \E j \in OfIn(resolutions, d.request.conflict) :
          /\ resolutions[j].request.op = d.request.undoes
          /\ \A k \in OfIn(resolutions, d.request.conflict) : k <= j
  BY <1>3 DEF Undoable
<1>5. resolutions \in Seq(Decision) /\ LatestIn(resolutions)
  BY <1>1, ResolutionsAre DEF HInv
<1> QED BY <1>2, <1>4, <1>5, LatestIsLast

\* The new row has the state the entity had before the resolution that is undone.
LEMMA CommitRestores ==
  ASSUME HInv, NEW r \in Request, r.action = "undo", Available(r),
         UndoesCopy(r) => CopyUnchanged(Prior(r)),
         NEW row, NextRow(row), Accept(row), row.entity = Target(r),
         row.content = Source(r).content, row.tombstone = Source(r).tombstone,
         NEW d, d = [request |-> r, entity |-> row.entity, version |-> row.version],
         NEW p, p = Prior(r)
  PROVE  UndoFits(d, p)'
<1>1. Undoable(r)
  BY DEF Available
<1>2. /\ p \in ToSet(resolutions) /\ p \in Decision /\ p.request.op = r.undoes
      /\ p.request.conflict = r.conflict
  BY <1>1, PriorIs
<1>3. /\ DecisionFits(p) /\ p.entity \in Entity /\ p.version \in 1 .. Length(p.entity)
      /\ Length(p.entity) \in Nat /\ ~ IsRestore(p.request)
  BY <1>2, DecisionIs DEF Decisions, HInv, DecisionsFit
<1>4. \A e \in Entity : \A n \in 1 .. Length(e) : Row(e, n)' = Row(e, n)
  BY AcceptRows
<1>5. /\ row.entity \in Entity /\ row.version = Length(row.entity) + 1 /\ Length(row.entity) \in Nat
      /\ Latest(row.entity)' = row /\ Length(row.entity)' = row.version
  BY AcceptRows, LengthIs DEF NextRow, VersionRow
<1>6. Row(row.entity, row.version)' = row
  BY <1>5 DEF Latest
<1>7. /\ d.entity = row.entity /\ d.version = row.version
      /\ StateOf(row) = [content |-> Source(r).content, tombstone |-> Source(r).tombstone]
  BY DEF StateOf
<1>8. Restores(d, p)' <=> d.entity = p.entity /\ StateOf(row) = Predecessor(p)'
  <2>1. Row(d.entity, d.version)' = row
    BY <1>6, <1>7
  <2> QED BY <2>1 DEF Restores, StateOf
<1>9. CASE UndoesCopy(r)
  <2>1. p.request.action = "saveCopy" /\ CopyUnchanged(p)
    BY <1>9 DEF UndoesCopy
  <2>2. row.entity = p.entity
    BY <1>9 DEF Target
  <2>3. StateOf(row) = Deleted
    BY <1>7, <1>9 DEF Source, Deleted
  <2>4. p.version = 1
    BY <1>3, <2>1 DEF DecisionFits
  <2>5. Predecessor(p)' = Deleted
    BY <2>4 DEF Predecessor
  <2>6. row.version = p.version + 1
    BY <1>5, <2>1, <2>2 DEF CopyUnchanged
  <2>7. Restores(d, p)'
    BY <1>7, <1>8, <2>2, <2>3, <2>5
  <2> QED BY <1>7, <2>6, <2>7 DEF UndoFits
<1>10. CASE ~ UndoesCopy(r)
  <2>1. p.request.action # "saveCopy"
    BY <1>10 DEF UndoesCopy
  <2>2. row.entity = r.entity /\ r.entity \in Entity
    BY <1>10, RequestType DEF Target
  <2>3. HasRow(r.entity, p.version - 1)
    BY <1>10 DEF Available
  <2>4. p.version - 1 \in 1 .. Length(r.entity)
    BY <2>2, <2>3, LengthIs
  <2>5. p.version # 1
    BY <1>3, <2>4
  <2>6. StateOf(row) = StateOf(Row(r.entity, p.version - 1))
    <3>1. Source(r) = StateOf(Row(r.entity, p.version - 1))
      BY <1>10 DEF Source, Before
    <3> QED BY <1>7, <3>1 DEF StateOf
  <2>7. CASE p.entity = r.entity
    <3>1. Row(p.entity, p.version - 1)' = Row(p.entity, p.version - 1)
      BY <1>4, <2>2, <2>4, <2>7
    <3>2. Predecessor(p)' = StateOf(Row(p.entity, p.version - 1))
      BY <2>5, <3>1 DEF Predecessor, StateOf
    <3>3. Restores(d, p)'
      BY <1>7, <1>8, <2>2, <2>6, <2>7, <3>2
    <3> QED BY <2>1, <3>3 DEF UndoFits
  <2>8. CASE p.entity # r.entity
    <3>1. p.request \in Request /\ r.action # "restoreVersion"
      BY <1>3 DEF DecisionFits
    <3>2. ~ IsRestore(r)
      BY <3>1, RequestType
    <3>3. p.request.entity = r.entity
      BY <1>2, <1>3, <3>1, <3>2, RequestType
    <3>4. p.request.action = "undo"
      BY <1>3, <2>1, <2>8, <3>3 DEF DecisionFits
    <3> QED BY <2>1, <2>8, <3>3, <3>4 DEF UndoFits
  <2> QED BY <2>7, <2>8
<1> QED BY <1>9, <1>10

\* An audit row is a decision of the request that the transaction works for.
LEMMA CommitDecides ==
  ASSUME HInv, NEW w \in Worker, tx[w].stage = "commit", NEW r, r = tx[w].request,
         NEW row, row = NewRow(r), Accept(row),
         NEW d, d = [request |-> r, entity |-> row.entity, version |-> row.version],
         \A c : Settlements(c) \subseteq Settlements(c)'
  PROVE  /\ d \in Decision /\ DecisionFits(d)'
         /\ \A a \in Decisions : a.request.op # d.request.op
<1>1. /\ r \in Request /\ tx[w].rows = {row} /\ Available(r) /\ NextRow(row)
      /\ row.entity = Target(r) /\ row.op = r.op
      /\ r.action = "saveCopy" => row.version = 1
  BY CommitIs
<1>2. row \in VersionRow /\ row.version \in Nat \ {0} /\ row.entity \in Entity
  BY <1>1 DEF NextRow, VersionRow
<1>3. d \in Decision
  BY <1>1, <1>2 DEF Decision
<1>4. d.request = r /\ d.entity = row.entity /\ d.version = row.version
  OBVIOUS
<1>5. row \in RowsOf(d.entity)'
  BY <1>1, <1>4, AcceptRows
<1>6. r.action = "saveCopy" => d.entity = r.copy /\ d.version = 1
  BY <1>1, <1>4 DEF Target
<1>7. r.action \notin {"saveCopy", "undo"} => d.entity = r.entity
  BY <1>1, <1>4 DEF Target, UndoesCopy
<1>8. r.action = "undo" =>
        \E p \in Settlements(r.conflict)' :
          /\ p.request.op = r.undoes
          /\ d.entity = IF p.request.action = "saveCopy" THEN p.entity ELSE r.entity
  <2> HAVE r.action = "undo"
  <2>1. Prior(r) \in Settlements(r.conflict) /\ Prior(r).request.op = r.undoes
    BY <1>1, PriorIs DEF Available
  <2>2. d.entity = IF Prior(r).request.action = "saveCopy" THEN Prior(r).entity ELSE r.entity
    BY <1>1, <1>4 DEF Target, UndoesCopy
  <2> QED BY <2>1, <2>2
<1>9. DecisionFits(d)'
  BY <1>1, <1>4, <1>5, <1>6, <1>7, <1>8 DEF DecisionFits
<1>10. ASSUME NEW a \in Decisions
       PROVE  a.request.op # d.request.op
  <2>1. Row(a.entity, a.version).op = a.request.op /\ Row(a.entity, a.version) \in versions
    BY DecisionIs
  <2>2. \A q \in versions : row.op # q.op
    BY <1>1 DEF NextRow, Clash
  <2> QED BY <1>1, <1>4, <2>1, <2>2
<1> QED BY <1>3, <1>9, <1>10

\* What the audit row changes, in the table of resolutions or of restorations.
LEMMA Audited ==
  ASSUME HInv, NEW r \in Request, NEW d \in Decision, d.request = r,
         IF IsRestore(r)
         THEN restores' = restores \cup {d} /\ UNCHANGED resolutions
         ELSE resolutions' = Append(resolutions, d) /\ UNCHANGED restores
  PROVE  /\ resolutions' \in Seq(Decision) /\ restores' \subseteq Decision
         /\ \A c : Settlements(c) \subseteq Settlements(c)'
         /\ \A q : q.conflict # r.conflict \/ IsRestore(r) =>
              Settlements(q.conflict)' = Settlements(q.conflict) /\ (Undoable(q)' <=> Undoable(q))
         /\ ToSet(resolutions') = ToSet(resolutions) \cup IF IsRestore(r) THEN {} ELSE {d}
         /\ restores' = restores \cup IF IsRestore(r) THEN {d} ELSE {}
<1>1. resolutions \in Seq(Decision) /\ restores \subseteq Decision
  BY DEF HInv, TypeOK
<1>2. CASE IsRestore(r)
  <2>1. resolutions' = resolutions /\ restores' = restores \cup {d}
    BY <1>2
  <2>2. \A c : Of(c)' = Of(c)
    BY <2>1 DEF Of
  <2>3. /\ \A c : Settlements(c)' = Settlements(c)
        /\ \A q : Undoable(q)' <=> Undoable(q)
    BY <2>1, <2>2 DEF Settlements, Undoable
  <2> QED BY <1>1, <1>2, <2>1, <2>3
<1>3. CASE ~ IsRestore(r)
  <2>1. resolutions' = Append(resolutions, d) /\ restores' = restores
    BY <1>3
  <2>2. /\ resolutions' \in Seq(Decision)
        /\ ToSet(resolutions') = ToSet(resolutions) \cup {d}
        /\ \A c : Settlements(c)' = Settlements(c) \cup IF d.request.conflict = c THEN {d} ELSE {}
        /\ \A q : q.conflict # d.request.conflict => (Undoable(q)' <=> Undoable(q))
    BY <2>1, Appended
  <2>3. \A c : Settlements(c) \subseteq Settlements(c)'
    BY <2>2
  <2>4. \A q : q.conflict # r.conflict => Settlements(q.conflict)' = Settlements(q.conflict)
    BY <2>2
  <2> QED BY <1>1, <1>3, <2>1, <2>2, <2>3, <2>4
<1> QED BY <1>2, <1>3

\* No other transaction holds what a commit changes.
LEMMA OthersFit ==
  ASSUME HInv, LInv, NEW w \in Worker, tx[w].stage = "commit", NEW v \in Worker, v # w,
         NEW r, r = tx[w].request, NEW row, row = NewRow(r),
         \A e : e # row.entity => RowsOf(e)' = RowsOf(e),
         \A q : q.conflict # r.conflict \/ IsRestore(r) =>
           Settlements(q.conflict)' = Settlements(q.conflict) /\ (Undoable(q)' <=> Undoable(q))
  PROVE  \A t : t = tx[v] => TxFits(t)'
<1> TAKE t
<1> HAVE t = tx[v]
<1>1. TxFits(t)
  BY DEF HInv
<1>2. row.entity \in tx[w].locks \/ RowsOf(row.entity) = {}
  BY CommitIs
<1>3. row.entity \notin t.locks
  <2>1. \A e \in t.locks : RowsOf(e) # {}
    BY <1>1 DEF TxFits
  <2>2. t.locks \cap tx[w].locks = {}
    BY DEF LInv, EntitiesExclusive
  <2> QED BY <1>2, <2>1, <2>2
<1>4. t.stage \in Locked /\ t.request.action = "undo" =>
        t.request.conflict # r.conflict \/ IsRestore(r)
  <2> SUFFICES ASSUME t.stage \in Locked, t.request.action = "undo", ~ IsRestore(r)
               PROVE  t.request.conflict # r.conflict
    OBVIOUS
  <2>1. t.request \in Request
    BY <1>1 DEF TxFits, Locked
  <2>2. ~ IsRestore(t.request)
    BY <2>1, RequestType
  <2>3. HoldsConflict(v) /\ HoldsConflict(w)
    BY <2>2 DEF HoldsConflict, Locked
  <2> QED BY <2>3 DEF LInv, ConflictsExclusive
<1> QED BY <1>1, <1>3, <1>4, StillFits

LEMMA CommitStep ==
  ASSUME HInv, LInv, NEW w \in Worker, Commit(w)
  PROVE  HInv'
<1>1. tx[w].stage = "commit" /\ Become(w, Idle)
  BY DEF Commit
<1> PICK r : r = tx[w].request
  OBVIOUS
<1> PICK row : row = NewRow(r)
  OBVIOUS
<1> PICK d : d = [request |-> r, entity |-> row.entity, version |-> row.version]
  OBVIOUS
<1>2. /\ r \in Request /\ tx[w].rows = {row} /\ Available(r) /\ NextRow(row)
      /\ row.entity = Target(r) /\ row.op = r.op
      /\ row.content = Source(r).content /\ row.tombstone = Source(r).tombstone
      /\ UndoesCopy(r) => CopyUnchanged(Prior(r))
  BY <1>1, CommitIs
<1>3. /\ Accept(row)
      /\ IF IsRestore(r)
         THEN restores' = restores \cup {d} /\ UNCHANGED resolutions
         ELSE resolutions' = Append(resolutions, d) /\ UNCHANGED restores
  BY <1>2 DEF Commit
<1>4. /\ tx' = [v \in Worker |-> IF v = w THEN Idle ELSE tx[v]]
      /\ tx'[w] = Idle
      /\ \A v \in Worker : v # w => tx'[v] = tx[v]
  BY <1>1, Moved DEF LInv
<1>5. d.request = r /\ d.entity = row.entity /\ d.version = row.version
  OBVIOUS
<1>6. d \in Decision
  <2>1. row.entity \in Entity /\ row.version \in Nat \ {0}
    BY <1>2 DEF NextRow, VersionRow
  <2> QED BY <1>2, <2>1 DEF Decision
<1>7. /\ resolutions' \in Seq(Decision) /\ restores' \subseteq Decision
      /\ \A c : Settlements(c) \subseteq Settlements(c)'
      /\ \A q : q.conflict # r.conflict \/ IsRestore(r) =>
           Settlements(q.conflict)' = Settlements(q.conflict) /\ (Undoable(q)' <=> Undoable(q))
      /\ ToSet(resolutions') = ToSet(resolutions) \cup IF IsRestore(r) THEN {} ELSE {d}
      /\ restores' = restores \cup IF IsRestore(r) THEN {d} ELSE {}
  BY <1>2, <1>3, <1>5, <1>6, Audited
<1>8. DecisionFits(d)' /\ \A a \in Decisions : a.request.op # d.request.op
  BY <1>1, <1>3, <1>7, CommitDecides
<1>9. /\ \A e : e # row.entity => RowsOf(e)' = RowsOf(e)
      /\ versions' = versions \cup {row}
  BY <1>2, <1>3, AcceptRows DEF Accept
<1>10. TypeOK'
  <2>1. references' \in [Entity -> {"none", "live", "deleted"}]
    <3>1. row.entity \in Entity
      BY <1>2 DEF NextRow, VersionRow
    <3>2. Lifecycle(references[row.entity], row.kind) \in {"none", "live", "deleted"}
      BY <3>1 DEF HInv, TypeOK, Lifecycle
    <3> QED BY <1>3, <3>1, <3>2 DEF HInv, TypeOK, Accept
  <2>2. versions' \subseteq VersionRow
    BY <1>2, <1>9 DEF HInv, TypeOK, NextRow
  <2>3. tx' \in [Worker -> Transaction]
    BY <1>4, IdleFits DEF HInv, TypeOK
  <2> QED BY <1>7, <2>1, <2>2, <2>3 DEF TypeOK
<1>11. Numbered' /\ ReferencesFit'
  BY <1>2, <1>3, AcceptNumbers, AcceptReferences
<1>12. RowsApart'
  <2>1. \A p, q : Clash(p, q) <=> Clash(q, p)
    BY DEF Clash
  <2>2. \A p, q \in versions' : Clash(p, q) => p = q
    BY <1>2, <1>9, <2>1 DEF HInv, RowsApart, NextRow
  <2>3. \A v \in Worker : \A p \in tx'[v].rows : v # w /\ p \in tx[v].rows
    BY <1>4, IdleFits
  <2>4. \A v \in Worker : \A p \in tx[v].rows : \A q \in versions : ~ Clash(p, q)
    BY DEF HInv, RowsApart
  <2>5. \A v \in Worker : v # w => \A p \in tx[v].rows : ~ Clash(p, row)
    BY <1>2 DEF HInv, RowsApart
  <2>6. \A v \in Worker : \A p \in tx'[v].rows : \A q \in versions' : ~ Clash(p, q)
    BY <1>9, <2>3, <2>4, <2>5
  <2>7. \A v \in Worker : \A u \in Worker \ {v} : \A p \in tx'[v].rows : \A q \in tx'[u].rows : ~ Clash(p, q)
    BY <2>3 DEF HInv, RowsApart
  <2> QED BY <2>2, <2>6, <2>7 DEF RowsApart, Clash
<1>13. DecisionsFit'
  <2>1. \A a \in Decisions : DecisionFits(a)'
    <3>1. \A a \in Decisions : a \in Decision /\ DecisionFits(a)
      BY DecisionIs
    <3> QED BY <1>2, <1>3, <1>7, <3>1, AcceptDecisions
  <2>2. \A a \in ToSet(resolutions') : DecisionFits(a)' /\ ~ IsRestore(a.request)
    BY <1>5, <1>7, <1>8, <2>1 DEF HInv, DecisionsFit, Decisions
  <2>3. \A a \in restores' : DecisionFits(a)' /\ IsRestore(a.request)
    BY <1>5, <1>7, <1>8, <2>1 DEF HInv, DecisionsFit, Decisions
  <2>4. \A i, j \in DOMAIN resolutions' : resolutions'[i].request.op = resolutions'[j].request.op => i = j
    <3>1. \A i, j \in DOMAIN resolutions : resolutions[i].request.op = resolutions[j].request.op => i = j
      BY DEF HInv, DecisionsFit
    <3>2. CASE IsRestore(r)
      BY <1>3, <3>1, <3>2
    <3>3. CASE ~ IsRestore(r)
      <4>1. /\ DOMAIN resolutions' = DOMAIN resolutions \cup {Len(resolutions) + 1}
            /\ \A i \in DOMAIN resolutions : resolutions'[i] = resolutions[i]
            /\ resolutions'[Len(resolutions) + 1] = d
        BY <1>3, <1>6, <3>3, Appended
      <4>2. \A i \in DOMAIN resolutions : resolutions[i].request.op # d.request.op
        BY <1>8, ResolutionsAre DEF Decisions
      <4> QED BY <3>1, <4>1, <4>2
    <3> QED BY <3>2, <3>3
  <2> QED BY <2>2, <2>3, <2>4 DEF DecisionsFit
<1>14. UndoesTheLatest'
  <2>1. CASE IsRestore(r)
    <3>1. resolutions' = resolutions
      BY <1>3, <2>1
    <3> QED BY <3>1 DEF HInv, UndoesTheLatest, Of
  <2>2. CASE ~ IsRestore(r)
    BY <1>2, <1>3, <1>5, <1>6, <2>2, CommitUndoesTheLatest DEF Available
  <2> QED BY <2>1, <2>2
<1>15. UndoRestores'
  <2>1. ASSUME NEW a \in ToSet(resolutions'), a.request.action = "undo",
               NEW p \in ToSet(resolutions), p.request.op = a.request.undoes
        PROVE  UndoneBy(a)' = p
    <3>1. \A x, y \in ToSet(resolutions') : x.request.op = y.request.op => x = y
      <4>1. \A x, y \in ToSet(resolutions) : x.request.op = y.request.op => x = y
        BY ResolutionsAre
      <4> QED BY <1>7, <1>8, <4>1 DEF Decisions
    <3>2. p \in ToSet(resolutions')
      BY <1>7
    <3>3. (CHOOSE x \in ToSet(resolutions') : x.request.op = p.request.op) = p
      BY <3>1, <3>2, OpOf
    <3> QED BY <2>1, <3>3 DEF UndoneBy
  <2>2. ASSUME NEW a \in ToSet(resolutions), a.request.action = "undo"
        PROVE  UndoFits(a, UndoneBy(a))'
    <3>1. PICK p : p = UndoneBy(a)
      OBVIOUS
    <3>2. p \in ToSet(resolutions) /\ p.request.op = a.request.undoes /\ UndoFits(a, p)
      BY <2>2, <3>1, UndoneIs, UndoesFit DEF HInv
    <3>3. UndoFits(a, p)'
      BY <1>2, <1>3, <3>2, AcceptUndoes
    <3>4. UndoneBy(a)' = p
      BY <1>7, <2>1, <2>2, <3>2
    <3> QED BY <3>3, <3>4
  <2>3. ASSUME ~ IsRestore(r), r.action = "undo"
        PROVE  UndoFits(d, UndoneBy(d))'
    <3>1. PICK p : p = Prior(r)
      OBVIOUS
    <3>2. p \in ToSet(resolutions) /\ p.request.op = d.request.undoes
      BY <1>2, <1>5, <2>3, <3>1, PriorIs DEF Available
    <3>3. UndoFits(d, p)'
      BY <1>2, <1>3, <2>3, <3>1, CommitRestores
    <3>4. UndoneBy(d)' = p
      BY <1>5, <1>7, <2>1, <2>3, <3>2
    <3> QED BY <3>3, <3>4
  <2> QED BY <1>5, <1>7, <2>2, <2>3, UndoesFit
<1>16. ASSUME NEW v \in Worker
       PROVE  TxFits(tx[v])'
  <2>1. CASE v = w
    BY <1>4, <2>1, IdleFits DEF TxFits, Idle, Tx, Locked
  <2>2. CASE v # w
    <3>1. \A t : t = tx[v] => TxFits(t)'
      BY <1>1, <1>7, <1>9, <2>2, OthersFit
    <3>2. tx'[v] = tx[v]
      BY <1>4, <2>2
    <3> QED BY <3>1, <3>2
  <2> QED BY <2>1, <2>2
<1> QED BY <1>10, <1>11, <1>12, <1>13, <1>14, <1>15, <1>16 DEF HInv

-----------------------------------------------------------------------------
(* Every step of every behaviour.                                          *)

LEMMA HInitHolds ==
  ASSUME Init
  PROVE  HInv
<1>1. /\ versions = Stored /\ resolutions = <<>> /\ restores = {} /\ tx = [w \in Worker |-> Idle]
      /\ references = [e \in Entity |->
           IF e \notin Attached THEN "none" ELSE IF Latest(e).tombstone THEN "deleted" ELSE "live"]
  BY DEF Init
<1>2. /\ ToSet(resolutions) = {} /\ resolutions \in Seq(Decision) /\ DOMAIN resolutions = {}
  BY <1>1 DEF ToSet
<1>3. TypeOK
  BY <1>1, <1>2, StoredAssumption, IdleFits DEF TypeOK
<1>4. Numbered
  <2>1. ASSUME NEW e \in Entity
        PROVE  IsFiniteSet(RowsOf(e)) /\ {v.version : v \in RowsOf(e)} = 1 .. Cardinality(RowsOf(e))
    <3>1. RowsOf(e) = {v \in Stored : v.entity = e}
      BY <1>1 DEF RowsOf
    <3> QED BY <3>1, StoredAssumption
  <2> QED BY <2>1 DEF Numbered, Length
<1>5. RowsApart
  <2>1. \A p, q \in Stored : Clash(p, q) => p = q
    BY StoredAssumption DEF Clash
  <2>2. \A w \in Worker : tx[w].rows = {}
    BY <1>1, IdleFits
  <2> QED BY <1>1, <2>1, <2>2 DEF RowsApart
<1>6. ReferencesFit
  <2>1. \A e \in Attached : RowsOf(e) # {}
    BY <1>1, StoredAssumption DEF RowsOf
  <2>2. \A e \in Entity : RowsOf(e) = {} => references[e] = "none"
    BY <1>1, <2>1
  <2>3. \A e \in Entity : Latest(e).tombstone => references[e] # "live"
    BY <1>1
  <2> QED BY <2>2, <2>3 DEF ReferencesFit, DeletedStaysHidden
<1>7. DecisionsFit /\ UndoesTheLatest /\ UndoRestores
  BY <1>1, <1>2 DEF DecisionsFit, UndoesTheLatest, UndoRestores
<1>8. \A w \in Worker : TxFits(tx[w])
  BY <1>1, IdleFits
<1> QED BY <1>3, <1>4, <1>5, <1>6, <1>7, <1>8 DEF HInv

\* The inductive invariant, with what the locks keep.
Inv == LInv /\ HInv

LEMMA StepKeeps ==
  ASSUME Inv, Next
  PROVE  HInv'
<1>1. HInv /\ LInv
  BY DEF Inv
<1>2. ASSUME NEW w \in Worker, NEW r \in Request, Begin(w, r)
      PROVE  HInv'
  BY <1>1, <1>2, BeginStep
<1>3. ASSUME NEW w \in Worker, Abort(w)
      PROVE  HInv'
  BY <1>1, <1>3, EndStep DEF Abort
<1>4. ASSUME NEW w \in Worker, Handle(w)
      PROVE  HInv'
  BY <1>1, <1>3, <1>4, LockConflictStep, LockEntityStep, RecheckStep, ReviewStep, LockCopyStep,
     WriteStep, CommitStep DEF Handle
<1>5. ASSUME NEW op \in PushOp, NEW e \in Entity, NEW kind \in Kind,
             NEW content \in PushContent \cup {NoContent}, Push(op, e, kind, content)
      PROVE  HInv'
  BY <1>1, <1>5, PushStep
<1> QED BY <1>2, <1>4, <1>5 DEF Next

LEMMA StutterKeeps ==
  ASSUME HInv, UNCHANGED vars
  PROVE  HInv'
<1>1. UNCHANGED storeVars /\ tx' = tx
  BY DEF vars, storeVars
<1>2. tx' \in [Worker -> Transaction] /\ \A v \in Worker : TxFits(tx'[v])
  BY <1>1 DEF HInv, TypeOK
<1>3. /\ \A u \in Worker : \A p \in tx'[u].rows : \A q \in versions : ~ Clash(p, q)
      /\ \A u, v \in Worker : \A p \in tx'[u].rows : \A q \in tx'[v].rows : v # u => ~ Clash(p, q)
  BY <1>1 DEF HInv, RowsApart
<1> QED BY <1>1, <1>2, <1>3, SameStore

\* In every behaviour the histories are numbered without a gap, no unique key is
\* taken twice, every audit row is a version that was written for it, and what a
\* transaction has read under its locks is still so when it writes.
THEOREM Invariance == Spec => []Inv
<1>1. Init => Inv
  BY InitHolds, HInitHolds DEF Inv
<1>2. Inv /\ [Next]_vars => Inv'
  BY NextKeeps, StepKeeps, StutterKeeps DEF Inv
<1> QED BY <1>1, <1>2, PTL DEF Spec

-----------------------------------------------------------------------------
(* What the invariant says.                                                *)

\* Whatever handlers race, an audit row meets no unique key when it is committed:
\* two decisions never have one operation id, and never undo one resolution.
LEMMA NoKeyIsMet ==
  ASSUME Inv
  PROVE  CommitMeetsNoKey
<1> SUFFICES ASSUME NEW w \in Worker, tx[w].stage = "commit", NEW d \in Decisions
             PROVE  /\ d.request.op # tx[w].request.op
                    /\ tx[w].request.undoes # NoOp => d.request.undoes # tx[w].request.undoes
  BY DEF CommitMeetsNoKey, Decisions
<1> DEFINE r == tx[w].request
<1>1. HInv
  BY DEF Inv
<1>2. r \in Request /\ Available(r) /\ NextRow(NewRow(r)) /\ NewRow(r).op = r.op
  BY <1>1, CommitIs
<1> HIDE DEF r
<1>3. d.request.op # r.op
  <2>1. Row(d.entity, d.version).op = d.request.op /\ Row(d.entity, d.version) \in versions
    BY <1>1, DecisionIs
  <2> QED BY <1>2, <2>1 DEF NextRow, Clash
<1>4. r.undoes # NoOp => d.request.undoes # r.undoes
  <2> SUFFICES ASSUME r.undoes # NoOp, d.request.undoes = r.undoes
               PROVE  FALSE
    OBVIOUS
  <2>1. r.action = "undo"
    BY <1>2, RequestType
  <2>2. d.request \in Request /\ d.request.action = "undo"
    BY <1>1, DecisionIs, RequestType DEF DecisionFits
  <2>3. ~ IsRestore(d.request)
    BY <2>2, RequestType
  <2>4. PICK i \in DOMAIN resolutions : d = resolutions[i]
    BY <1>1, <2>3, ResolutionsAre DEF Decisions, HInv, DecisionsFit
  <2>5. PICK j \in Of(d.request.conflict) : j < i /\ resolutions[j].request.op = r.undoes
    BY <1>1, <2>2, <2>4 DEF HInv, UndoesTheLatest
  <2>6. PICK m \in Of(r.conflict) : resolutions[m].request.op = r.undoes /\ \A k \in Of(r.conflict) : k <= m
    BY <1>2, <2>1 DEF Available, Undoable
  <2>7. j \in DOMAIN resolutions /\ resolutions[j].request.conflict = d.request.conflict
    BY <2>5 DEF Of
  <2>8. m \in DOMAIN resolutions /\ resolutions[m].request.conflict = r.conflict
    BY <2>6 DEF Of
  <2>9. j = m
    BY <1>1, <2>5, <2>6, <2>7, <2>8 DEF HInv, DecisionsFit
  <2>10. i \in Of(r.conflict)
    BY <2>4, <2>7, <2>8, <2>9 DEF Of
  <2>11. i \in Nat /\ m \in Nat
    BY <1>1, <2>4, <2>8, ResolutionsAre
  <2> QED BY <2>5, <2>6, <2>9, <2>10, <2>11
<1> QED BY <1>3, <1>4 DEF r

\* What the conflict transactions leave is consistent at every step: types, unique
\* keys that no commit meets, and hidden attachments of deleted entities.
THEOREM ConsistentAlways == Spec => []Consistent
<1>1. Inv => Consistent
  BY NoKeyIsMet DEF Inv, HInv, ReferencesFit, Consistent
<1> QED BY <1>1, Invariance, PTL

\* In every behaviour an undo undoes the resolution of its conflict just before it,
\* however many others are settled, undone or pushed around it.
THEOREM UndoesTheLatestAlways == Spec => []UndoesTheLatest
<1>1. Inv => UndoesTheLatest
  BY DEF Inv, HInv
<1> QED BY <1>1, Invariance, PTL

\* In every behaviour an undo gives the entity the state from before the resolution
\* that it undoes, except the undo of the undo of a saved copy; and it deletes a
\* saved copy only when no one has pushed to it.
THEOREM UndoRestoresAlways == Spec => []UndoRestores
<1>1. Inv => UndoRestores
  BY DEF Inv, HInv
<1> QED BY <1>1, Invariance, PTL

-----------------------------------------------------------------------------
(* What was reviewed is what is replaced.                                  *)

\* What the abstract specification sees of the tables.
OpsOf(e)  == [n \in 1 .. Length(e) |-> Row(e, n).op]
Histories == [e \in Entity |-> OpsOf(e)]
Record(d) == [op |-> d.request.op, entity |-> d.entity, replaced |-> Replaced(d)]
Decided   == {Record(d) : d \in Decisions}

LEMMA OpsType ==
  ASSUME HInv, NEW e \in Entity
  PROVE  /\ OpsOf(e) \in Seq(Operation) /\ Len(OpsOf(e)) = Length(e) /\ Length(e) \in Nat
         /\ \A n \in 1 .. Length(e) : OpsOf(e)[n] = Row(e, n).op
         /\ \A n \in 1 .. Length(e) : Row(e, n) \in versions
<1>1. Length(e) \in Nat /\ \A n \in 1 .. Length(e) : Row(e, n) \in RowsOf(e) /\ Row(e, n) \in VersionRow
  BY LengthIs
<1>2. OpsOf(e) \in [1 .. Length(e) -> Operation]
  BY <1>1 DEF OpsOf, VersionRow
<1>3. \A n \in 1 .. Length(e) : OpsOf(e)[n] = Row(e, n).op
  BY DEF OpsOf
<1>4. OpsOf(e) \in Seq(Operation) /\ Len(OpsOf(e)) = Length(e)
  BY <1>1, <1>2
<1> QED BY <1>1, <1>3, <1>4 DEF RowsOf

\* The operation of an accepted row comes last in the history of its entity.
LEMMA AcceptExtends ==
  ASSUME HInv, HInv', NEW row, NextRow(row), Accept(row)
  PROVE  /\ row.entity \in Entity /\ row.op \in Operation \ Reviewed!Used
         /\ Histories' = [Histories EXCEPT ![row.entity] = Append(@, row.op)]
<1> PICK f : f = row.entity
  OBVIOUS
<1> PICK L : L = Length(f)
  OBVIOUS
<1>1. f \in Entity /\ row.op \in Operation /\ row.version = L + 1
  BY DEF NextRow, VersionRow
<1>2. /\ \A e : e # f => RowsOf(e)' = RowsOf(e)
      /\ Length(f)' = L + 1 /\ Latest(f)' = row
      /\ \A n \in 1 .. L : Row(f, n)' = Row(f, n)
  BY <1>1, AcceptRows
<1>3. /\ OpsOf(f) \in Seq(Operation) /\ Len(OpsOf(f)) = L /\ L \in Nat
      /\ \A n \in 1 .. L : OpsOf(f)[n] = Row(f, n).op
  BY <1>1, OpsType
<1>4. ASSUME NEW e \in Entity, e # f
      PROVE  OpsOf(e)' = OpsOf(e)
  <2>1. Length(e)' = Length(e) /\ \A n : Row(e, n)' = Row(e, n)
    BY <1>2, <1>4, SameRows
  <2> QED BY <2>1 DEF OpsOf
<1>5. OpsOf(f)' = Append(OpsOf(f), row.op)
  <2>1. Row(f, L + 1)' = row
    BY <1>2 DEF Latest
  <2>2. OpsOf(f)' = [n \in 1 .. L + 1 |-> Row(f, n)'.op]
    BY <1>2 DEF OpsOf
  <2> PICK g : g = OpsOf(f)
    OBVIOUS
  <2> PICK h : h = OpsOf(f)'
    OBVIOUS
  <2>3. \A n \in 1 .. L : h[n] = g[n]
    BY <1>2, <1>3, <2>2
  <2>4. h[L + 1] = row.op
    BY <1>3, <2>1, <2>2
  <2>5. DOMAIN h = 1 .. L + 1
    BY <2>2
  <2>6. h \in [1 .. L + 1 -> Operation]
    <3>1. \A n \in 1 .. L : g[n] \in Operation
      BY <1>3
    <3>2. \A n \in 1 .. L + 1 : n \in 1 .. L \/ n = L + 1
      BY <1>3
    <3>3. \A n \in 1 .. L + 1 : h[n] \in Operation
      BY <1>1, <2>3, <2>4, <3>1, <3>2
    <3>4. h = [n \in 1 .. L + 1 |-> h[n]]
      BY <2>2
    <3> QED BY <3>3, <3>4
  <2>7. h \in Seq(Operation) /\ Len(h) = L + 1
    BY <1>3, <2>6
  <2>8. /\ Append(g, row.op) \in Seq(Operation) /\ Len(Append(g, row.op)) = L + 1
        /\ \A n \in 1 .. L : Append(g, row.op)[n] = g[n]
        /\ Append(g, row.op)[L + 1] = row.op
    BY <1>1, <1>3, AppendProperties
  <2>9. \A n \in 1 .. L + 1 : h[n] = Append(g, row.op)[n]
    <3>1. \A n \in 1 .. L + 1 : n \in 1 .. L \/ n = L + 1
      BY <1>3
    <3> QED BY <2>3, <2>4, <2>8, <3>1
  <2>10. h = Append(g, row.op)
    BY <2>7, <2>8, <2>9, SeqEqual
  <2> QED BY <2>10
<1>6. Histories' = [Histories EXCEPT ![f] = Append(@, row.op)]
  <2>1. Histories' = [e \in Entity |-> OpsOf(e)']
    BY DEF Histories
  <2>2. [Histories EXCEPT ![f] = Append(@, row.op)] =
          [e \in Entity |-> IF e = f THEN Append(OpsOf(f), row.op) ELSE OpsOf(e)]
    BY <1>1 DEF Histories
  <2>3. \A e \in Entity : OpsOf(e)' = IF e = f THEN Append(OpsOf(f), row.op) ELSE OpsOf(e)
    BY <1>4, <1>5
  <2> QED BY <2>1, <2>2, <2>3
<1>7. row.op \notin Reviewed!Used
  <2>1. Reviewed!Used = UNION {Reviewed!ToSet(Histories[e]) : e \in Entity}
    BY DEF Reviewed!Used, Histories, OpsOf
  <2>2. \A e \in Entity : Histories[e] = OpsOf(e)
    BY DEF Histories
  <2>3. ASSUME NEW e \in Entity, row.op \in Reviewed!ToSet(OpsOf(e))
        PROVE  FALSE
    <3>1. Reviewed!ToSet(OpsOf(e)) = {OpsOf(e)[n] : n \in DOMAIN OpsOf(e)}
      BY DEF Reviewed!ToSet
    <3>2. DOMAIN OpsOf(e) = 1 .. Length(e)
      BY DEF OpsOf
    <3>3. PICK n \in 1 .. Length(e) : row.op = OpsOf(e)[n]
      BY <2>3, <3>1, <3>2
    <3>4. Row(e, n) \in versions /\ Row(e, n).op = row.op
      BY <3>3, OpsType
    <3> QED BY <3>4 DEF NextRow, Clash
  <2> QED BY <2>1, <2>2, <2>3
<1> QED BY <1>1, <1>6, <1>7

LEMMA ReviewUnchanged ==
  ASSUME UNCHANGED storeVars
  PROVE  UNCHANGED Reviewed!vars
<1>1. \A e : RowsOf(e)' = RowsOf(e)
  BY Settles
<1>2. \A e : Length(e)' = Length(e) /\ \A n : Row(e, n)' = Row(e, n)
  BY <1>1, SameRows
<1>3. Histories' = Histories
  BY <1>2 DEF Histories, OpsOf
<1>4. Decided' = Decided
  BY DEF Decided, Decisions, Record, Replaced, storeVars
<1> QED BY <1>3, <1>4 DEF Reviewed!vars, Histories, OpsOf, Decided, Decisions, Record

LEMMA PushEdits ==
  ASSUME Inv, Inv', NEW op \in PushOp, NEW e \in Entity, NEW kind \in Kind,
         NEW content \in PushContent \cup {NoContent}, Push(op, e, kind, content)
  PROVE  Reviewed!Next
<1> PICK row : row = [entity |-> e, version |-> Length(e) + 1, content |-> content,
                      tombstone |-> kind = "delete", kind |-> kind, op |-> op]
  OBVIOUS
<1>1. /\ \A q \in versions : ~ Clash(q, row)
      /\ Accept(row) /\ resolutions' = resolutions /\ restores' = restores
  BY DEF Push, RowTaken
<1>2. Length(e) \in Nat
  BY LengthIs DEF Inv
<1>3. row \in VersionRow
  BY <1>2 DEF VersionRow, Operation, Content
<1>4. NextRow(row)
  BY <1>1, <1>3 DEF NextRow, Clash
<1>5. /\ row.entity \in Entity /\ row.op \in Operation \ Reviewed!Used
      /\ Histories' = [Histories EXCEPT ![row.entity] = Append(@, row.op)]
  BY <1>1, <1>4, AcceptExtends DEF Inv
<1>6. Decided' = Decided
  BY <1>1 DEF Decided, Decisions, Record, Replaced
<1>7. Reviewed!Edit(row.entity, row.op)
  BY <1>5, <1>6 DEF Reviewed!Edit, Reviewed!Extend, Histories, OpsOf, Decided, Decisions, Record
<1> QED BY <1>5, <1>7 DEF Reviewed!Next

LEMMA DecideIsNext ==
  ASSUME NEW op \in Operation \ Reviewed!Used, NEW e \in Entity, NEW n \in 0 .. Len(Histories[e]),
         Reviewed!Decide(e, op, n)
  PROVE  Reviewed!Next
<1>1. Len(Histories[e]) = Len([f \in Entity |-> [k \in 1 .. Length(f) |-> Row(f, k).op]][e])
  BY DEF Histories, OpsOf
<1>2. \E k \in 0 .. Len([f \in Entity |-> [m \in 1 .. Length(f) |-> Row(f, m).op]][e]) : Reviewed!Decide(e, op, k)
  BY <1>1
<1> QED BY <1>2 DEF Reviewed!Next

LEMMA CommitDecidesReviewed ==
  ASSUME Inv, Inv', NEW w \in Worker, Commit(w)
  PROVE  Reviewed!Next
<1>1. HInv /\ HInv' /\ tx[w].stage = "commit"
  BY DEF Inv, Commit
<1> PICK r : r = tx[w].request
  OBVIOUS
<1> PICK row : row = NewRow(r)
  OBVIOUS
<1> PICK d : d = [request |-> r, entity |-> row.entity, version |-> row.version]
  OBVIOUS
<1> PICK f : f = row.entity
  OBVIOUS
<1> PICK n : n = Length(f)
  OBVIOUS
<1>2. /\ r \in Request /\ tx[w].rows = {row} /\ NextRow(row) /\ row.op = r.op
  BY <1>1, CommitIs
<1>3. /\ Accept(row)
      /\ IF IsRestore(r)
         THEN restores' = restores \cup {d} /\ UNCHANGED resolutions
         ELSE resolutions' = Append(resolutions, d) /\ UNCHANGED restores
  BY <1>2 DEF Commit
<1>4. /\ f \in Entity /\ row.op \in Operation \ Reviewed!Used
      /\ Histories' = [Histories EXCEPT ![f] = Append(@, row.op)]
  BY <1>1, <1>2, <1>3, AcceptExtends
<1>5. d \in Decision /\ d.request = r /\ d.entity = f /\ d.version = n + 1
  BY <1>2, <1>4 DEF NextRow, VersionRow, Decision
<1>6. Decisions' = Decisions \cup {d}
  BY <1>1, <1>2, <1>3, <1>5, Audited DEF Decisions
<1>7. Decided' = Decided \cup {Record(d)}
  <2>1. Decided' = {Record(x) : x \in Decisions'}
    BY DEF Decided, Record, Replaced
  <2>2. {Record(x) : x \in Decisions \cup {d}} = {Record(x) : x \in Decisions} \cup {Record(d)}
    OBVIOUS
  <2> QED BY <1>6, <2>1, <2>2 DEF Decided
<1>8. Unchanged(r)
  BY <1>1, TxIs DEF TxFits
<1>9. n \in Nat /\ Len(Histories[f]) = n
  BY <1>1, <1>4, OpsType DEF Histories
<1>10. Replaced(d) = n
  BY <1>5, <1>8, <1>9 DEF Replaced, Unchanged
<1>11. Record(d) = [op |-> row.op, entity |-> f, replaced |-> n]
  BY <1>2, <1>5, <1>10 DEF Record
<1>12. Reviewed!Decide(f, row.op, n)
  BY <1>4, <1>7, <1>9, <1>11 DEF Reviewed!Decide, Reviewed!Extend, Histories, OpsOf, Decided, Decisions, Record
<1>13. n \in 0 .. Len(Histories[f])
  BY <1>9
<1> QED BY <1>4, <1>12, <1>13, DecideIsNext

\* In every behaviour a decision takes effect on the version that was reviewed while
\* that is the latest, at once with its audit row, and no operation takes effect twice.
THEOREM HistoryImplementsReview == Spec => ImplementsReview
<1>1. Init => Decided = {}
  <2> SUFFICES ASSUME Init PROVE Decided = {}
    OBVIOUS
  <2>1. resolutions = <<>> /\ restores = {}
    BY DEF Init
  <2>2. Decisions = {}
    BY <2>1 DEF Decisions, ToSet
  <2> QED BY <2>2 DEF Decided
<1>2. Inv /\ Inv' /\ [Next]_vars => [Reviewed!Next]_(Reviewed!vars)
  <2> SUFFICES ASSUME Inv, Inv', [Next]_vars PROVE Reviewed!Next \/ UNCHANGED Reviewed!vars
    OBVIOUS
  <2>1. CASE UNCHANGED vars
    BY <2>1, ReviewUnchanged DEF vars, storeVars
  <2>2. ASSUME NEW w \in Worker, (\E r \in Request : Begin(w, r)) \/ Handle(w), ~ Commit(w)
        PROVE  UNCHANGED Reviewed!vars
    <3>1. UNCHANGED storeVars
      BY <2>2 DEF Begin, Handle, LockConflict, LockEntity, Recheck, Review, LockCopy, Write, Abort
    <3> QED BY <3>1, ReviewUnchanged
  <2>3. ASSUME NEW w \in Worker, Commit(w) PROVE Reviewed!Next
    BY <2>3, CommitDecidesReviewed
  <2>4. ASSUME NEW op \in PushOp, NEW e \in Entity, NEW kind \in Kind,
               NEW content \in PushContent \cup {NoContent}, Push(op, e, kind, content)
        PROVE  Reviewed!Next
    BY <2>4, PushEdits
  <2> QED BY <2>1, <2>2, <2>3, <2>4 DEF Next
<1> QED BY <1>1, <1>2, Invariance, PTL DEF Spec, ImplementsReview, Reviewed!Spec, Decided, Decisions, Record
=============================================================================
