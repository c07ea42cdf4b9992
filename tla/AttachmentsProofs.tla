-------------------------- MODULE AttachmentsProofs --------------------------
(***************************************************************************)
(* For any workers, references, keys, chunks and times: the counter of the *)
(* blob is exact, uploads have their blob and chunk rows their files, what *)
(* is available has its bytes unless a late sweep took them, and what is   *)
(* retained stays bound.                                                   *)
(***************************************************************************)
EXTENDS Attachments, Integers, FiniteSetTheorems, WellFoundedInduction, TLAPS

-----------------------------------------------------------------------------
(* Sets of naturals have a least element.                                  *)

\* Naturals are well-founded.
LEMMA HasLeast ==
  ASSUME NEW S \in SUBSET Nat, S # {}
  PROVE  \E m \in S : \A n \in S : m <= n
<1>1. PICK m \in S : \A n \in S : ~ (<<n, m>> \in OpToRel(<, Nat))
  BY NatLessThanWellFounded, WFMin
<1>2. \A n \in S : ~ (n < m)
  BY <1>1 DEF OpToRel
<1> QED BY <1>2

-----------------------------------------------------------------------------
(* The inductive invariant.                                                *)

\* What a transaction holds.
LocksOf(j) ==
    CASE j.pc \in {"insert", "lock", "lifecycle"} -> {RefLock(j.ref)}
      [] j.pc = "assembled" -> {UploadLock(j.up)}
      [] j.pc = "bind" -> {UploadLock(j.up), Blob}
      [] OTHER -> {}

\* Every transaction holds its locks, the collector the blob it collects, and
\* no lock is held twice.
LocksFit ==
    /\ \A w \in Worker : held[w] = LocksOf(job[w])
    /\ held[Collector] = IF sweep.pc = "collect" THEN {Blob} ELSE {}
    /\ \A a \in Actor : \A b \in Actor \ {a} : held[a] \cap held[b] = {}

\* What a transaction has read stays so: an upload that is completed has its row
\* and its file, one that is bound its blob; a reference that is deleted or
\* restored is bound; a blob that is quarantined is there.
JobFits(j) ==
    /\ j.pc \in {"assembled", "bind"} =>
        /\ upload[j.up] # None /\ upload[j.up].status # "completed"
        /\ file \/ sweptLate
    /\ j.pc \in {"bind", "damaged"} => blob # None
    /\ j.pc = "lifecycle" => ref[j.ref] # None /\ ref[j.ref].bound /\ j.at <= clock

\* An upload has its reference.
UploadsFit == \A u \in Uploads : ref[upload[u].ref] # None

\* The chunk files that a sweep will delete are of uploads that are gone.
SweepFits ==
    /\ sweep.now <= clock
    /\ \A u \in UploadId, o \in 1..NChunk : <<u, o>> \in sweep.keys => upload[u] = None

KInv ==
    /\ TypeOK
    /\ LocksFit
    /\ \A w \in Worker : JobFits(job[w])
    /\ UploadsFit
    /\ SweepFits
    /\ CountExact
    /\ UploadKeepsBlob
    /\ ChunksStored
    /\ AvailableUnlessSwept

-----------------------------------------------------------------------------
(* Types.                                                                  *)

LEMMA TimeType == /\ Time \subseteq Nat /\ 0 \in Time /\ (0 .. MaxTime) \subseteq Time
                  /\ \A t \in 0 .. MaxTime : t + Retention \in Time /\ t + TTL \in Time
BY TimeAssumption DEF Time

LEMMA JobType ==
  ASSUME NEW j \in Job
  PROVE  /\ j.pc = "idle" <=> j = Idle
         /\ j.pc \in {"identify", "insert", "lock"} => j.key \in Key /\ j.ref \in Ref
         /\ j.pc \in {"assembled", "bind"} => j.up \in UploadId
         /\ j.pc = "lifecycle" => j.ref \in Ref /\ j.kind \in {"delete", "restore"} /\ j.at \in Time
         /\ j.pc \in {"idle", "identify", "insert", "lock", "assembled", "bind", "lifecycle", "damaged"}
BY DEF Job, Idle

\* An initiation, and a completion, that moves on.
LEMMA JobMoves ==
  ASSUME NEW j \in Job, NEW p
  PROVE  /\ j.pc \in {"identify", "insert", "lock"} /\ p \in {"insert", "lock"} =>
              /\ [j EXCEPT !.pc = p] \in Job /\ [j EXCEPT !.pc = p].pc = p
              /\ [j EXCEPT !.pc = p].ref = j.ref
         /\ j.pc = "assembled" /\ p = "bind" =>
              /\ [j EXCEPT !.pc = p] \in Job /\ [j EXCEPT !.pc = p].pc = p
              /\ [j EXCEPT !.pc = p].up = j.up
BY DEF Job, Idle

LEMMA NewTypes ==
  ASSUME KInv
  PROVE  /\ NewRef \in RefRow /\ ~ NewRef.bound /\ ~ NewRef.tombstone
         /\ NewBlob \in BlobRow /\ NewBlob.count = 0 /\ NewBlob.status = "pending"
         /\ \A k \in Key, r \in Ref, done \in BOOLEAN :
              /\ NewUpload(k, r, done) \in UploadRow /\ NewUpload(k, r, done).ref = r
              /\ NewUpload(k, r, done).chunks = {}
<1>1. 0 .. Cardinality(Ref) \subseteq Nat /\ 0 \in 0 .. Cardinality(Ref)
  BY BoundAssumption, FS_CardinalityType
<1>2. clock \in Time /\ clock + TTL \in Time /\ 0 \in Time
  BY TimeType DEF KInv, TypeOK
<1> QED BY <1>1, <1>2 DEF NewRef, RefRow, NewBlob, BlobRow, NewUpload, UploadRow

LEMMA ReboundType ==
  ASSUME NEW old \in RefRow \cup {None}, NEW shared \in BOOLEAN
  PROVE  /\ Rebound(old, shared) \in RefRow
         /\ old # None => /\ old.bound => Rebound(old, shared).bound
                          /\ Rebound(old, shared).tombstone = old.tombstone
<1>1. NewRef \in RefRow
  BY TimeType DEF NewRef, RefRow
<1>2. (IF old = None THEN NewRef ELSE old) \in RefRow
  BY <1>1
<1> QED BY <1>2 DEF Rebound, RefRow

LEMMA MarkedType ==
  ASSUME NEW row \in RefRow, NEW kind, NEW t \in 0 .. MaxTime
  PROVE  Marked(row, kind, t) \in RefRow /\ Marked(row, kind, t).bound = row.bound
<1>1. t + Retention \in Time /\ 0 \in Time
  BY TimeType
<1> QED BY <1>1 DEF Marked, RefRow

\* The trigger keeps the counter exact, and the status.
LiveOf(f) == {r \in Ref : Live(f[r])}

LEMMA LiveFinite ==
  ASSUME NEW f
  PROVE  /\ IsFiniteSet(LiveOf(f)) /\ Cardinality(LiveOf(f)) \in Nat
         /\ Cardinality(LiveOf(f)) \in 0 .. Cardinality(Ref)
<1>1. LiveOf(f) \subseteq Ref
  BY DEF LiveOf
<1>2. IsFiniteSet(LiveOf(f)) /\ Cardinality(LiveOf(f)) <= Cardinality(Ref)
  BY <1>1, BoundAssumption, FS_Subset
<1>3. Cardinality(LiveOf(f)) \in Nat /\ Cardinality(Ref) \in Nat
  BY <1>2, BoundAssumption, FS_CardinalityType
<1> QED BY <1>2, <1>3

LEMMA CountedType ==
  ASSUME NEW b \in BlobRow, NEW old, NEW new \in RefRow, NEW n \in 0 .. Cardinality(Ref),
         n = (Counted(b, old, new)).count
  PROVE  Counted(b, old, new) \in BlobRow /\ Counted(b, old, new).status = b.status
<1>1. new.retention \in Time /\ b.gc \in Time \cup {None}
  BY DEF RefRow, BlobRow
<1>2. Latest(b.gc, new.retention) \in Time \cup {None}
  BY <1>1 DEF Latest
<1>3. CASE Live(old) /\ ~ Live(new)
  <2>1. Counted(b, old, new) = [b EXCEPT !.count = @ - 1, !.gc = Latest(@, new.retention)]
    BY <1>3 DEF Counted
  <2> QED BY <1>2, <2>1 DEF BlobRow
<1>4. CASE Live(new) /\ ~ Live(old)
  <2>1. Counted(b, old, new) = [b EXCEPT !.count = @ + 1]
    BY <1>4 DEF Counted
  <2> QED BY <2>1 DEF BlobRow
<1>5. CASE Live(old) <=> Live(new)
  BY <1>5 DEF Counted
<1> QED BY <1>3, <1>4, <1>5 DEF Live

LEMMA CountedExact ==
  ASSUME NEW f \in [Ref -> RefRow \cup {None}], NEW r \in Ref, NEW new \in RefRow,
         NEW b \in BlobRow, b.count = Cardinality(LiveOf(f))
  PROVE  /\ Counted(b, f[r], new) \in BlobRow
         /\ Counted(b, f[r], new).status = b.status
         /\ Counted(b, f[r], new).count = Cardinality(LiveOf([f EXCEPT ![r] = new]))
<1> DEFINE g == [f EXCEPT ![r] = new]
<1>a. g[r] = new /\ \A x \in Ref : x # r => g[x] = f[x]
  OBVIOUS
<1> HIDE DEF g
<1>0. /\ IsFiniteSet(LiveOf(f)) /\ IsFiniteSet(LiveOf(g))
      /\ Cardinality(LiveOf(f)) \in Nat /\ Cardinality(LiveOf(g)) \in Nat
      /\ Cardinality(LiveOf(g)) \in 0 .. Cardinality(Ref)
  BY LiveFinite
<1>1. Counted(b, f[r], new).count = Cardinality(LiveOf(g))
  <2>1. CASE Live(f[r]) /\ ~ Live(new)
    <3>1. LiveOf(f) = LiveOf(g) \cup {r} /\ r \notin LiveOf(g)
      BY <1>a, <2>1 DEF LiveOf
    <3>2. Cardinality(LiveOf(f)) = Cardinality(LiveOf(g)) + 1
      BY <1>0, <3>1, FS_AddElement
    <3>3. Counted(b, f[r], new).count = b.count - 1
      BY <2>1 DEF Counted, BlobRow
    <3> QED BY <1>0, <3>2, <3>3
  <2>2. CASE Live(new) /\ ~ Live(f[r])
    <3>1. LiveOf(g) = LiveOf(f) \cup {r} /\ r \notin LiveOf(f)
      BY <1>a, <2>2 DEF LiveOf
    <3>2. Cardinality(LiveOf(g)) = Cardinality(LiveOf(f)) + 1
      BY <1>0, <3>1, FS_AddElement
    <3>3. Counted(b, f[r], new).count = b.count + 1
      BY <2>2 DEF Counted, BlobRow
    <3> QED BY <1>0, <3>2, <3>3
  <2>3. CASE Live(f[r]) <=> Live(new)
    <3>1. LiveOf(g) = LiveOf(f)
      BY <1>a, <2>3 DEF LiveOf
    <3>2. Counted(b, f[r], new) = b
      BY <2>3 DEF Counted
    <3> QED BY <3>1, <3>2
  <2> QED BY <2>1, <2>2, <2>3 DEF Live
<1> QED BY <1>0, <1>1, CountedType DEF g

-----------------------------------------------------------------------------
(* Locks.                                                                  *)

LEMMA LocksType ==
  ASSUME NEW j \in Job
  PROVE  LocksOf(j) \subseteq Lock
BY JobType DEF LocksOf, Lock, Blob, RefLock, UploadLock

LEMMA IdleLocks == Idle \in Job /\ Idle.pc = "idle" /\ LocksOf(Idle) = {}
BY DEF Idle, Job, LocksOf

LEMMA LocksApart ==
  /\ \A r \in Ref : RefLock(r) # Blob
  /\ \A u \in UploadId : UploadLock(u) # Blob
  /\ \A r \in Ref, u \in UploadId : RefLock(r) # UploadLock(u)
  /\ \A r, q \in Ref : RefLock(r) = RefLock(q) => r = q
  /\ \A u, v \in UploadId : UploadLock(u) = UploadLock(v) => u = v
BY DEF RefLock, Blob, UploadLock

\* A worker that does job j, with the locks of j, which were its own or free.
LEMMA LocksMove ==
  ASSUME KInv, NEW w \in Worker, NEW j \in Job, job' = [job EXCEPT ![w] = j],
         held' = [held EXCEPT ![w] = LocksOf(j)],
         \A l \in LocksOf(j) : l \in held[w] \/ Free(w, l),
         sweep'.pc = sweep.pc
  PROVE  /\ LocksFit' /\ job' \in [Worker -> Job] /\ held' \in [Actor -> SUBSET Lock]
         /\ job'[w] = j /\ \A v \in Worker \ {w} : job'[v] = job[v]
<1>0. w \in Actor /\ Collector # w /\ Collector \in Actor
  BY CollectorAssumption DEF Actor
<1>1. job \in [Worker -> Job] /\ held \in [Actor -> SUBSET Lock] /\ LocksOf(j) \subseteq Lock
  BY LocksType DEF KInv, TypeOK
<1>2. job' \in [Worker -> Job] /\ held' \in [Actor -> SUBSET Lock]
  BY <1>0, <1>1
<1>3. /\ job'[w] = j /\ held'[w] = LocksOf(j)
      /\ \A v \in Worker \ {w} : job'[v] = job[v]
      /\ \A a \in Actor \ {w} : held'[a] = held[a]
  BY <1>0, <1>1
<1>4. \A v \in Worker : held'[v] = LocksOf(job'[v])
  BY <1>3 DEF KInv, LocksFit, Actor
<1>5. held'[Collector] = IF sweep'.pc = "collect" THEN {Blob} ELSE {}
  BY <1>0, <1>3 DEF KInv, LocksFit
<1>6. \A a \in Actor : \A b \in Actor \ {a} : held'[a] \cap held'[b] = {}
  <2> TAKE a \in Actor
  <2> TAKE b \in Actor \ {a}
  <2>1. held[a] \cap held[b] = {}
    BY DEF KInv, LocksFit
  <2>2. \A c \in Actor \ {w} : LocksOf(j) \cap held[c] = {}
    BY <1>0 DEF KInv, LocksFit, Free
  <2> QED BY <1>3, <2>1, <2>2
<1> QED BY <1>2, <1>3, <1>4, <1>5, <1>6 DEF LocksFit

LEMMA EndLocks ==
  ASSUME KInv, NEW w \in Worker, End(w), sweep' = sweep
  PROVE  /\ LocksFit' /\ job' \in [Worker -> Job] /\ held' \in [Actor -> SUBSET Lock]
         /\ job'[w] = Idle /\ \A v \in Worker \ {w} : job'[v] = job[v]
<1>1. job' = [job EXCEPT ![w] = Idle] /\ held' = [held EXCEPT ![w] = LocksOf(Idle)]
  BY IdleLocks DEF End, Goto, Release
<1> QED BY <1>1, IdleLocks, LocksMove

\* The next job needs no further lock.
LEMMA GotoLocks ==
  ASSUME KInv, NEW w \in Worker, NEW j \in Job, Goto(w, j), LocksOf(j) = LocksOf(job[w]),
         UNCHANGED <<held, sweep>>
  PROVE  /\ LocksFit' /\ job' \in [Worker -> Job] /\ held' \in [Actor -> SUBSET Lock]
         /\ job'[w] = j /\ \A v \in Worker \ {w} : job'[v] = job[v]
<1>1. held[w] = LocksOf(j) /\ held \in [Actor -> SUBSET Lock] /\ w \in Actor
  BY DEF KInv, LocksFit, TypeOK, Actor
<1>2. held' = [held EXCEPT ![w] = LocksOf(j)] /\ job' = [job EXCEPT ![w] = j]
  BY <1>1 DEF Goto
<1> QED BY <1>1, <1>2, LocksMove

\* The next job needs a lock that is free.
LEMMA TakeLocks ==
  ASSUME KInv, NEW w \in Worker, NEW j \in Job, NEW l, Goto(w, j), Take(w, {l}), Free(w, l),
         LocksOf(j) = LocksOf(job[w]) \cup {l}, sweep' = sweep
  PROVE  /\ LocksFit' /\ job' \in [Worker -> Job] /\ held' \in [Actor -> SUBSET Lock]
         /\ job'[w] = j /\ \A v \in Worker \ {w} : job'[v] = job[v]
<1>1. held[w] = LocksOf(job[w]) /\ held \in [Actor -> SUBSET Lock] /\ w \in Actor
  BY DEF KInv, LocksFit, TypeOK, Actor
<1>2. held' = [held EXCEPT ![w] = LocksOf(j)] /\ job' = [job EXCEPT ![w] = j]
  BY <1>1 DEF Goto, Take
<1> QED BY <1>1, <1>2, LocksMove

\* A lock that an actor holds, or could take, is no other's.
LEMMA Excludes ==
  ASSUME KInv, NEW a \in Actor, NEW l, l \in held[a] \/ Free(a, l)
  PROVE  /\ \A w \in Worker \ {a} : l \notin LocksOf(job[w])
         /\ a # Collector /\ sweep.pc = "collect" => l # Blob
<1>1. \A b \in Actor \ {a} : l \notin held[b]
  BY DEF KInv, LocksFit, Free
<1>2. \A w \in Worker : w \in Actor /\ held[w] = LocksOf(job[w])
  BY DEF KInv, LocksFit, Actor
<1>3. Collector \in Actor /\ (sweep.pc = "collect" => held[Collector] = {Blob})
  BY DEF KInv, LocksFit, Actor
<1> QED BY <1>1, <1>2, <1>3

-----------------------------------------------------------------------------
(* Steps that leave the rows and the files alone.                          *)

LEMMA IdleFits == JobFits(Idle)
BY DEF JobFits, Idle

\* A transaction whose rows a step leaves alone keeps what it relies on.
LEMMA OthersFit ==
  ASSUME KInv, clock' \in Nat, clock <= clock', NEW v \in Worker, job'[v] = job[v],
         job[v].pc \in {"assembled", "bind"} =>
            /\ upload'[job[v].up] = upload[job[v].up]
            /\ file \/ sweptLate => file' \/ sweptLate',
         job[v].pc \in {"bind", "damaged"} /\ blob # None => blob' # None,
         job[v].pc = "lifecycle" => ref'[job[v].ref] = ref[job[v].ref]
  PROVE  JobFits(job[v])'
<1>1. JobFits(job[v]) /\ job[v] \in Job
  BY DEF KInv, TypeOK
<1>2. job[v].pc = "lifecycle" => job[v].at <= clock'
  <2>1. clock \in Nat /\ (job[v].pc = "lifecycle" => job[v].at \in Nat)
    BY <1>1, JobType, TimeType, TimeAssumption DEF KInv, TypeOK
  <2> QED BY <1>1, <2>1 DEF JobFits
<1> QED BY <1>1, <1>2 DEF JobFits

LEMMA RowsStay ==
  ASSUME KInv, UNCHANGED <<clock, deleted, ref, blob, file, upload, chunkFile, sweptLate>>,
         sweep'.now <= clock, sweep'.keys \subseteq sweep.keys,
         TypeOK', LocksFit', \A w \in Worker : JobFits(job[w])'
  PROVE  KInv'
<1>1. UploadsFit' /\ UploadKeepsBlob' /\ ChunksStored' /\ AvailableUnlessSwept'
  BY DEF KInv, UploadsFit, UploadKeepsBlob, ChunksStored, AvailableUnlessSwept, Uploads, Expired
<1>2. CountExact'
  BY DEF KInv, CountExact
<1>3. SweepFits'
  BY DEF KInv, SweepFits
<1> QED BY <1>1, <1>2, <1>3 DEF KInv

\* A worker that goes on without a write.
LEMMA QuietJob ==
  ASSUME KInv, UNCHANGED <<clock, rows, file, chunkFile, sweep, sweptLate>>, NEW w \in Worker,
         LocksFit', job' \in [Worker -> Job], held' \in [Actor -> SUBSET Lock],
         JobFits(job[w])', \A v \in Worker \ {w} : job'[v] = job[v]
  PROVE  KInv'
<1>0. UNCHANGED <<clock, deleted, ref, blob, file, upload, chunkFile, sweptLate>> /\ clock \in Nat
  BY DEF rows, KInv, TypeOK
<1>1. TypeOK'
  BY <1>0 DEF KInv, TypeOK
<1>2. \A v \in Worker : JobFits(job[v])'
  BY <1>0, OthersFit
<1>3. sweep'.now <= clock
  BY DEF KInv, SweepFits
<1> QED BY <1>0, <1>1, <1>2, <1>3, RowsStay

LEMMA InitiateKeeps ==
  ASSUME KInv, NEW w \in Worker, NEW k \in Key, NEW r \in Ref, Initiate(w, k, r)
  PROVE  KInv'
<1> DEFINE j == [pc |-> "identify", key |-> k, ref |-> r]
<1>1. j \in Job /\ LocksOf(j) = {} /\ j.pc = "identify"
  BY DEF Job, LocksOf
<1>2. job[w] = Idle /\ Goto(w, j) /\ UNCHANGED <<clock, rows, file, chunkFile, sweep, held, sweptLate>>
  BY DEF Initiate
<1> HIDE DEF j
<1>3. /\ LocksFit' /\ job' \in [Worker -> Job] /\ held' \in [Actor -> SUBSET Lock]
      /\ job'[w] = j /\ \A v \in Worker \ {w} : job'[v] = job[v]
  BY <1>1, <1>2, IdleLocks, GotoLocks
<1>4. JobFits(job[w])'
  BY <1>1, <1>3 DEF JobFits
<1> QED BY <1>2, <1>3, <1>4, QuietJob

LEMMA EndsKeep ==
  ASSUME KInv, NEW w \in Worker, End(w), UNCHANGED <<clock, rows, file, chunkFile, sweep, sweptLate>>
  PROVE  KInv'
<1>1. /\ LocksFit' /\ job' \in [Worker -> Job] /\ held' \in [Actor -> SUBSET Lock]
      /\ job'[w] = Idle /\ \A v \in Worker \ {w} : job'[v] = job[v]
  BY EndLocks
<1>2. JobFits(job[w])'
  BY <1>1, IdleFits DEF JobFits, Idle
<1> QED BY <1>1, <1>2, QuietJob

LEMMA IdentifyKeeps ==
  ASSUME KInv, NEW w \in Worker, Identify(w)
  PROVE  KInv'
<1> DEFINE r == job[w].ref
           j == [job[w] EXCEPT !.pc = "insert"]
<1>1. /\ job[w].pc = "identify" /\ Free(w, RefLock(r))
      /\ End(w) \/ (Goto(w, j) /\ Take(w, {RefLock(r)}))
      /\ UNCHANGED <<clock, rows, file, chunkFile, sweep, sweptLate>>
  BY DEF Identify
<1>2. job[w] \in Job
  BY DEF KInv, TypeOK
<1>3. j \in Job /\ j.pc = "insert" /\ j.ref = r
  BY <1>1, <1>2, JobMoves
<1>4. LocksOf(j) = LocksOf(job[w]) \cup {RefLock(r)}
  BY <1>1, <1>3 DEF LocksOf
<1> HIDE DEF r, j
<1>5. CASE End(w)
  BY <1>1, <1>5, EndsKeep
<1>6. CASE Goto(w, j) /\ Take(w, {RefLock(r)})
  <2>1. /\ LocksFit' /\ job' \in [Worker -> Job] /\ held' \in [Actor -> SUBSET Lock]
        /\ job'[w] = j /\ \A v \in Worker \ {w} : job'[v] = job[v]
    BY <1>1, <1>3, <1>4, <1>6, TakeLocks
  <2>2. JobFits(job[w])'
    BY <1>3, <2>1 DEF JobFits
  <2> QED BY <1>1, <2>1, <2>2, QuietJob
<1> QED BY <1>1, <1>5, <1>6

LEMMA VerifyKeeps ==
  ASSUME KInv, NEW w \in Worker, Verify(w)
  PROVE  KInv'
<1> DEFINE j == [job[w] EXCEPT !.pc = "bind"]
<1>1. /\ job[w].pc = "assembled" /\ Free(w, Blob)
      /\ End(w) \/ (blob # None /\ Goto(w, j) /\ Take(w, {Blob}))
      /\ UNCHANGED <<clock, rows, file, chunkFile, sweep, sweptLate>>
  BY DEF Verify
<1>2. job[w] \in Job
  BY DEF KInv, TypeOK
<1>3. j \in Job /\ j.pc = "bind" /\ j.up = job[w].up
  BY <1>1, <1>2, JobMoves
<1>4. LocksOf(j) = LocksOf(job[w]) \cup {Blob}
  BY <1>1, <1>3 DEF LocksOf
<1> HIDE DEF j
<1>5. CASE End(w)
  BY <1>1, <1>5, EndsKeep
<1>6. CASE blob # None /\ Goto(w, j) /\ Take(w, {Blob})
  <2>1. /\ LocksFit' /\ job' \in [Worker -> Job] /\ held' \in [Actor -> SUBSET Lock]
        /\ job'[w] = j /\ \A v \in Worker \ {w} : job'[v] = job[v]
    BY <1>1, <1>3, <1>4, <1>6, TakeLocks
  <2>2. UNCHANGED <<ref, blob, upload, file, sweptLate>>
    BY <1>1 DEF rows
  <2>3. JobFits(job[w])
    BY DEF KInv
  <2>4. JobFits(job[w])'
    BY <1>1, <1>3, <1>6, <2>1, <2>2, <2>3 DEF JobFits
  <2> QED BY <1>1, <2>1, <2>4, QuietJob
<1> QED BY <1>1, <1>5, <1>6

LEMMA DamagedKeeps ==
  ASSUME KInv, NEW w \in Worker, NEW r \in Ref, Damaged(w, r)
  PROVE  KInv'
<1> DEFINE j == [pc |-> "damaged"]
<1>1. j \in Job /\ LocksOf(j) = {} /\ j.pc = "damaged"
  BY DEF Job, LocksOf
<1>2. /\ job[w] = Idle /\ Goto(w, j) /\ ref[r] # None /\ ref[r].bound
      /\ UNCHANGED <<clock, rows, file, chunkFile, sweep, held, sweptLate>>
  BY DEF Damaged, Granted, Live
<1>3. blob # None /\ blob' = blob
  BY <1>2 DEF KInv, CountExact, rows
<1> HIDE DEF j
<1>4. /\ LocksFit' /\ job' \in [Worker -> Job] /\ held' \in [Actor -> SUBSET Lock]
      /\ job'[w] = j /\ \A v \in Worker \ {w} : job'[v] = job[v]
  BY <1>1, <1>2, IdleLocks, GotoLocks
<1>5. JobFits(job[w])'
  BY <1>1, <1>3, <1>4 DEF JobFits
<1> QED BY <1>2, <1>4, <1>5, QuietJob

-----------------------------------------------------------------------------
(* Initiations.                                                            *)

LEMMA UnusedLeast ==
  ASSUME Unused # {}
  PROVE  (CHOOSE i \in Unused : \A k \in Unused : i <= k) \in Unused
<1>1. Unused \in SUBSET Nat
  BY BoundAssumption DEF Unused, UploadId
<1>2. \E i \in Unused : \A k \in Unused : i <= k
  BY <1>1, HasLeast
<1> QED BY <1>2

\* The blob row after an initiation: quarantined when its file is lost.
LEMMA InitiatedBlob ==
  ASSUME KInv, NEW r \in Ref, NEW new \in RefRow, NEW b \in BlobRow,
         b.count = Cardinality(LiveOf(ref)), NEW shared \in BOOLEAN,
         shared = (b.status = "available" /\ file),
         new.bound => shared \/ (ref[r] # None /\ ref[r].bound),
         ref[r] # None => (ref[r].bound => new.bound) /\ new.tombstone = ref[r].tombstone,
         ref' = [ref EXCEPT ![r] = new],
         blob' = IF b.status = "available" /\ ~ shared THEN [b EXCEPT !.status = "quarantined"]
                 ELSE Counted(b, ref[r], new)
  PROVE  /\ blob' \in BlobRow /\ blob'.count = Cardinality(LiveOf(ref'))
         /\ blob'.status = "available" => shared
<1>0. ref \in [Ref -> RefRow \cup {None}]
  BY DEF KInv, TypeOK
<1>1. CASE b.status = "available" /\ ~ shared
  <2>1. blob' = [b EXCEPT !.status = "quarantined"]
    BY <1>1
  <2>2. blob' \in BlobRow /\ blob'.count = b.count /\ blob'.status = "quarantined"
    BY <2>1 DEF BlobRow
  <2>3. Live(ref[r]) <=> Live(new)
    BY <1>0, <1>1, NoneAssumption DEF Live, RefRow
  <2>4. LiveOf(ref') = LiveOf(ref)
    BY <1>0, <2>3 DEF LiveOf
  <2> QED BY <2>2, <2>4
<1>2. CASE ~ (b.status = "available" /\ ~ shared)
  <2>1. blob' = Counted(b, ref[r], new)
    BY <1>2
  <2>2. /\ Counted(b, ref[r], new) \in BlobRow
        /\ Counted(b, ref[r], new).status = b.status
        /\ Counted(b, ref[r], new).count = Cardinality(LiveOf([ref EXCEPT ![r] = new]))
    BY <1>0, CountedExact
  <2> QED BY <1>2, <2>1, <2>2
<1> QED BY <1>1, <1>2

LEMMA InitiatedKeeps ==
  ASSUME KInv, NEW w \in Worker, job[w].pc \in {"insert", "lock"},
         NEW b \in BlobRow, b = blob \/ (blob = None /\ b = NewBlob),
         Free(w, Blob), Initiated(w, b), End(w),
         UNCHANGED <<clock, deleted, file, chunkFile, sweep, sweptLate>>
  PROVE  KInv'
<1> DEFINE r == job[w].ref
           k == job[w].key
           shared == b.status = "available" /\ file
           new == Rebound(ref[r], shared)
           u == CHOOSE i \in Unused : \A n \in Unused : i <= n
<1>1. CASE OfKey(k) # {}
  <2>1. UNCHANGED rows
    BY <1>1 DEF Initiated, rows
  <2> QED BY <2>1, EndsKeep
<1>2. CASE OfKey(k) = {}
  <2>1. /\ Unused # {}
        /\ ref' = [ref EXCEPT ![r] = new]
        /\ blob' = IF b.status = "available" /\ ~shared
                   THEN [b EXCEPT !.status = "quarantined"]
                   ELSE Counted(b, ref[r], new)
        /\ upload' = [upload EXCEPT ![u] = NewUpload(k, r, shared)]
    BY <1>2 DEF Initiated
  <2>2. job[w] \in Job /\ ref \in [Ref -> RefRow \cup {None}] /\ upload \in [UploadId -> UploadRow \cup {None}]
    BY DEF KInv, TypeOK
  <2>3. r \in Ref /\ k \in Key /\ LocksOf(job[w]) = {RefLock(r)}
    BY <2>2, JobType DEF LocksOf
  <2>4. shared \in BOOLEAN
    OBVIOUS
  <2>5. /\ new \in RefRow /\ new # None
        /\ ref[r] # None => (ref[r].bound => new.bound) /\ new.tombstone = ref[r].tombstone
        /\ new.bound => shared \/ (ref[r] # None /\ ref[r].bound)
    <3>1. ref[r] \in RefRow \cup {None}
      BY <2>2, <2>3
    <3>2. new \in RefRow /\ (ref[r] # None => (ref[r].bound => new.bound) /\ new.tombstone = ref[r].tombstone)
      BY <2>4, <3>1, ReboundType
    <3>3. new.bound => shared \/ (ref[r] # None /\ ref[r].bound)
      <4>1. CASE ref[r] = None
        BY <4>1 DEF Rebound, NewRef
      <4>2. CASE ref[r] # None
        BY <3>1, <4>2 DEF Rebound, RefRow
      <4> QED BY <4>1, <4>2
    <3> QED BY <3>2, <3>3, NoneAssumption
  <2>6. u \in Unused /\ u \in UploadId
    BY <2>1, UnusedLeast DEF Unused
  <2>7. /\ NewUpload(k, r, shared) \in UploadRow /\ NewUpload(k, r, shared).ref = r
        /\ NewUpload(k, r, shared).chunks = {}
    BY <2>3, <2>4, NewTypes
  <2>8. b.count = Cardinality(LiveOf(ref))
    <3>1. CASE b = blob /\ blob # None
      BY <3>1 DEF KInv, CountExact, LiveOf
    <3>2. CASE blob = None /\ b = NewBlob
      <4>1. LiveOf(ref) = {}
        BY <3>2 DEF KInv, CountExact, LiveOf, Live
      <4> QED BY <3>2, <4>1, NewTypes, FS_EmptySet
    <3> QED BY <3>1, <3>2, NoneAssumption
  <2> DEFINE row == NewUpload(k, r, shared)
  <2> HIDE DEF r, k, new, u, row
  <2>9. /\ blob' \in BlobRow /\ blob'.count = Cardinality(LiveOf(ref'))
        /\ blob'.status = "available" => shared
    BY <2>1, <2>3, <2>4, <2>5, <2>8, InitiatedBlob
  <2>10. blob' # None
    BY <2>9, NoneAssumption
  <2>11. upload' = [upload EXCEPT ![u] = row] /\ row \in UploadRow /\ row.ref = r /\ row.chunks = {}
    BY <2>1, <2>7 DEF row
  <2>12. upload' \in [UploadId -> UploadRow \cup {None}] /\ ref' \in [Ref -> RefRow \cup {None}]
    BY <2>1, <2>2, <2>3, <2>5, <2>6, <2>11
  <2>13. /\ LocksFit' /\ job' \in [Worker -> Job] /\ held' \in [Actor -> SUBSET Lock]
         /\ job'[w] = Idle /\ \A v \in Worker \ {w} : job'[v] = job[v]
    BY EndLocks
  <2>14. TypeOK'
    BY <2>9, <2>12, <2>13 DEF KInv, TypeOK
  <2>15. ASSUME NEW v \in Worker
         PROVE  JobFits(job[v])'
    <3>1. CASE v = w
      BY <2>13, <3>1 DEF JobFits, Idle
    <3>2. CASE v # w
      <4>1. job[v] \in Job /\ JobFits(job[v]) /\ w \in Actor /\ held[w] = LocksOf(job[w])
        BY DEF KInv, TypeOK, LocksFit, Actor
      <4>2. job[v].pc \in {"assembled", "bind"} => upload'[job[v].up] = upload[job[v].up]
        <5> HAVE job[v].pc \in {"assembled", "bind"}
        <5>1. job[v].up \in UploadId /\ upload[job[v].up] # None
          BY <4>1, JobType DEF JobFits
        <5>2. upload[u] = None
          BY <2>6 DEF Unused
        <5> QED BY <2>2, <2>6, <2>11, <5>1, <5>2
      <4>3. job[v].pc = "lifecycle" => ref'[job[v].ref] = ref[job[v].ref]
        <5> HAVE job[v].pc = "lifecycle"
        <5>1. RefLock(r) \notin LocksOf(job[v])
          BY <2>3, <3>2, <4>1, Excludes
        <5>2. job[v].ref \in Ref /\ job[v].ref # r
          BY <4>1, <5>1, JobType DEF LocksOf
        <5> QED BY <2>1, <2>2, <5>2
      <4>4. clock' \in Nat /\ clock <= clock' /\ file' = file /\ sweptLate' = sweptLate
        BY DEF KInv, TypeOK
      <4> QED BY <2>10, <2>13, <3>2, <4>2, <4>3, <4>4, OthersFit
    <3> QED BY <3>1, <3>2
  <2>16. UploadsFit' /\ ChunksStored' /\ UploadKeepsBlob'
    <3>1. \A x \in Ref : ref[x] # None => ref'[x] # None
      BY <2>1, <2>2, <2>3, <2>5
    <3>2. ref'[r] # None
      BY <2>1, <2>2, <2>3, <2>5
    <3>3. \A x \in UploadId : x # u => upload'[x] = upload[x]
      BY <2>2, <2>6, <2>11
    <3>4. upload'[u] = row
      BY <2>2, <2>6, <2>11
    <3>5. \A x \in UploadId : upload[x] # None => upload[x].ref \in Ref
      BY <2>2 DEF UploadRow
    <3>6. UploadsFit'
      BY <2>11, <3>1, <3>2, <3>3, <3>4, <3>5 DEF KInv, UploadsFit, Uploads
    <3>7. ChunksStored'
      <4> SUFFICES ASSUME NEW x \in UploadId, upload'[x] # None, upload'[x].status # "completed"
                   PROVE  ({x} \X upload'[x].chunks) \subseteq chunkFile'
        BY DEF ChunksStored, Uploads
      <4>1. CASE x = u
        BY <2>11, <3>4, <4>1
      <4>2. CASE x # u
        BY <3>3, <4>2 DEF KInv, ChunksStored, Uploads
      <4> QED BY <4>1, <4>2
    <3> QED BY <2>10, <3>6, <3>7 DEF UploadKeepsBlob
  <2>17. SweepFits'
    <3>1. \A o \in 1 .. NChunk : <<u, o>> \notin sweep.keys
      <4> TAKE o \in 1 .. NChunk
      <4>1. <<u, o>> \notin chunkFile /\ <<u, o>> # Blob
        BY <2>6 DEF Unused, Blob
      <4>2. sweep.keys \subseteq {Blob} \cup chunkFile
        BY DEF KInv, TypeOK
      <4> QED BY <4>1, <4>2
    <3> QED BY <2>2, <2>6, <2>11, <3>1 DEF KInv, SweepFits
  <2>18. CountExact'
    BY <2>9, <2>10 DEF CountExact, LiveOf
  <2>19. AvailableUnlessSwept'
    BY <2>9 DEF AvailableUnlessSwept
  <2> QED BY <2>14, <2>13, <2>15, <2>16, <2>17, <2>18, <2>19 DEF KInv
<1> QED BY <1>1, <1>2

LEMMA InsertBlobKeeps ==
  ASSUME KInv, NEW w \in Worker, InsertBlob(w)
  PROVE  KInv'
<1>1. job[w].pc = "insert" /\ UNCHANGED <<clock, deleted, file, chunkFile, sweep, sweptLate>>
  BY DEF InsertBlob
<1>2. CASE blob = None
  <2>1. Free(w, Blob) /\ Initiated(w, NewBlob) /\ End(w)
    BY <1>2 DEF InsertBlob
  <2> QED BY <1>1, <1>2, <2>1, NewTypes, InitiatedKeeps
<1>3. CASE blob # None
  <2> DEFINE j == [job[w] EXCEPT !.pc = "lock"]
  <2>1. Goto(w, j) /\ UNCHANGED <<held, sweep>> /\ UNCHANGED <<clock, rows, file, chunkFile, sweep, sweptLate>>
    BY <1>1, <1>3 DEF InsertBlob, rows
  <2>2. job[w] \in Job
    BY DEF KInv, TypeOK
  <2>3. j \in Job /\ j.pc = "lock" /\ j.ref = job[w].ref
    BY <1>1, <2>2, JobMoves
  <2>4. LocksOf(j) = LocksOf(job[w])
    BY <1>1, <2>3 DEF LocksOf
  <2> HIDE DEF j
  <2>5. /\ LocksFit' /\ job' \in [Worker -> Job] /\ held' \in [Actor -> SUBSET Lock]
        /\ job'[w] = j /\ \A v \in Worker \ {w} : job'[v] = job[v]
    BY <2>1, <2>3, <2>4, GotoLocks
  <2>6. JobFits(job[w])'
    BY <2>3, <2>5 DEF JobFits
  <2> QED BY <2>1, <2>5, <2>6, QuietJob
<1> QED BY <1>2, <1>3

LEMMA LockBlobKeeps ==
  ASSUME KInv, NEW w \in Worker, LockBlob(w)
  PROVE  KInv'
<1>1. /\ job[w].pc = "lock" /\ Free(w, Blob) /\ End(w)
      /\ UNCHANGED <<clock, deleted, file, chunkFile, sweep, sweptLate>>
  BY DEF LockBlob
<1>2. CASE blob = None
  <2>1. UNCHANGED rows
    BY <1>1, <1>2 DEF LockBlob, rows
  <2> QED BY <1>1, <2>1, EndsKeep
<1>3. CASE blob # None
  <2>1. Initiated(w, blob) /\ blob \in BlobRow
    BY <1>3 DEF LockBlob, KInv, TypeOK
  <2> QED BY <1>1, <2>1, InitiatedKeeps
<1> QED BY <1>2, <1>3

-----------------------------------------------------------------------------
(* Chunks and completions.                                                 *)

LEMMA ChunkKeeps ==
  ASSUME KInv, NEW w \in Worker, NEW u \in UploadId, NEW o \in 1 .. NChunk, Chunk(w, u, o)
  PROVE  KInv'
<1>1. /\ job[w] = Idle /\ u \in Uploads /\ Free(w, UploadLock(u))
      /\ upload[u].status # "completed" /\ ~ Expired(u, clock)
      /\ chunkFile' = chunkFile \cup {<<u, o>>}
      /\ \/ upload' = [upload EXCEPT ![u].chunks = @ \cup {o}, ![u].status = "uploading"]
         \/ upload' = upload
      /\ UNCHANGED <<clock, deleted, ref, blob, file, job, sweep, held, sweptLate>>
  BY DEF Chunk, WriteChunk
<1> DEFINE row == [upload[u] EXCEPT !.chunks = @ \cup {o}, !.status = "uploading"]
<1>2. upload \in [UploadId -> UploadRow \cup {None}] /\ upload[u] \in UploadRow
  BY <1>1 DEF KInv, TypeOK, Uploads
<1>3. /\ row \in UploadRow /\ row.ref = upload[u].ref /\ row.chunks = upload[u].chunks \cup {o}
      /\ row.status # "completed" /\ row.expires = upload[u].expires
  BY <1>2 DEF UploadRow
<1>4. row # None
  BY <1>3, NoneAssumption
<1>5. upload' = [upload EXCEPT ![u] = row] \/ upload' = upload
  BY <1>1, <1>2
<1> HIDE DEF row
<1>6. /\ upload' \in [UploadId -> UploadRow \cup {None}]
      /\ \A x \in UploadId \ {u} : upload'[x] = upload[x]
      /\ upload'[u] = row \/ upload'[u] = upload[u]
  BY <1>2, <1>3, <1>5
<1>7. TypeOK'
  BY <1>1, <1>6 DEF KInv, TypeOK
<1>8. LocksFit'
  BY <1>1 DEF KInv, LocksFit
<1>9. ASSUME NEW v \in Worker
      PROVE  JobFits(job[v])'
  <2>1. job[v] \in Job /\ w \in Actor /\ LocksOf(job[w]) = {}
    BY <1>1, IdleLocks DEF KInv, TypeOK, Actor
  <2>2. job[v].pc \in {"assembled", "bind"} => upload'[job[v].up] = upload[job[v].up]
    <3> HAVE job[v].pc \in {"assembled", "bind"}
    <3>1. UploadLock(u) \notin LocksOf(job[v])
      BY <1>1, <2>1, Excludes
    <3>2. job[v].up \in UploadId /\ job[v].up # u
      BY <2>1, <3>1, JobType DEF LocksOf
    <3> QED BY <1>6, <3>2
  <2>3. clock' \in Nat /\ clock <= clock'
    BY <1>1 DEF KInv, TypeOK
  <2> QED BY <1>1, <2>2, <2>3, OthersFit
<1>10. UploadsFit' /\ UploadKeepsBlob'
  <2>1. \A x \in UploadId : upload'[x] # None => upload[x] # None /\ upload'[x].ref = upload[x].ref
    BY <1>1, <1>3, <1>6 DEF Uploads
  <2>2. UploadsFit'
    BY <1>1, <2>1 DEF KInv, UploadsFit, Uploads
  <2>3. blob # None
    BY <1>1 DEF KInv, UploadKeepsBlob
  <2> QED BY <1>1, <2>2, <2>3 DEF UploadKeepsBlob
<1>11. ChunksStored'
  <2> SUFFICES ASSUME NEW x \in UploadId, upload'[x] # None, upload'[x].status # "completed"
               PROVE  ({x} \X upload'[x].chunks) \subseteq chunkFile'
    BY DEF ChunksStored, Uploads
  <2>1. upload[x] # None /\ upload[x].status # "completed" =>
           ({x} \X upload[x].chunks) \subseteq chunkFile'
    BY <1>1 DEF KInv, ChunksStored, Uploads
  <2>2. upload[u] # None /\ upload[u].status # "completed"
    BY <1>1 DEF Uploads
  <2>3. CASE x = u
    BY <1>1, <1>3, <1>6, <2>1, <2>2, <2>3
  <2>4. CASE x # u
    BY <1>6, <2>1, <2>4
  <2> QED BY <2>3, <2>4
<1>12. SweepFits'
  <2>1. \A x \in UploadId : upload[x] = None => upload'[x] = None
    BY <1>1, <1>6 DEF Uploads
  <2> QED BY <1>1, <2>1 DEF KInv, SweepFits
<1>13. CountExact' /\ AvailableUnlessSwept'
  BY <1>1 DEF KInv, CountExact, AvailableUnlessSwept
<1> QED BY <1>7, <1>8, <1>9, <1>10, <1>11, <1>12, <1>13 DEF KInv

LEMMA AssembleKeeps ==
  ASSUME KInv, NEW w \in Worker, NEW u \in UploadId, Assemble(w, u)
  PROVE  KInv'
<1> DEFINE j == [pc |-> "assembled", up |-> u]
<1>1. /\ job[w] = Idle /\ upload[u] # None /\ upload[u].status # "completed" /\ Free(w, UploadLock(u))
      /\ file' = TRUE /\ Goto(w, j) /\ Take(w, {UploadLock(u)})
      /\ UNCHANGED <<clock, deleted, ref, blob, upload, chunkFile, sweep, sweptLate>>
  BY DEF Assemble, Uploads, rows
<1>2. j \in Job /\ j.pc = "assembled" /\ j.up = u
  BY DEF Job
<1>3. LocksOf(j) = LocksOf(job[w]) \cup {UploadLock(u)}
  BY <1>1, IdleLocks DEF LocksOf
<1> HIDE DEF j
<1>4. /\ LocksFit' /\ job' \in [Worker -> Job] /\ held' \in [Actor -> SUBSET Lock]
      /\ job'[w] = j /\ \A v \in Worker \ {w} : job'[v] = job[v]
  BY <1>1, <1>2, <1>3, TakeLocks
<1>5. TypeOK'
  BY <1>1, <1>4 DEF KInv, TypeOK
<1>6. clock' \in Nat /\ clock <= clock'
  BY <1>1 DEF KInv, TypeOK
<1>7. \A v \in Worker : JobFits(job[v])'
  <2> TAKE v \in Worker
  <2>1. CASE v = w
    BY <1>1, <1>2, <1>4, <2>1 DEF JobFits
  <2>2. CASE v # w
    BY <1>1, <1>4, <1>6, <2>2, OthersFit
  <2> QED BY <2>1, <2>2
<1>8. UploadsFit' /\ UploadKeepsBlob' /\ ChunksStored' /\ AvailableUnlessSwept'
  BY <1>1 DEF KInv, UploadsFit, UploadKeepsBlob, ChunksStored, AvailableUnlessSwept, Uploads, Expired
<1>9. SweepFits' /\ CountExact'
  BY <1>1 DEF KInv, SweepFits, CountExact
<1> QED BY <1>4, <1>5, <1>7, <1>8, <1>9 DEF KInv

\* The rest of a step that ends a transaction: what the others rely on.
LEMMA EndFits ==
  ASSUME KInv, NEW w \in Worker, End(w), NEW U \in SUBSET UploadId, NEW R \in SUBSET Ref,
         UNCHANGED <<clock, file, sweep, sweptLate>>, blob # None => blob' # None,
         \A u \in UploadId \ U : upload'[u] = upload[u],
         \A r \in Ref \ R : ref'[r] = ref[r],
         \A u \in U : UploadLock(u) \in held[w] \/ Free(w, UploadLock(u)),
         \A r \in R : RefLock(r) \in held[w] \/ Free(w, RefLock(r))
  PROVE  \A v \in Worker : JobFits(job[v])'
<1> TAKE v \in Worker
<1>1. job'[w] = Idle /\ \A x \in Worker \ {w} : job'[x] = job[x]
  BY EndLocks
<1>2. CASE v = w
  BY <1>1, <1>2 DEF JobFits, Idle
<1>3. CASE v # w
  <2>1. job[v] \in Job /\ w \in Actor
    BY DEF KInv, TypeOK, Actor
  <2>2. job[v].pc \in {"assembled", "bind"} => upload'[job[v].up] = upload[job[v].up]
    <3> HAVE job[v].pc \in {"assembled", "bind"}
    <3>1. job[v].up \in UploadId /\ UploadLock(job[v].up) \in LocksOf(job[v])
      BY <2>1, JobType DEF LocksOf
    <3>2. job[v].up \notin U
      BY <1>3, <2>1, <3>1, Excludes
    <3> QED BY <3>1, <3>2
  <2>3. job[v].pc = "lifecycle" => ref'[job[v].ref] = ref[job[v].ref]
    <3> HAVE job[v].pc = "lifecycle"
    <3>1. job[v].ref \in Ref /\ RefLock(job[v].ref) \in LocksOf(job[v])
      BY <2>1, JobType DEF LocksOf
    <3>2. job[v].ref \notin R
      BY <1>3, <2>1, <3>1, Excludes
    <3> QED BY <3>1, <3>2
  <2>4. clock' \in Nat /\ clock <= clock' /\ file' = file /\ sweptLate' = sweptLate
    BY DEF KInv, TypeOK
  <2> QED BY <1>1, <1>3, <2>2, <2>3, <2>4, OthersFit
<1> QED BY <1>2, <1>3

\* What a worker relies on, spelled out.
LEMMA OwnFits ==
  ASSUME KInv, NEW w \in Worker
  PROVE  /\ job[w] \in Job /\ w \in Actor /\ held[w] = LocksOf(job[w])
         /\ job[w].pc \in {"assembled", "bind"} =>
              /\ job[w].up \in UploadId /\ upload[job[w].up] \in UploadRow
              /\ upload[job[w].up].status # "completed" /\ (file \/ sweptLate)
              /\ UploadLock(job[w].up) \in held[w]
         /\ job[w].pc \in {"bind", "damaged"} => blob \in BlobRow
         /\ job[w].pc = "lifecycle" =>
              /\ job[w].ref \in Ref /\ ref[job[w].ref] \in RefRow /\ ref[job[w].ref].bound
              /\ job[w].at \in 0 .. MaxTime /\ RefLock(job[w].ref) \in held[w]
              /\ blob \in BlobRow
<1>1. job[w] \in Job /\ JobFits(job[w]) /\ w \in Actor /\ held[w] = LocksOf(job[w])
  BY DEF KInv, TypeOK, LocksFit, Actor
<1>2. blob \in BlobRow \cup {None} /\ ref \in [Ref -> RefRow \cup {None}]
      /\ upload \in [UploadId -> UploadRow \cup {None}] /\ clock \in 0 .. MaxTime
  BY DEF KInv, TypeOK
<1>3. ASSUME job[w].pc \in {"assembled", "bind"}
      PROVE  /\ job[w].up \in UploadId /\ upload[job[w].up] \in UploadRow
             /\ upload[job[w].up].status # "completed" /\ (file \/ sweptLate)
             /\ UploadLock(job[w].up) \in held[w]
  BY <1>1, <1>2, <1>3, JobType DEF JobFits, LocksOf
<1>4. job[w].pc \in {"bind", "damaged"} => blob \in BlobRow
  BY <1>1, <1>2 DEF JobFits
<1>5. ASSUME job[w].pc = "lifecycle"
      PROVE  /\ job[w].ref \in Ref /\ ref[job[w].ref] \in RefRow /\ ref[job[w].ref].bound
             /\ job[w].at \in 0 .. MaxTime /\ RefLock(job[w].ref) \in held[w]
             /\ blob \in BlobRow
  <2>1. job[w].ref \in Ref /\ job[w].at \in Time /\ RefLock(job[w].ref) \in held[w]
    BY <1>1, <1>5, JobType DEF LocksOf
  <2>2. ref[job[w].ref] # None /\ ref[job[w].ref].bound /\ job[w].at <= clock
    BY <1>1, <1>5 DEF JobFits
  <2>3. job[w].at \in 0 .. MaxTime
    <3>1. job[w].at \in Nat
      BY <2>1, TimeType
    <3> QED BY <1>2, <2>2, <3>1, TimeAssumption
  <2>4. blob # None
    BY <2>1, <2>2 DEF KInv, CountExact
  <2> QED BY <1>2, <2>1, <2>2, <2>3, <2>4
<1> QED BY <1>1, <1>3, <1>4, <1>5

LEMMA BlobExact ==
  ASSUME KInv, blob # None
  PROVE  blob \in BlobRow /\ blob.count = Cardinality(LiveOf(ref))
BY DEF KInv, TypeOK, CountExact, LiveOf

\* The trigger on a write of one reference.
LEMMA CountedWrite ==
  ASSUME KInv
  PROVE  \A r \in Ref, new \in RefRow, b \in BlobRow :
           b.count = Cardinality(LiveOf(ref)) =>
             /\ Counted(b, ref[r], new) \in BlobRow
             /\ Counted(b, ref[r], new).status = b.status
             /\ Counted(b, ref[r], new).count = Cardinality(LiveOf([ref EXCEPT ![r] = new]))
<1>1. ref \in [Ref -> RefRow \cup {None}]
  BY DEF KInv, TypeOK
<1> QED BY <1>1, CountedExact

LEMMA BindKeeps ==
  ASSUME KInv, NEW w \in Worker, Bind(w)
  PROVE  KInv'
<1> DEFINE u == job[w].up
           r == upload[u].ref
           new == [ref[r] EXCEPT !.bound = TRUE]
           b == [blob EXCEPT !.status = "available"]
           row == [upload[u] EXCEPT !.status = "completed"]
<1>1. /\ job[w].pc = "bind" /\ Free(w, RefLock(r)) /\ End(w)
      /\ ref' = [ref EXCEPT ![r] = new] /\ blob' = Counted(b, ref[r], new)
      /\ upload' = [upload EXCEPT ![u].status = "completed"]
      /\ UNCHANGED <<clock, deleted, file, chunkFile, sweep, sweptLate>>
  BY DEF Bind
<1> HIDE DEF u, r, new, b, row
<1>2. /\ u \in UploadId /\ upload[u] \in UploadRow /\ (file \/ sweptLate)
      /\ UploadLock(u) \in held[w] /\ blob \in BlobRow
  BY <1>1, OwnFits DEF u
<1>3. ref \in [Ref -> RefRow \cup {None}] /\ upload \in [UploadId -> UploadRow \cup {None}]
  BY DEF KInv, TypeOK
<1>4. r \in Ref /\ upload[u] # None
  <2>1. upload[u].ref \in Ref
    BY <1>2 DEF UploadRow
  <2>2. upload[u] # None
    BY <1>2, NoneAssumption
  <2> QED BY <2>1, <2>2 DEF r
<1>5. ref[r] # None /\ ref[r] \in RefRow
  <2>1. ref[upload[u].ref] # None
    BY <1>2, <1>4 DEF KInv, UploadsFit, Uploads
  <2> QED BY <1>3, <1>4, <2>1 DEF r
<1>6. new \in RefRow
  BY <1>5 DEF new, RefRow
<1>7. b \in BlobRow /\ b.status = "available" /\ b.count = Cardinality(LiveOf(ref))
  <2>1. blob # None
    BY <1>2, NoneAssumption
  <2> QED BY <2>1, BlobExact DEF b, BlobRow
<1>8. row \in UploadRow /\ row.status = "completed" /\ row.ref = r
  <2>1. upload[u] \in UploadRow
    BY <1>2
  <2> QED BY <2>1 DEF row, r, UploadRow
<1>9. upload' = [upload EXCEPT ![u] = row]
  BY <1>1, <1>3 DEF row
<1>10. /\ Counted(b, ref[r], new) \in BlobRow
       /\ Counted(b, ref[r], new).count = Cardinality(LiveOf([ref EXCEPT ![r] = new]))
  BY <1>4, <1>6, <1>7, CountedWrite
<1>11. blob' \in BlobRow /\ blob'.count = Cardinality(LiveOf(ref')) /\ blob' # None
  BY <1>1, <1>10, NoneAssumption
<1>12. /\ upload' \in [UploadId -> UploadRow \cup {None}] /\ ref' \in [Ref -> RefRow \cup {None}]
       /\ \A x \in UploadId \ {u} : upload'[x] = upload[x]
       /\ \A x \in Ref \ {r} : ref'[x] = ref[x]
       /\ upload'[u] = row /\ ref'[r] = new /\ new # None
  <2>1. row # None /\ new # None
    BY <1>6, <1>8, NoneAssumption
  <2> QED BY <1>1, <1>2, <1>3, <1>4, <1>6, <1>8, <1>9, <2>1
<1>13. LocksFit' /\ job' \in [Worker -> Job] /\ held' \in [Actor -> SUBSET Lock]
  BY <1>1, EndLocks
<1>14. TypeOK'
  BY <1>1, <1>11, <1>12, <1>13 DEF KInv, TypeOK
<1>15. \A v \in Worker : JobFits(job[v])'
  <2>1. {u} \in SUBSET UploadId /\ {r} \in SUBSET Ref
    BY <1>2, <1>4
  <2>2. /\ UNCHANGED <<clock, file, sweep, sweptLate>> /\ End(w)
        /\ blob # None => blob' # None
    BY <1>1, <1>11
  <2>3. /\ \A x \in {u} : UploadLock(x) \in held[w] \/ Free(w, UploadLock(x))
        /\ \A x \in {r} : RefLock(x) \in held[w] \/ Free(w, RefLock(x))
    BY <1>1, <1>2
  <2> QED BY <1>12, <2>1, <2>2, <2>3, EndFits
<1>16. UploadsFit'
  <2>1. \A x \in UploadId : upload[x] # None => upload[x].ref \in Ref
    BY <1>3 DEF UploadRow
  <2>2. \A x \in Ref : ref[x] # None => ref'[x] # None
    BY <1>12
  <2>3. \A x \in UploadId : x # u /\ upload'[x] # None => ref'[upload'[x].ref] # None
    BY <1>12, <2>1, <2>2 DEF KInv, UploadsFit, Uploads
  <2> QED BY <1>8, <1>12, <2>3 DEF UploadsFit, Uploads
<1>17. ChunksStored'
  <2>1. \A x \in UploadId : x # u /\ upload'[x] # None /\ upload'[x].status # "completed" =>
           ({x} \X upload'[x].chunks) \subseteq chunkFile'
    BY <1>1, <1>12 DEF KInv, ChunksStored, Uploads
  <2> QED BY <1>8, <1>12, <2>1 DEF ChunksStored, Uploads
<1>18. SweepFits'
  <2>1. \A x \in UploadId : upload[x] = None => upload'[x] = None
    BY <1>2, <1>12, NoneAssumption
  <2> QED BY <1>1, <2>1 DEF KInv, SweepFits
<1>19. UploadKeepsBlob' /\ CountExact' /\ AvailableUnlessSwept'
  BY <1>1, <1>2, <1>11 DEF UploadKeepsBlob, CountExact, AvailableUnlessSwept, LiveOf
<1> QED BY <1>13, <1>14, <1>15, <1>16, <1>17, <1>18, <1>19 DEF KInv

-----------------------------------------------------------------------------
(* Deletions, restorations and quarantines.                                *)

\* A write of one reference that leaves its binding as it was.
LEMMA ReferenceWrite ==
  ASSUME KInv, NEW r \in Ref, NEW new \in RefRow, ref[r] \in RefRow, new.bound = ref[r].bound,
         ref' = [ref EXCEPT ![r] = new],
         UNCHANGED <<clock, upload, chunkFile, sweep>>, blob # None => blob' # None
  PROVE  /\ ref' \in [Ref -> RefRow \cup {None}]
         /\ \A x \in Ref \ {r} : ref'[x] = ref[x]
         /\ UploadsFit' /\ UploadKeepsBlob' /\ ChunksStored' /\ SweepFits'
<1>1. ref \in [Ref -> RefRow \cup {None}] /\ upload \in [UploadId -> UploadRow \cup {None}]
  BY DEF KInv, TypeOK
<1>2. new # None
  BY NoneAssumption
<1>3. /\ ref' \in [Ref -> RefRow \cup {None}] /\ ref'[r] = new
      /\ \A x \in Ref \ {r} : ref'[x] = ref[x]
  BY <1>1
<1>4. \A x \in Ref : ref[x] # None => ref'[x] # None
  BY <1>2, <1>3
<1>5. \A x \in UploadId : upload[x] # None => upload[x].ref \in Ref
  BY <1>1 DEF UploadRow
<1>6. UploadsFit'
  BY <1>4, <1>5 DEF KInv, UploadsFit, Uploads
<1>7. UploadKeepsBlob' /\ ChunksStored'
  BY DEF KInv, UploadKeepsBlob, ChunksStored, Uploads, Expired
<1>8. SweepFits'
  BY DEF KInv, SweepFits
<1> QED BY <1>3, <1>6, <1>7, <1>8

LEMMA LifecycleKeeps ==
  ASSUME KInv, NEW w \in Worker, NEW r \in Ref, NEW kind \in {"delete", "restore"}, Lifecycle(w, r, kind)
  PROVE  KInv'
<1>1. /\ job[w] = Idle /\ Free(w, RefLock(r))
      /\ UNCHANGED <<clock, blob, file, upload, chunkFile, sweep, sweptLate>>
  BY DEF Lifecycle
<1>2. clock \in 0 .. MaxTime /\ ref \in [Ref -> RefRow \cup {None}] /\ deleted \subseteq Ref
  BY DEF KInv, TypeOK
<1>3. CASE ref[r] # None /\ ref[r].bound /\ Marked(ref[r], kind, clock) # ref[r]
  <2> DEFINE j == [pc |-> "lifecycle", ref |-> r, kind |-> kind, at |-> clock]
  <2>1. Goto(w, j) /\ Take(w, {RefLock(r)}) /\ UNCHANGED <<deleted, ref>>
    BY <1>3 DEF Lifecycle
  <2>2. clock \in Time
    BY <1>2, TimeType
  <2>3. j \in Job /\ j.pc = "lifecycle" /\ j.ref = r /\ j.at = clock
    BY <2>2 DEF Job
  <2>4. LocksOf(j) = LocksOf(job[w]) \cup {RefLock(r)}
    BY <1>1, <2>3, IdleLocks DEF LocksOf
  <2> HIDE DEF j
  <2>5. /\ LocksFit' /\ job' \in [Worker -> Job] /\ held' \in [Actor -> SUBSET Lock]
        /\ job'[w] = j /\ \A v \in Worker \ {w} : job'[v] = job[v]
    BY <1>1, <2>1, <2>3, <2>4, TakeLocks
  <2>6. JobFits(job[w])'
    BY <1>1, <1>2, <1>3, <2>1, <2>3, <2>5 DEF JobFits
  <2>7. UNCHANGED <<clock, rows, file, chunkFile, sweep, sweptLate>>
    BY <1>1, <2>1 DEF rows
  <2> QED BY <2>5, <2>6, <2>7, QuietJob
<1>4. CASE ~ (ref[r] # None /\ ref[r].bound /\ Marked(ref[r], kind, clock) # ref[r])
  <2> DEFINE new == Marked(ref[r], kind, clock)
  <2>1. /\ deleted' \subseteq Ref /\ UNCHANGED <<job, held>>
        /\ ref' = IF ref[r] = None THEN ref ELSE [ref EXCEPT ![r] = new]
    BY <1>2, <1>4 DEF Lifecycle, Toggle
  <2>2. ref[r] # None => ref[r] \in RefRow /\ new \in RefRow /\ new.bound = ref[r].bound
    BY <1>2, MarkedType
  <2>3. ref[r] # None /\ ref[r].bound => new = ref[r]
    BY <1>4
  <2> HIDE DEF new
  <2>4. /\ ref' \in [Ref -> RefRow \cup {None}]
        /\ \A x \in Ref \ {r} : ref'[x] = ref[x]
        /\ UploadsFit' /\ UploadKeepsBlob' /\ ChunksStored' /\ SweepFits'
    <3>1. CASE ref[r] = None
      BY <1>1, <1>2, <2>1, <3>1
         DEF KInv, UploadsFit, UploadKeepsBlob, ChunksStored, SweepFits, Uploads, Expired
    <3>2. CASE ref[r] # None
      <4>1. /\ ref[r] \in RefRow /\ new \in RefRow /\ new.bound = ref[r].bound
            /\ ref' = [ref EXCEPT ![r] = new]
            /\ UNCHANGED <<clock, upload, chunkFile, sweep>> /\ (blob # None => blob' # None)
        BY <1>1, <2>1, <2>2, <3>2
      <4> QED BY <4>1, ReferenceWrite
    <3> QED BY <3>1, <3>2
  <2>5. /\ ref[r] = None => ref'[r] = None
        /\ ref[r] # None => /\ ref'[r] \in RefRow /\ ref'[r].bound = ref[r].bound
                            /\ ref[r].bound => ref'[r] = ref[r]
    BY <1>2, <2>1, <2>2, <2>3
  <2>6. Live(ref'[r]) <=> Live(ref[r])
    BY <2>5, NoneAssumption DEF Live
  <2>7. \A x \in Ref : Live(ref'[x]) <=> Live(ref[x])
    BY <2>4, <2>6
  <2>8. LiveOf(ref') = LiveOf(ref)
    BY <2>7 DEF LiveOf
  <2>9. CountExact'
    <3>1. blob' # None => blob'.count = Cardinality(LiveOf(ref'))
      BY <1>1, <2>8 DEF KInv, CountExact, LiveOf
    <3>2. \A x \in Ref : ref'[x] # None /\ ref'[x].bound => ref[x] # None /\ ref[x].bound
      BY <2>4, <2>5
    <3>3. blob' = None => \A x \in Ref : ref'[x] # None => ~ ref'[x].bound
      BY <1>1, <3>2 DEF KInv, CountExact
    <3> QED BY <3>1, <3>3 DEF CountExact, LiveOf
  <2>10. TypeOK'
    BY <1>1, <2>1, <2>4 DEF KInv, TypeOK
  <2>11. LocksFit' /\ AvailableUnlessSwept'
    BY <1>1, <2>1 DEF KInv, LocksFit, AvailableUnlessSwept
  <2>12. ASSUME NEW v \in Worker
         PROVE  JobFits(job[v])'
    <3>1. job[v] \in Job /\ w \in Actor /\ LocksOf(job[w]) = {}
      BY <1>1, IdleLocks DEF KInv, TypeOK, Actor
    <3>2. RefLock(r) \notin LocksOf(job[v])
      BY <1>1, <3>1, Excludes
    <3>3. job[v].pc = "lifecycle" => job[v].ref \in Ref /\ job[v].ref # r
      BY <3>1, <3>2, JobType DEF LocksOf
    <3>4. clock' \in Nat /\ clock <= clock'
      BY <1>1 DEF KInv, TypeOK
    <3> QED BY <1>1, <2>1, <2>4, <3>3, <3>4, OthersFit
  <2> QED BY <2>4, <2>9, <2>10, <2>11, <2>12 DEF KInv
<1> QED BY <1>3, <1>4

LEMMA LifecycleCountKeeps ==
  ASSUME KInv, NEW w \in Worker, LifecycleCount(w)
  PROVE  KInv'
<1> DEFINE r == job[w].ref
           new == Marked(ref[r], job[w].kind, job[w].at)
<1> HIDE DEF r, new
<1>1. /\ job[w].pc = "lifecycle" /\ Free(w, Blob) /\ End(w)
      /\ ref' = [ref EXCEPT ![r] = new] /\ blob' = Counted(blob, ref[r], new)
      /\ UNCHANGED <<clock, file, upload, chunkFile, sweep, sweptLate>>
  BY DEF LifecycleCount, r, new
<1>2. /\ r \in Ref /\ ref[r] \in RefRow /\ ref[r].bound /\ job[w].at \in 0 .. MaxTime
      /\ RefLock(r) \in held[w] /\ blob \in BlobRow
  BY <1>1, OwnFits DEF r
<1>3. deleted' \subseteq Ref
  BY <1>2 DEF LifecycleCount, Toggle, KInv, TypeOK, r
<1>4. new \in RefRow /\ new.bound = ref[r].bound
  BY <1>2, MarkedType DEF new
<1>5. blob # None
  BY <1>2, NoneAssumption
<1>6. /\ Counted(blob, ref[r], new) \in BlobRow
      /\ Counted(blob, ref[r], new).status = blob.status
      /\ Counted(blob, ref[r], new).count = Cardinality(LiveOf([ref EXCEPT ![r] = new]))
  BY <1>2, <1>4, <1>5, BlobExact, CountedWrite
<1>7. /\ blob' \in BlobRow /\ blob' # None /\ blob'.status = blob.status
      /\ blob'.count = Cardinality(LiveOf(ref'))
  BY <1>1, <1>6, NoneAssumption
<1>8. /\ ref' \in [Ref -> RefRow \cup {None}]
      /\ \A x \in Ref \ {r} : ref'[x] = ref[x]
      /\ UploadsFit' /\ UploadKeepsBlob' /\ ChunksStored' /\ SweepFits'
  <2>1. UNCHANGED <<clock, upload, chunkFile, sweep>> /\ (blob # None => blob' # None)
    BY <1>1, <1>7
  <2> QED BY <1>1, <1>2, <1>4, <2>1, ReferenceWrite
<1>9. LocksFit' /\ job' \in [Worker -> Job] /\ held' \in [Actor -> SUBSET Lock]
  BY <1>1, EndLocks
<1>10. TypeOK'
  BY <1>1, <1>3, <1>7, <1>8, <1>9 DEF KInv, TypeOK
<1>11. \A v \in Worker : JobFits(job[v])'
  <2>1. {} \in SUBSET UploadId /\ {r} \in SUBSET Ref
    BY <1>2
  <2>2. /\ UNCHANGED <<clock, file, sweep, sweptLate>> /\ End(w)
        /\ blob # None => blob' # None
        /\ \A x \in UploadId \ {} : upload'[x] = upload[x]
    BY <1>1, <1>7
  <2>3. /\ \A x \in {} : UploadLock(x) \in held[w] \/ Free(w, UploadLock(x))
        /\ \A x \in {r} : RefLock(x) \in held[w] \/ Free(w, RefLock(x))
    BY <1>2
  <2> QED BY <1>8, <2>1, <2>2, <2>3, EndFits
<1>12. CountExact' /\ AvailableUnlessSwept'
  BY <1>1, <1>5, <1>7 DEF KInv, CountExact, AvailableUnlessSwept, LiveOf
<1> QED BY <1>8, <1>9, <1>10, <1>11, <1>12 DEF KInv

LEMMA QuarantineKeeps ==
  ASSUME KInv, NEW w \in Worker, Quarantine(w)
  PROVE  KInv'
<1>1. /\ job[w].pc = "damaged" /\ End(w) /\ blob' = [blob EXCEPT !.status = "quarantined"]
      /\ UNCHANGED <<clock, deleted, ref, file, upload, chunkFile, sweep, sweptLate>>
  BY DEF Quarantine
<1>2. blob \in BlobRow
  BY <1>1, OwnFits
<1>3. blob # None
  BY <1>2, NoneAssumption
<1>4. blob' \in BlobRow /\ blob'.count = blob.count /\ blob'.status = "quarantined"
  BY <1>1, <1>2 DEF BlobRow
<1>5. blob' # None
  BY <1>4, NoneAssumption
<1>6. LocksFit' /\ job' \in [Worker -> Job] /\ held' \in [Actor -> SUBSET Lock]
  BY <1>1, EndLocks
<1>7. TypeOK'
  BY <1>1, <1>4, <1>6 DEF KInv, TypeOK
<1>8. \A v \in Worker : JobFits(job[v])'
  <2>1. {} \in SUBSET UploadId /\ {} \in SUBSET Ref
    OBVIOUS
  <2>2. /\ UNCHANGED <<clock, file, sweep, sweptLate>> /\ End(w)
        /\ blob # None => blob' # None
        /\ \A x \in UploadId \ {} : upload'[x] = upload[x]
        /\ \A x \in Ref \ {} : ref'[x] = ref[x]
    BY <1>1, <1>5
  <2>3. /\ \A x \in {} : UploadLock(x) \in held[w] \/ Free(w, UploadLock(x))
        /\ \A x \in {} : RefLock(x) \in held[w] \/ Free(w, RefLock(x))
    OBVIOUS
  <2> QED BY <2>1, <2>2, <2>3, EndFits
<1>9. UploadsFit' /\ UploadKeepsBlob' /\ ChunksStored' /\ SweepFits'
  BY <1>1, <1>5 DEF KInv, UploadsFit, UploadKeepsBlob, ChunksStored, SweepFits, Uploads
<1>10. CountExact' /\ AvailableUnlessSwept'
  BY <1>1, <1>3, <1>4, <1>5 DEF KInv, CountExact, AvailableUnlessSwept
<1> QED BY <1>6, <1>7, <1>8, <1>9, <1>10 DEF KInv

LEMMA AbortKeeps ==
  ASSUME KInv, NEW w \in Worker, Abort(w)
  PROVE  KInv'
BY EndsKeep DEF Abort

-----------------------------------------------------------------------------
(* The maintenance job.                                                    *)

LEMMA CollectorReleases ==
  ASSUME KInv, Release(Collector), \A v \in Worker : LocksOf(job'[v]) = LocksOf(job[v]),
         sweep'.pc # "collect"
  PROVE  LocksFit' /\ held' \in [Actor -> SUBSET Lock]
<1>1. Collector \in Actor /\ \A v \in Worker : v \in Actor /\ v # Collector
  BY CollectorAssumption DEF Actor
<1>2. held \in [Actor -> SUBSET Lock] /\ held' = [held EXCEPT ![Collector] = {}]
  BY DEF KInv, TypeOK, Release
<1>3. /\ held'[Collector] = {} /\ \A a \in Actor \ {Collector} : held'[a] = held[a]
      /\ held' \in [Actor -> SUBSET Lock]
  BY <1>1, <1>2
<1>4. \A a \in Actor : \A b \in Actor \ {a} : held'[a] \cap held'[b] = {}
  <2> TAKE a \in Actor
  <2> TAKE b \in Actor \ {a}
  <2>1. held[a] \cap held[b] = {}
    BY DEF KInv, LocksFit
  <2> QED BY <1>3, <2>1
<1> QED BY <1>1, <1>3, <1>4 DEF KInv, LocksFit

LEMMA SweepType ==
  ASSUME KInv
  PROVE  /\ sweep \in [pc : {"idle", "blobs", "collect", "files"}, now : Time,
                       keys : SUBSET ({Blob} \cup chunkFile)]
         /\ sweep.now \in Nat /\ clock \in Nat /\ sweep.now <= clock
         /\ \A u \in UploadId : upload[u] # None => upload[u] \in UploadRow /\ upload[u].expires \in Nat
<1>1. /\ sweep \in [pc : {"idle", "blobs", "collect", "files"}, now : Time,
                    keys : SUBSET ({Blob} \cup chunkFile)]
      /\ clock \in Nat /\ sweep.now <= clock
  BY DEF KInv, TypeOK, SweepFits
<1>2. sweep.now \in Nat
  BY <1>1, TimeType
<1>3. \A u \in UploadId : upload[u] # None => upload[u] \in UploadRow
  BY DEF KInv, TypeOK
<1>4. \A row \in UploadRow : row.expires \in Nat
  BY TimeType DEF UploadRow
<1> QED BY <1>1, <1>2, <1>3, <1>4

\* No transaction has the lock of an upload that the sweep takes.
LEMMA OverdueFree ==
  ASSUME KInv, NEW v \in Worker, job[v].pc \in {"assembled", "bind"}
  PROVE  job[v].up \in UploadId /\ job[v].up \notin Overdue
<1>1. job[v].up \in UploadId /\ UploadLock(job[v].up) \in LocksOf(job[v])
  BY OwnFits DEF KInv, LocksFit
<1>2. v # Collector /\ Collector \in Actor
  BY CollectorAssumption DEF Actor
<1>3. ~ Free(Collector, UploadLock(job[v].up))
  BY <1>1, <1>2, Excludes
<1> QED BY <1>1, <1>3 DEF Overdue

LEMMA SweepUploadsKeeps ==
  ASSUME KInv, SweepUploads
  PROVE  KInv'
<1> DEFINE gone == {u \in Overdue : upload[u].expires + Grace <= clock}
           Late(u) == [upload[u] EXCEPT !.status = "expired"]
           keys == {c \in chunkFile : c[1] \in gone /\ c[2] \in upload[c[1]].chunks}
<1>1. /\ sweep.pc = "idle"
      /\ upload' = [u \in UploadId |-> IF u \in gone THEN None
                                       ELSE IF u \in Overdue THEN Late(u) ELSE upload[u]]
      /\ sweep' = [pc |-> "blobs", now |-> clock, keys |-> keys]
      /\ UNCHANGED <<clock, deleted, ref, blob, file, chunkFile, job, held, sweptLate>>
  BY DEF SweepUploads
<1>2. \A u \in Overdue : /\ u \in UploadId /\ upload[u] \in UploadRow /\ upload[u] # None
                         /\ upload[u].status # "completed" /\ upload[u].expires <= clock
  BY SweepType DEF Overdue, Uploads, Expired
<1>3. \A u \in Overdue : /\ Late(u) \in UploadRow /\ Late(u).status = "expired"
                         /\ Late(u).expires = upload[u].expires
                         /\ Late(u).ref = upload[u].ref /\ Late(u).chunks = upload[u].chunks
  BY <1>2 DEF UploadRow
<1>4. gone \subseteq Overdue /\ keys \subseteq chunkFile
  OBVIOUS
<1>5. \A u \in UploadId, o \in 1 .. NChunk : <<u, o>> \in keys => u \in gone
  OBVIOUS
<1> HIDE DEF gone, Late, keys
<1>6. \A u \in UploadId : \/ upload'[u] = None
                          \/ u \in Overdue /\ upload'[u] = Late(u)
                          \/ u \notin Overdue /\ upload'[u] = upload[u]
  BY <1>1
<1>7. \A u \in gone : upload'[u] = None
  BY <1>1, <1>2, <1>4
<1>8. upload' \in [UploadId -> UploadRow \cup {None}]
  <2>1. \A u \in UploadId : upload'[u] \in UploadRow \cup {None}
    BY <1>3, <1>6 DEF KInv, TypeOK
  <2> QED BY <1>1, <2>1
<1>9. TypeOK'
  <2>1. clock \in Time
    BY TimeType DEF KInv, TypeOK
  <2> QED BY <1>1, <1>4, <1>8, <2>1 DEF KInv, TypeOK
<1>10. LocksFit'
  BY <1>1 DEF KInv, LocksFit
<1>11. \A v \in Worker : JobFits(job[v])'
  <2> TAKE v \in Worker
  <2>1. job[v].pc \in {"assembled", "bind"} => upload'[job[v].up] = upload[job[v].up]
    BY <1>1, <1>4, OverdueFree
  <2>2. clock' \in Nat /\ clock <= clock'
    BY <1>1 DEF KInv, TypeOK
  <2> QED BY <1>1, <2>1, <2>2, OthersFit
<1>12. UploadsFit'
  BY <1>1, <1>2, <1>3, <1>6 DEF KInv, UploadsFit, Uploads
<1>13. UploadKeepsBlob'
  BY <1>1, <1>2, <1>3, <1>6 DEF KInv, UploadKeepsBlob, Uploads, Expired
<1>14. ChunksStored'
  <2> SUFFICES ASSUME NEW x \in UploadId, upload'[x] # None, upload'[x].status # "completed"
               PROVE  ({x} \X upload'[x].chunks) \subseteq chunkFile'
    BY DEF ChunksStored, Uploads
  <2>1. upload[x] # None /\ upload[x].status # "completed" /\ upload'[x].chunks = upload[x].chunks
    BY <1>2, <1>3, <1>6
  <2> QED BY <1>1, <2>1 DEF KInv, ChunksStored, Uploads
<1>15. SweepFits'
  BY <1>1, <1>5, <1>7, SweepType DEF SweepFits
<1>16. CountExact' /\ AvailableUnlessSwept'
  BY <1>1 DEF KInv, CountExact, AvailableUnlessSwept
<1> QED BY <1>9, <1>10, <1>11, <1>12, <1>13, <1>14, <1>15, <1>16 DEF KInv

\* A step of the maintenance job that goes on without a write.
LEMMA QuietSweep ==
  ASSUME KInv, UNCHANGED <<clock, rows, file, chunkFile, job, sweptLate>>,
         sweep' \in [pc : {"idle", "blobs", "collect", "files"}, now : Time,
                     keys : SUBSET ({Blob} \cup chunkFile)],
         sweep'.now <= clock, sweep'.keys \subseteq sweep.keys,
         LocksFit', held' \in [Actor -> SUBSET Lock]
  PROVE  KInv'
<1>1. UNCHANGED <<clock, deleted, ref, blob, file, upload, chunkFile, job, sweptLate>>
  BY DEF rows
<1>2. TypeOK'
  BY <1>1 DEF KInv, TypeOK
<1>3. \A w \in Worker : JobFits(job[w])'
  BY <1>1 DEF KInv, JobFits
<1> QED BY <1>1, <1>2, <1>3, RowsStay

LEMMA SelectBlobKeeps ==
  ASSUME KInv, SelectBlob
  PROVE  KInv'
<1>1. sweep.pc = "blobs" /\ UNCHANGED <<clock, rows, file, chunkFile, job, sweptLate>>
  BY DEF SelectBlob
<1>2. /\ sweep \in [pc : {"idle", "blobs", "collect", "files"}, now : Time,
                    keys : SUBSET ({Blob} \cup chunkFile)]
      /\ sweep.now <= clock
  BY SweepType
<1>3. held \in [Actor -> SUBSET Lock] /\ Collector \in Actor /\ \A v \in Worker : v \in Actor /\ v # Collector
  BY CollectorAssumption DEF KInv, TypeOK, Actor
<1>4. CASE sweep' = [sweep EXCEPT !.pc = "collect"] /\ Take(Collector, {Blob}) /\ Free(Collector, Blob)
  <2>1. sweep'.pc = "collect" /\ sweep'.now = sweep.now /\ sweep'.keys = sweep.keys
        /\ sweep' \in [pc : {"idle", "blobs", "collect", "files"}, now : Time,
                       keys : SUBSET ({Blob} \cup chunkFile)]
    BY <1>2, <1>4
  <2>2. held[Collector] = {} /\ Blob \in Lock
    BY <1>1 DEF KInv, LocksFit, Lock, Blob
  <2>3. /\ held' \in [Actor -> SUBSET Lock] /\ held'[Collector] = {Blob}
        /\ \A a \in Actor \ {Collector} : held'[a] = held[a]
    BY <1>3, <1>4, <2>2 DEF Take
  <2>4. \A a \in Actor : \A b \in Actor \ {a} : held'[a] \cap held'[b] = {}
    <3> TAKE a \in Actor
    <3> TAKE b \in Actor \ {a}
    <3>1. held[a] \cap held[b] = {}
      BY DEF KInv, LocksFit
    <3>2. \A c \in Actor \ {Collector} : Blob \notin held[c]
      BY <1>4 DEF Free
    <3> QED BY <2>3, <3>1, <3>2
  <2>5. LocksFit'
    BY <1>1, <1>3, <2>1, <2>3, <2>4 DEF KInv, LocksFit
  <2> QED BY <1>1, <1>2, <2>1, <2>3, <2>5, QuietSweep
<1>5. CASE sweep' = [sweep EXCEPT !.pc = "files"] /\ UNCHANGED held
  <2>1. sweep'.pc = "files" /\ sweep'.now = sweep.now /\ sweep'.keys = sweep.keys
        /\ sweep' \in [pc : {"idle", "blobs", "collect", "files"}, now : Time,
                       keys : SUBSET ({Blob} \cup chunkFile)]
    BY <1>2, <1>5
  <2>2. LocksFit'
    BY <1>1, <1>5, <2>1 DEF KInv, LocksFit
  <2>3. held' \in [Actor -> SUBSET Lock]
    BY <1>3, <1>5
  <2> QED BY <1>1, <1>2, <2>1, <2>2, <2>3, QuietSweep
<1> QED BY <1>4, <1>5 DEF SelectBlob

LEMMA CollectBlobKeeps ==
  ASSUME KInv, CollectBlob
  PROVE  KInv'
<1>1. /\ sweep.pc = "collect" /\ Release(Collector)
      /\ UNCHANGED <<clock, deleted, file, chunkFile, sweptLate>>
  BY DEF CollectBlob
<1>2. /\ sweep \in [pc : {"idle", "blobs", "collect", "files"}, now : Time,
                    keys : SUBSET ({Blob} \cup chunkFile)]
      /\ sweep.now \in Nat /\ clock \in Nat /\ sweep.now <= clock
  BY SweepType
<1>3. CASE InUse(sweep.now)
  <2>1. sweep' = [sweep EXCEPT !.pc = "files"] /\ UNCHANGED <<ref, blob, upload, job>>
    BY <1>3 DEF CollectBlob
  <2>2. sweep'.pc = "files" /\ sweep'.now = sweep.now /\ sweep'.keys = sweep.keys
        /\ sweep' \in [pc : {"idle", "blobs", "collect", "files"}, now : Time,
                       keys : SUBSET ({Blob} \cup chunkFile)]
    BY <1>2, <2>1
  <2>3. LocksFit' /\ held' \in [Actor -> SUBSET Lock]
    BY <1>1, <2>1, <2>2, CollectorReleases
  <2>4. UNCHANGED <<clock, rows, file, chunkFile, job, sweptLate>>
    BY <1>1, <2>1 DEF rows
  <2> QED BY <1>2, <2>2, <2>3, <2>4, QuietSweep
<1>4. CASE ~ InUse(sweep.now)
  <2> DEFINE detached == {r \in Ref : ref[r] # None /\ ref[r].bound}
             Bare(r) == [ref[r] EXCEPT !.bound = FALSE]
  <2>1. /\ \A r \in detached : Free(Collector, RefLock(r))
        /\ ref' = [r \in Ref |-> IF r \in detached THEN Bare(r) ELSE ref[r]]
        /\ upload' = [u \in UploadId |-> IF u \in Uploads /\ upload[u].status = "completed"
                                         THEN None ELSE upload[u]]
        /\ blob' = None
        /\ job' = [w \in Worker |-> IF job[w].pc = "damaged" THEN Idle ELSE job[w]]
        /\ sweep' = [sweep EXCEPT !.pc = "files", !.keys = @ \cup {Blob}]
    BY <1>4 DEF CollectBlob
  <2>2. /\ ref \in [Ref -> RefRow \cup {None}] /\ upload \in [UploadId -> UploadRow \cup {None}]
        /\ job \in [Worker -> Job]
    BY DEF KInv, TypeOK
  <2>3. \A r \in detached : r \in Ref /\ Bare(r) \in RefRow /\ ~ Bare(r).bound
    BY <2>2 DEF RefRow
  <2>4. \A r \in Ref : r \notin detached /\ ref[r] # None => ~ ref[r].bound
    OBVIOUS
  <2>5. \A r \in Ref : ref[r] # None /\ ref[r].bound => r \in detached
    OBVIOUS
  <2> HIDE DEF detached, Bare
  <2>6. /\ ref' \in [Ref -> RefRow \cup {None}]
        /\ \A r \in Ref : ref'[r] # None => ~ ref'[r].bound
        /\ \A r \in Ref : ref[r] # None => ref'[r] # None
    <3>1. \A r \in detached : Bare(r) # None
      BY <2>3, NoneAssumption
    <3>2. \A r \in Ref : \/ r \in detached /\ ref'[r] = Bare(r)
                         \/ r \notin detached /\ ref'[r] = ref[r]
      BY <2>1
    <3>3. \A r \in Ref : ref'[r] \in RefRow \cup {None}
      BY <2>2, <2>3, <3>2
    <3>4. ref' \in [Ref -> RefRow \cup {None}]
      BY <2>1, <3>3
    <3> QED BY <2>3, <2>4, <3>1, <3>2, <3>4
  <2>7. /\ upload' \in [UploadId -> UploadRow \cup {None}]
        /\ \A u \in UploadId : \/ upload'[u] = None
                               \/ upload'[u] = upload[u] /\ upload[u] # None /\ upload[u].status # "completed"
        /\ \A u \in UploadId : upload[u] # None /\ upload[u].status # "completed" => upload'[u] = upload[u]
    BY <2>1, <2>2 DEF Uploads
  <2>8. /\ job' \in [Worker -> Job]
        /\ \A w \in Worker : \/ job[w].pc = "damaged" /\ job'[w] = Idle
                             \/ job[w].pc # "damaged" /\ job'[w] = job[w]
    BY <2>1, <2>2, IdleLocks
  <2>9. /\ sweep'.pc = "files" /\ sweep'.now = sweep.now /\ sweep'.keys = sweep.keys \cup {Blob}
        /\ sweep' \in [pc : {"idle", "blobs", "collect", "files"}, now : Time,
                       keys : SUBSET ({Blob} \cup chunkFile)]
    BY <1>2, <2>1
  <2>10. LocksFit' /\ held' \in [Actor -> SUBSET Lock]
    <3>1. \A w \in Worker : LocksOf(job'[w]) = LocksOf(job[w])
      <4> TAKE w \in Worker
      <4>1. CASE job[w].pc = "damaged" /\ job'[w] = Idle
        BY <4>1, IdleLocks DEF LocksOf
      <4>2. CASE job'[w] = job[w]
        BY <4>2
      <4> QED BY <2>8, <4>1, <4>2
    <3> QED BY <1>1, <2>9, <3>1, CollectorReleases
  <2>11. TypeOK'
    BY <1>1, <2>1, <2>6, <2>7, <2>8, <2>9, <2>10 DEF KInv, TypeOK
  <2>12. ASSUME NEW v \in Worker
         PROVE  JobFits(job[v])'
    <3>1. CASE job[v].pc = "damaged"
      BY <2>8, <3>1 DEF JobFits, Idle
    <3>2. CASE job[v].pc # "damaged"
      <4>0. job'[v] = job[v] /\ JobFits(job[v])
        BY <2>8, <3>2 DEF KInv
      <4>1. Collector \in Actor /\ v # Collector /\ held[Collector] = {Blob}
        BY <1>1, CollectorAssumption DEF KInv, LocksFit, Actor
      <4>2. Blob \notin LocksOf(job[v])
        BY <4>1, Excludes
      <4>3. job[v].pc # "bind"
        BY <4>2 DEF LocksOf
      <4>4. job[v].pc # "lifecycle"
        <5> SUFFICES ASSUME job[v].pc = "lifecycle" PROVE FALSE
          OBVIOUS
        <5>1. job[v].ref \in Ref /\ ref[job[v].ref] # None /\ ref[job[v].ref].bound
          BY OwnFits, NoneAssumption
        <5>2. RefLock(job[v].ref) \in LocksOf(job[v])
          BY DEF LocksOf
        <5>3. Free(Collector, RefLock(job[v].ref))
          BY <2>1, <2>5, <5>1
        <5> QED BY <4>1, <5>2, <5>3, Excludes
      <4>5. job[v].pc = "assembled" => upload'[job[v].up] = upload[job[v].up]
        BY <2>7, <4>0, OwnFits DEF JobFits
      <4> QED BY <1>1, <3>2, <4>0, <4>3, <4>4, <4>5 DEF JobFits
    <3> QED BY <3>1, <3>2
  <2>13. UploadsFit'
    <3>1. \A u \in UploadId : upload[u] # None => upload[u].ref \in Ref
      BY <2>2 DEF UploadRow
    <3> QED BY <2>6, <2>7, <3>1 DEF KInv, UploadsFit, Uploads
  <2>14. UploadKeepsBlob'
    <3> SUFFICES ASSUME NEW u \in UploadId, upload'[u] # None,
                        ~ (upload'[u].expires <= clock') \/ upload'[u].status = "completed"
                 PROVE  FALSE
      BY DEF UploadKeepsBlob, Uploads, Expired
    <3>1. upload'[u] = upload[u] /\ upload[u] # None /\ upload[u].status # "completed"
      BY <2>7
    <3>2. upload[u].expires <= sweep.now
      BY <1>4, <3>1 DEF InUse, Uploads, Expired
    <3>3. upload[u].expires \in Nat
      BY <3>1, SweepType
    <3> QED BY <1>1, <1>2, <3>1, <3>2, <3>3
  <2>15. ChunksStored'
    BY <1>1, <2>7 DEF KInv, ChunksStored, Uploads
  <2>16. SweepFits'
    <3>1. \A u \in UploadId, o \in 1 .. NChunk : <<u, o>> # Blob
      BY DEF Blob
    <3>2. \A u \in UploadId : upload[u] = None => upload'[u] = None
      BY <2>7
    <3> QED BY <1>1, <1>2, <2>9, <3>1, <3>2 DEF KInv, SweepFits
  <2>17. CountExact' /\ AvailableUnlessSwept'
    BY <2>1, <2>6 DEF CountExact, AvailableUnlessSwept
  <2> QED BY <2>10, <2>11, <2>12, <2>13, <2>14, <2>15, <2>16, <2>17 DEF KInv
<1> QED BY <1>3, <1>4

LEMMA DeleteFileKeeps ==
  ASSUME KInv, NEW key \in sweep.keys, DeleteFile(key)
  PROVE  KInv'
<1>1. /\ sweep.pc = "files" /\ sweep' = [sweep EXCEPT !.keys = @ \ {key}] /\ Remove(key)
      /\ sweptLate' = \/ sweptLate
                      \/ /\ key = Blob
                         /\ blob # None \/ \E w \in Worker : job[w].pc \in {"assembled", "bind"}
      /\ UNCHANGED <<clock, deleted, ref, blob, upload, job, held>>
  BY DEF DeleteFile, rows
<1>2. /\ sweep \in [pc : {"idle", "blobs", "collect", "files"}, now : Time,
                    keys : SUBSET ({Blob} \cup chunkFile)]
      /\ chunkFile \subseteq UploadId \X (1 .. NChunk)
  BY SweepType DEF KInv, TypeOK
<1>3. /\ sweep'.pc = "files" /\ sweep'.now = sweep.now /\ sweep'.keys = sweep.keys \ {key}
      /\ key = Blob \/ key \in chunkFile
  BY <1>1, <1>2
<1>4. /\ chunkFile' = chunkFile \ ({key} \ {Blob})
      /\ file' = IF key = Blob THEN FALSE ELSE file
  <2>1. Blob \notin chunkFile
    BY <1>2 DEF Blob
  <2> QED BY <1>1, <2>1 DEF Remove
<1>5. sweep' \in [pc : {"idle", "blobs", "collect", "files"}, now : Time,
                  keys : SUBSET ({Blob} \cup chunkFile')]
  <2>1. sweep' \in [pc : {"idle", "blobs", "collect", "files"}, now : Time, keys : SUBSET sweep.keys]
    BY <1>1, <1>2
  <2>2. sweep'.keys \subseteq {Blob} \cup chunkFile'
    BY <1>2, <1>3, <1>4
  <2> QED BY <2>1, <2>2
<1>6. TypeOK'
  <2>1. file' \in BOOLEAN /\ sweptLate' \in BOOLEAN
    BY <1>1, <1>4 DEF KInv, TypeOK
  <2>2. chunkFile' \subseteq UploadId \X (1 .. NChunk)
    BY <1>2, <1>4
  <2> QED BY <1>1, <1>5, <2>1, <2>2 DEF KInv, TypeOK
<1>7. LocksFit'
  BY <1>1, <1>3 DEF KInv, LocksFit
<1>8. \A v \in Worker : JobFits(job[v])'
  BY <1>1, <1>4 DEF KInv, JobFits
<1>9. UploadsFit' /\ UploadKeepsBlob' /\ CountExact'
  BY <1>1 DEF KInv, UploadsFit, UploadKeepsBlob, CountExact, Uploads, Expired
<1>10. ChunksStored'
  <2> SUFFICES ASSUME NEW u \in UploadId, upload[u] # None, upload[u].status # "completed",
                      NEW o \in upload[u].chunks
               PROVE  <<u, o>> \in chunkFile'
    BY <1>1 DEF ChunksStored, Uploads
  <2>1. <<u, o>> \in chunkFile
    BY DEF KInv, ChunksStored, Uploads
  <2>2. o \in 1 .. NChunk
    BY <1>2, <2>1
  <2>3. <<u, o>> # key
    BY <2>2 DEF KInv, SweepFits
  <2> QED BY <1>4, <2>1, <2>3
<1>11. SweepFits'
  BY <1>1, <1>3 DEF KInv, SweepFits
<1>12. AvailableUnlessSwept'
  BY <1>1, <1>4 DEF KInv, AvailableUnlessSwept
<1> QED BY <1>6, <1>7, <1>8, <1>9, <1>10, <1>11, <1>12 DEF KInv

LEMMA EndSweepKeeps ==
  ASSUME KInv, EndSweep
  PROVE  KInv'
<1>1. /\ sweep' = [sweep EXCEPT !.pc = "idle", !.keys = {}, !.now = 0] /\ Release(Collector)
      /\ UNCHANGED <<clock, rows, file, chunkFile, job, sweptLate>>
  BY DEF EndSweep
<1>2. clock \in Nat /\ 0 \in Time
  BY SweepType, TimeType
<1>3. /\ sweep' \in [pc : {"idle", "blobs", "collect", "files"}, now : Time,
                     keys : SUBSET ({Blob} \cup chunkFile)]
      /\ sweep'.pc = "idle" /\ sweep'.now = 0 /\ sweep'.keys = {}
  BY <1>1, <1>2, SweepType
<1>4. LocksFit' /\ held' \in [Actor -> SUBSET Lock]
  BY <1>1, <1>3, CollectorReleases
<1>5. sweep'.now <= clock /\ sweep'.keys \subseteq sweep.keys
  BY <1>2, <1>3
<1> QED BY <1>1, <1>3, <1>4, <1>5, QuietSweep

LEMMA TickKeeps ==
  ASSUME KInv, Tick
  PROVE  KInv'
<1>1. /\ clock < MaxTime /\ clock' = clock + 1
      /\ UNCHANGED <<deleted, ref, blob, upload, file, chunkFile, job, sweep, held, sweptLate>>
  BY DEF Tick, rows
<1>2. /\ clock \in Nat /\ sweep.now \in Nat /\ sweep.now <= clock
      /\ \A u \in UploadId : upload[u] # None => upload[u] \in UploadRow /\ upload[u].expires \in Nat
  BY SweepType
<1>3. clock' \in 0 .. MaxTime /\ clock <= clock' /\ sweep.now <= clock'
  BY <1>1, <1>2, TimeAssumption
<1>4. TypeOK'
  BY <1>1, <1>3 DEF KInv, TypeOK
<1>5. LocksFit' /\ UploadsFit' /\ ChunksStored' /\ CountExact' /\ AvailableUnlessSwept'
  BY <1>1 DEF KInv, LocksFit, UploadsFit, ChunksStored, CountExact, AvailableUnlessSwept, Uploads
<1>6. \A v \in Worker : JobFits(job[v])'
  BY <1>1, <1>3, OthersFit
<1>7. UploadKeepsBlob'
  <2> SUFFICES ASSUME NEW u \in UploadId, upload[u] # None,
                      ~ (upload[u].expires <= clock') \/ upload[u].status = "completed"
               PROVE  blob # None
    BY <1>1 DEF UploadKeepsBlob, Uploads, Expired
  <2>1. ~ (upload[u].expires <= clock) \/ upload[u].status = "completed"
    BY <1>1, <1>2
  <2> QED BY <2>1 DEF KInv, UploadKeepsBlob, Uploads, Expired
<1>8. SweepFits'
  BY <1>1, <1>3 DEF KInv, SweepFits
<1> QED BY <1>4, <1>5, <1>6, <1>7, <1>8 DEF KInv

-----------------------------------------------------------------------------
(* The theorems.                                                           *)

LEMMA InitHolds ==
  ASSUME Init
  PROVE  KInv
<1>1. TypeOK
  <2>1. Idle \in Job /\ 0 \in Time /\ 0 \in 0 .. MaxTime
    BY IdleLocks, TimeType, TimeAssumption
  <2> QED BY <2>1 DEF Init, TypeOK
<1>2. LocksFit
  BY CollectorAssumption, IdleLocks DEF Init, LocksFit, Actor
<1>3. \A w \in Worker : JobFits(job[w])
  BY IdleFits DEF Init
<1>4. UploadsFit /\ UploadKeepsBlob /\ ChunksStored /\ AvailableUnlessSwept
  BY DEF Init, UploadsFit, UploadKeepsBlob, ChunksStored, AvailableUnlessSwept, Uploads
<1>5. SweepFits /\ CountExact
  BY DEF Init, SweepFits, CountExact
<1> QED BY <1>1, <1>2, <1>3, <1>4, <1>5 DEF KInv

LEMMA StutterKeeps ==
  ASSUME KInv, UNCHANGED vars
  PROVE  KInv'
<1>1. UNCHANGED <<clock, rows, file, chunkFile, job, sweep, held, sweptLate>>
  BY DEF vars
<1>2. LocksFit' /\ held' \in [Actor -> SUBSET Lock]
  BY <1>1 DEF KInv, LocksFit, TypeOK
<1> QED BY <1>1, <1>2, SweepType, QuietSweep

LEMMA StepKeeps ==
  ASSUME KInv, [Next]_vars
  PROVE  KInv'
<1>1. ASSUME NEW w \in Worker, Transfer(w)
      PROVE  KInv'
  <2>1. CASE \E k \in Key, r \in Ref : Initiate(w, k, r)
    BY <2>1, InitiateKeeps
  <2>2. CASE Identify(w)
    BY <2>2, IdentifyKeeps
  <2>3. CASE InsertBlob(w)
    BY <2>3, InsertBlobKeeps
  <2>4. CASE LockBlob(w)
    BY <2>4, LockBlobKeeps
  <2>5. CASE \E u \in UploadId, o \in 1 .. NChunk : Chunk(w, u, o)
    BY <2>5, ChunkKeeps
  <2>6. CASE \E u \in UploadId : Assemble(w, u)
    BY <2>6, AssembleKeeps
  <2>7. CASE Verify(w)
    BY <2>7, VerifyKeeps
  <2>8. CASE Bind(w)
    BY <2>8, BindKeeps
  <2>9. CASE \E r \in Ref, kind \in {"delete", "restore"} : Lifecycle(w, r, kind)
    BY <2>9, LifecycleKeeps
  <2>10. CASE LifecycleCount(w)
    BY <2>10, LifecycleCountKeeps
  <2>11. CASE \E r \in Ref : Damaged(w, r)
    BY <2>11, DamagedKeeps
  <2>12. CASE Quarantine(w)
    BY <2>12, QuarantineKeeps
  <2>13. CASE Abort(w)
    BY <2>13, AbortKeeps
  <2> QED BY <1>1, <2>1, <2>2, <2>3, <2>4, <2>5, <2>6, <2>7, <2>8, <2>9, <2>10, <2>11, <2>12, <2>13
          DEF Transfer
<1>2. ASSUME Maintain
      PROVE  KInv'
  <2>1. CASE \E key \in sweep.keys : DeleteFile(key)
    BY <2>1, DeleteFileKeeps
  <2> QED BY <1>2, <2>1, SweepUploadsKeeps, SelectBlobKeeps, CollectBlobKeeps, EndSweepKeeps DEF Maintain
<1> QED BY <1>1, <1>2, TickKeeps, StutterKeeps DEF Next

\* In every reachable state each transaction holds exactly the locks of what it
\* does, what it has read and locked stays so, and the rows and files fit
\* (services/attachment_transfers.py, services/attachment_maintenance.py).
THEOREM Invariance == Spec => []KInv
<1>1. Init => KInv
  BY InitHolds
<1>2. KInv /\ [Next]_vars => KInv'
  BY StepKeeps
<1> QED BY <1>1, <1>2, PTL DEF Spec

\* The counter of the blob is the number of its live references, an upload that
\* has not expired or is completed has its blob, and a chunk row its file,
\* whatever transfers, deletions and sweeps interleave (alembic 0021).
THEOREM ConsistentAlways == Spec => []Consistent
<1>1. KInv => Consistent
  BY DEF KInv, Consistent
<1> QED BY <1>1, Invariance, PTL

\* An available blob has its file, unless a sweep deleted it after its content
\* had been uploaded again (services/attachment_storage.py).
THEOREM AvailableMeansStored == Spec => []AvailableUnlessSwept
<1>1. KInv => AvailableUnlessSwept
  BY DEF KInv
<1> QED BY <1>1, Invariance, PTL

\* Only a collection unbinds a reference, and it sees every one that is retained.
LEMMA StepKeepsBindings ==
  ASSUME KInv, [Next]_vars
  PROVE  KeepsBindings \/ UNCHANGED vars
<1> SUFFICES ASSUME NEW r \in Ref, ref[r] # None, ref[r].bound,
                    ~ ref[r].tombstone \/ ref[r].retention > clock, Next
             PROVE  ref'[r].bound
  BY DEF KeepsBindings
<1>1. ref \in [Ref -> RefRow \cup {None}] /\ ref[r] \in RefRow
  BY DEF KInv, TypeOK
<1>2. CASE ref' = ref
  BY <1>2
<1>3. ASSUME NEW q \in Ref, NEW new, ref' = [ref EXCEPT ![q] = new], q = r => new.bound
      PROVE  ref'[r].bound
  BY <1>1, <1>3
<1>4. ASSUME NEW w \in Worker, NEW b, Initiated(w, b), job[w].pc \in {"insert", "lock"}
      PROVE  ref'[r].bound
  <2>1. job[w].ref \in Ref
    BY <1>4, JobType DEF KInv, TypeOK
  <2> DEFINE shared == b.status = "available" /\ file
             new == Rebound(ref[job[w].ref], shared)
  <2>2. ref' = ref \/ ref' = [ref EXCEPT ![job[w].ref] = new]
    BY <1>4 DEF Initiated
  <2>3. job[w].ref = r => new.bound
    <3>1. shared \in BOOLEAN
      OBVIOUS
    <3> HIDE DEF shared
    <3>2. Rebound(ref[r], shared).bound
      BY <1>1, <3>1, ReboundType
    <3> QED BY <3>2
  <2> HIDE DEF new
  <2> QED BY <1>2, <1>3, <2>1, <2>2, <2>3
<1>5. ASSUME NEW w \in Worker, Transfer(w)
      PROVE  ref'[r].bound
  <2>1. CASE InsertBlob(w)
    BY <1>2, <1>4, <2>1 DEF InsertBlob
  <2>2. CASE LockBlob(w)
    BY <1>2, <1>4, <2>2 DEF LockBlob
  <2>3. CASE Bind(w)
    <3> DEFINE q == upload[job[w].up].ref
    <3>1. ref' = [ref EXCEPT ![q] = [ref[q] EXCEPT !.bound = TRUE]]
      BY <2>3 DEF Bind
    <3>2. q = r => [ref[q] EXCEPT !.bound = TRUE].bound
      BY <1>1 DEF RefRow
    <3> HIDE DEF q
    <3> QED BY <1>1, <3>1, <3>2
  <2>4. CASE \E q \in Ref, kind \in {"delete", "restore"} : Lifecycle(w, q, kind)
    <3>1. PICK q \in Ref, kind \in {"delete", "restore"} : Lifecycle(w, q, kind)
      BY <2>4
    <3>2. ref' = ref \/ ref' = [ref EXCEPT ![q] = Marked(ref[q], kind, clock)]
      BY <3>1 DEF Lifecycle
    <3>3. Marked(ref[r], kind, clock).bound
      BY <1>1, MarkedType DEF KInv, TypeOK
    <3> QED BY <1>2, <1>3, <3>2, <3>3
  <2>5. CASE LifecycleCount(w)
    <3>1. job[w].ref \in Ref /\ job[w].at \in 0 .. MaxTime
      BY <2>5, OwnFits DEF LifecycleCount
    <3>2. ref' = [ref EXCEPT ![job[w].ref] = Marked(ref[job[w].ref], job[w].kind, job[w].at)]
      BY <2>5 DEF LifecycleCount
    <3>3. Marked(ref[r], job[w].kind, job[w].at).bound
      BY <1>1, <3>1, MarkedType
    <3> QED BY <1>3, <3>1, <3>2, <3>3
  <2>6. CASE \/ \E k \in Key, q \in Ref : Initiate(w, k, q)
             \/ Identify(w)
             \/ \E u \in UploadId, o \in 1 .. NChunk : Chunk(w, u, o)
             \/ \E u \in UploadId : Assemble(w, u)
             \/ Verify(w)
             \/ \E q \in Ref : Damaged(w, q)
             \/ Quarantine(w) \/ Abort(w)
    <3>1. ref' = ref
      BY <2>6 DEF Initiate, Identify, Chunk, Assemble, Verify, Damaged, Quarantine, Abort, rows
    <3> QED BY <1>2, <3>1
  <2> QED BY <1>5, <2>1, <2>2, <2>3, <2>4, <2>5, <2>6 DEF Transfer
<1>6. ASSUME Maintain
      PROVE  ref'[r].bound
  <2>1. CASE CollectBlob
    <3>1. CASE InUse(sweep.now)
      BY <1>2, <2>1, <3>1 DEF CollectBlob
    <3>2. CASE ~ InUse(sweep.now)
      <4>1. ~ Live(ref[r]) /\ ~ (ref[r].retention > sweep.now)
        BY <3>2 DEF InUse
      <4>2. ref[r].tombstone /\ ref[r].retention > clock
        BY <4>1 DEF Live
      <4>3. ref[r].retention \in Nat
        BY <1>1, TimeType DEF RefRow
      <4> QED BY <4>1, <4>2, <4>3, SweepType
    <3> QED BY <3>1, <3>2
  <2>2. CASE SweepUploads \/ SelectBlob \/ (\E key \in sweep.keys : DeleteFile(key)) \/ EndSweep
    <3>1. ref' = ref
      BY <2>2 DEF SweepUploads, SelectBlob, DeleteFile, EndSweep, rows
    <3> QED BY <1>2, <3>1
  <2> QED BY <1>6, <2>1, <2>2 DEF Maintain
<1>7. CASE Tick
  BY <1>2, <1>7 DEF Tick, rows
<1> QED BY <1>5, <1>6, <1>7 DEF Next

\* A reference that is live, or whose retention has not passed, is never unbound:
\* the collector reads the references again under the lock of the blob, and at a
\* time that is not after the clock (attachment_maintenance.py:153-206).
THEOREM RetainedKept == Spec => KeepsRetained
<1>1. KInv /\ [Next]_vars => KeepsBindings \/ UNCHANGED vars
  BY StepKeepsBindings
<1> QED BY <1>1, Invariance, PTL DEF Spec, KeepsRetained
=============================================================================
