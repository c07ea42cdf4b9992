----------------------------- MODULE BanksProofs -----------------------------
(***************************************************************************)
(* For any users, readers, threads and versions: only the latest version   *)
(* of a bank is active, a request that reads it in several statements      *)
(* answers as if it had read at once, and subscriptions move forward.      *)
(***************************************************************************)
EXTENDS Banks, Integers, WellFoundedInduction, TLAPS

-----------------------------------------------------------------------------
(* Sets of naturals have a least and, when bounded, a greatest element.    *)

\* Naturals are well-founded.
LEMMA HasLeast ==
  ASSUME NEW S \in SUBSET Nat, S # {}
  PROVE  \E m \in S : \A n \in S : m <= n
<1>1. PICK m \in S : \A n \in S : ~ (<<n, m>> \in OpToRel(<, Nat))
  BY NatLessThanWellFounded, WFMin
<1>2. \A n \in S : ~ (n < m)
  BY <1>1 DEF OpToRel
<1> QED BY <1>2

\* The greatest is as far below the bound as the least distance to it.
LEMMA HasGreatest ==
  ASSUME NEW S \in SUBSET Nat, NEW b \in Nat, \A n \in S : n <= b, S # {}
  PROVE  \E m \in S : \A n \in S : n <= m
<1> DEFINE Distances == {b - n : n \in S}
<1>1. Distances \subseteq Nat
  OBVIOUS
<1>2. Distances # {}
  OBVIOUS
<1>3. PICK k \in Distances : \A j \in Distances : k <= j
  <2> HIDE DEF Distances
  <2> QED BY <1>1, <1>2, HasLeast
<1>4. PICK m \in S : k = b - m
  OBVIOUS
<1>5. ASSUME NEW n \in S
      PROVE  n <= m
  <2>1. b - m <= b - n
    BY <1>3, <1>4
  <2>2. m \in Nat /\ n \in Nat
    OBVIOUS
  <2> QED BY <2>1, <2>2
<1> QED BY <1>5

\* Max of a bounded set of naturals is one of them, and none is greater.
LEMMA MaxProperty ==
  ASSUME NEW S \in SUBSET Nat, NEW b \in Nat, \A n \in S : n <= b, S # {}
  PROVE  Max(S) \in S /\ \A n \in S : n <= Max(S)
<1>1. \E m \in S : \A n \in S : m >= n
  <2>1. PICK m \in S : \A n \in S : n <= m
    BY HasGreatest
  <2> QED BY <2>1
<1>2. Max(S) \in S /\ \A n \in S : Max(S) >= n
  BY <1>1 DEF Max
<1> QED BY <1>2

-----------------------------------------------------------------------------
(* The inductive invariant.                                                *)

\* After its deletion nothing refers to the bank; a subscription is to a version
\* that was published; and nobody asks for a bank that was never there.
PinsFit ==
    /\ bank = None => pubs = NoPublication
    /\ \A u \in User : subs[u] # None => subs[u] \in Known(pubs)
    /\ bank = None /\ ~ gone => \A w \in Worker : job[w] = Idle

Holds(j) == j.pc # "idle" /\ Locks(j.req)

\* The lock of the row is held by the one request at work that takes it, and
\* the row stays while it is held.
LockFits ==
    /\ \A w \in Worker : lock = w <=> Holds(job[w])
    /\ lock # None => bank # None

ShapeFits(j) ==
    /\ j.pc = "answer" => j.req.kind = "read"
    /\ j.pc = "commit" => j.req.kind # "read" /\ j.todo = {}
    /\ j.pc = "load" => j.todo \subseteq Needs(j.req)

\* What was read with the lock stays so, but for a subscription that is cancelled.
LockedFits(j) ==
    /\ j.pc # "idle" /\ j.req.kind = "publish" => j.row = bank /\ j.row.latest < MaxVersion
    /\ Holds(j) /\ "publications" \notin j.todo => j.active = ActiveVersion(pubs)
    /\ Holds(j) /\ j.req.kind = "select" /\ "subscriptions" \notin j.todo => subs[j.req.user] \in {j.own, None}
    /\ j.pc = "commit" /\ j.req.kind = "publish" => j.active = None
    /\ j.pc = "commit" /\ j.req.kind = "withdraw" => j.active # None
    /\ j.pc = "commit" /\ j.req.kind = "select" => j.active = j.req.version /\ j.own \notin {None, j.req.version}

\* What a reader has loaded, and did not find, was not there all the time.
LoadedFits(j, m) ==
    /\ "members" \notin j.todo /\ j.role = None => ByRole \notin m.always
    /\ "subscriptions" \notin j.todo /\ j.own = None => BySubscription \notin m.always
    /\ "publications" \notin j.todo /\ j.active = None => m.always \cap Version = {}

OpenSnapshots == {v \in ActiveVersions(pubs) : pubs[v].visibility = "public"}

\* What was read to show a version, m being the ways there were since the first read.
\* A version whose snapshot is public was open when it was published, or when the
\* row was read that says the bank is public.
TrackedFits(j, m) ==
    /\ j.pc = "load" /\ j.row.visibility = "public" => OpenSnapshots \subseteq m.ever
    /\ j.pc # "answer" /\ j.active # None => j.active \in m.ever /\ (bank # None => j.active \in Known(pubs))
    /\ j.pc = "load" /\ m.always \cap Version # {} => j.row.visibility = "public"
    /\ j.pc = "commit" => j.active # None
    /\ j.pc = "load" /\ j.req.kind = "read" => LoadedFits(j, m)
    /\ j.pc = "answer" => /\ j.shown \in Version => j.shown \in m.ever \cup {j.own}
                          /\ j.shown = None => m.always = {}

BInv ==
    /\ TypeOK
    /\ ActiveIsLatest
    /\ PinsFit
    /\ LockFits
    /\ \A w \in Worker : ShapeFits(job[w]) /\ LockedFits(job[w])
    /\ \A w \in Worker : Tracked(job[w]) => TrackedFits(job[w], met[w])

-----------------------------------------------------------------------------
(* Types.                                                                  *)

LEMMA RequestType ==
  ASSUME NEW q \in Request
  PROVE  /\ q.kind \in {"update", "delete", "publish", "withdraw", "subscribe", "unsubscribe", "add",
                        "remove", "share", "role", "unshare", "select", "read"}
         /\ q.kind = "read" => q.user \in User \cup {None}
         /\ q.kind # "read" => q.user \in User
         /\ q.kind = "update" => q.visibility \in Visibility \cup {None}
         /\ q.kind \in {"add", "remove"} => q.question \in Question
         /\ q.kind \in {"share", "role", "unshare"} => q.target \in User /\ q.role \in Role
         /\ q.kind = "select" => q.version \in Version
BY AskedAssumption DEF Request

Busy == [pc : {"load", "commit", "answer"}, req : Request, row : BankRow, todo : SUBSET Collection,
         role : Role \cup Manager \cup {None}, found : Role \cup {None}, items : SUBSET Question,
         active : Version \cup {None}, own : Version \cup {None}, shown : Version \cup {Live, None}]

LEMMA JobType ==
  ASSUME NEW j \in Job
  PROVE  /\ j.pc = "idle" <=> j = Idle
         /\ j # Idle <=> j \in Busy
         /\ j \in Busy => j.pc \in {"load", "commit", "answer"}
BY DEF Job, Idle, Busy

LEMMA IdleType == Idle \in Job /\ Idle.pc = "idle" /\ ~ Tracked(Idle) /\ ~ Holds(Idle)
BY DEF Job, Idle, Tracked, Holds

LEMMA BusyFields ==
  ASSUME NEW j \in Busy
  PROVE  /\ j \in Job /\ j # Idle /\ j.pc \in {"load", "commit", "answer"} /\ j.req \in Request
         /\ j.row \in BankRow /\ j.todo \in SUBSET Collection
         /\ j.role \in Role \cup Manager \cup {None} /\ j.found \in Role \cup {None}
         /\ j.items \in SUBSET Question /\ j.active \in Version \cup {None}
         /\ j.own \in Version \cup {None} /\ j.shown \in Version \cup {Live, None}
BY DEF Busy, Job, Idle

LEMMA RoleType ==
  ASSUME NEW u \in User \cup {None}, NEW m \in Roles
  PROVE  AccessRole(u, m) \in Role \cup Manager \cup {None}
BY UserAssumption DEF AccessRole, Roles, Manager

LEMMA NoRows == NoMember \in Roles /\ NoPublication \in Publications /\ NoSubscription \in Subscriptions
BY DEF NoMember, Roles, NoPublication, Publications, NoSubscription, Subscriptions

-----------------------------------------------------------------------------
(* Versions.                                                               *)

LEMMA ActiveIs ==
  ASSUME NEW p
  PROVE  \/ ActiveVersions(p) = {} /\ ActiveVersion(p) = None
         \/ /\ ActiveVersions(p) # {} /\ ActiveVersion(p) # None
            /\ ActiveVersion(p) \in ActiveVersions(p) /\ ActiveVersion(p) \in Version
<1>1. CASE ActiveVersions(p) = {}
  BY <1>1 DEF ActiveVersion
<1>2. CASE ActiveVersions(p) # {}
  <2>1. ActiveVersions(p) \in SUBSET Nat /\ \A n \in ActiveVersions(p) : n <= MaxVersion
    BY MaxVersionAssumption DEF ActiveVersions, Known, Version
  <2>2. Max(ActiveVersions(p)) \in ActiveVersions(p)
    BY <1>2, <2>1, MaxVersionAssumption, MaxProperty
  <2>3. ActiveVersions(p) \subseteq Version /\ None \notin Version
    BY NoneAssumption DEF ActiveVersions, Known
  <2> QED BY <1>2, <2>2, <2>3 DEF ActiveVersion
<1> QED BY <1>1, <1>2

\* When only the latest is active, the active version is any that is.
LEMMA OnlyActive ==
  ASSUME BInv, NEW v \in ActiveVersions(pubs)
  PROVE  ActiveVersion(pubs) = v /\ bank # None /\ v = bank.latest
<1>1. bank # None
  BY NoneAssumption DEF BInv, PinsFit, ActiveVersions, Known, NoPublication
<1>2. ActiveVersions(pubs) \subseteq {bank.latest}
  BY <1>1 DEF BInv, ActiveIsLatest
<1> QED BY <1>1, <1>2, ActiveIs

LEMMA OfferedIs ==
  ASSUME BInv, NEW row
  PROVE  /\ Offered(row, pubs) \in Version \cup {None}
         /\ Offered(row, pubs) # None =>
              Offered(row, pubs) \in OpenSnapshots /\ row.visibility = "public"
         /\ row.visibility = "public" /\ Offered(row, pubs) = None => OpenSnapshots = {}
<1>1. \/ ActiveVersion(pubs) = None /\ ActiveVersions(pubs) = {}
      \/ ActiveVersion(pubs) \in ActiveVersions(pubs) /\ ActiveVersion(pubs) \in Version
         /\ ActiveVersion(pubs) # None
  BY ActiveIs
<1>2. \A v \in ActiveVersions(pubs) : ActiveVersion(pubs) = v
  BY OnlyActive
<1> QED BY <1>1, <1>2 DEF Offered, OpenSnapshots

LEMMA WaysAre ==
  ASSUME NEW u
  PROVE  /\ Open \subseteq Version /\ Ways(u) \subseteq Way
         /\ Ways(u) \cap Version = Open
         /\ ByRole \in Ways(u) <=> bank # None /\ AccessRole(u, members) # None
         /\ BySubscription \in Ways(u) <=> u # None /\ subs[u] # None
         /\ Open \subseteq OpenSnapshots /\ (Open # {} => bank.visibility = "public")
BY WayAssumption DEF Open, Ways, Way, ActiveVersions, Known, OpenSnapshots

-----------------------------------------------------------------------------
(* The ways that are kept.                                                 *)

LEMMA MetType ==
  ASSUME Witness, BInv
  PROVE  met' \in [Worker -> [ever : SUBSET Version, always : SUBSET Way]]
<1>1. Open' \subseteq Version /\ \A w \in Worker : Ways(job[w].req.user)' \subseteq Way
  BY DEF Open, Ways, Way, ActiveVersions, Known
<1>2. met \in [Worker -> [ever : SUBSET Version, always : SUBSET Way]]
  BY DEF BInv, TypeOK
<1>3. \A w \in Worker : met'[w] \in [ever : SUBSET Version, always : SUBSET Way]
  BY <1>1, <1>2 DEF Witness, NoWay
<1> QED BY <1>3 DEF Witness

\* A request that goes on keeps, beside what was ever open, what was always there.
LEMMA MetGrows ==
  ASSUME Witness, NEW v \in Worker, job[v] # Idle, Tracked(job'[v]),
         job'[v] # job[v] \/ job[v].pc # "answer"
  PROVE  /\ met'[v].ever = met[v].ever \cup Open'
         /\ met'[v].always = met[v].always \cap Ways(job[v].req.user)'
BY DEF Witness

LEMMA MetStarts ==
  ASSUME Witness, NEW v \in Worker, job[v] = Idle, Tracked(job'[v])
  PROVE  /\ met'[v].ever = Open'
         /\ met'[v].always = Ways(job[v].req.user)'
<1>1. met'[v] = IF job'[v] = job[v] /\ job[v].pc = "answer" THEN met[v]
                ELSE IF job[v] = Idle THEN [ever |-> Open', always |-> Ways(job[v].req.user)']
                ELSE [ever |-> met[v].ever \cup Open',
                      always |-> met[v].always \cap Ways(job[v].req.user)']
  BY DEF Witness
<1>2. job[v].pc # "answer"
  BY DEF Idle
<1> QED BY <1>1, <1>2

LEMMA MetRests ==
  ASSUME Witness, NEW v \in Worker, job'[v] = job[v], Tracked(job'[v]), job[v].pc = "answer"
  PROVE  met'[v] = met[v]
BY DEF Witness

-----------------------------------------------------------------------------
(* The lock of the row, and the requests that do not act.                  *)

LEMMA LockMoves ==
  ASSUME BInv, NEW w \in Worker, NEW j \in Job, job' = [job EXCEPT ![w] = j],
         \/ lock' = lock /\ (Holds(j) <=> Holds(job[w]))
         \/ lock' = w /\ lock = None /\ Holds(j)
         \/ lock' = Freed(w) /\ ~ Holds(j),
         lock' # None => bank' # None
  PROVE  /\ LockFits' /\ lock' \in Worker \cup {None} /\ job' \in [Worker -> Job]
         /\ job'[w] = j /\ \A v \in Worker \ {w} : job'[v] = job[v]
<1>1. /\ job \in [Worker -> Job] /\ lock \in Worker \cup {None} /\ None \notin Worker
      /\ \A v \in Worker : lock = v <=> Holds(job[v])
  BY NoneAssumption DEF BInv, TypeOK, LockFits
<1>2. /\ job'[w] = j /\ job' \in [Worker -> Job] /\ \A v \in Worker \ {w} : job'[v] = job[v]
  BY <1>1
<1>3. \A v \in Worker : lock' = v <=> Holds(job'[v])
  <2> TAKE v \in Worker
  <2>1. CASE v = w
    BY <1>1, <1>2, <2>1 DEF Freed
  <2>2. CASE v # w
    <3>1. job'[v] = job[v]
      BY <1>2, <2>2
    <3> QED BY <1>1, <2>2, <3>1 DEF Freed
  <2> QED BY <2>1, <2>2
<1>4. lock' \in Worker \cup {None}
  BY <1>1 DEF Freed
<1> QED BY <1>2, <1>3, <1>4 DEF LockFits

\* A request that does not act, over a step that keeps the versions there are,
\* and all that it has locked.
LEMMA OthersFit ==
  ASSUME BInv, Witness, NEW v \in Worker, job'[v] = job[v], job[v] # Idle,
         OpenSnapshots' \subseteq OpenSnapshots \cup Open',
         Holds(job[v]) => bank' = bank /\ pubs' = pubs /\ \A u \in User : subs'[u] \in {subs[u], None},
         bank' # None => bank # None /\ Known(pubs) \subseteq Known(pubs')
  PROVE  /\ ShapeFits(job[v])' /\ LockedFits(job[v])'
         /\ (Tracked(job[v]) => TrackedFits(job[v], met[v]))'
<1> DEFINE j == job[v]
<1>1. j \in Busy /\ j.req \in Request /\ ShapeFits(j) /\ LockedFits(j) /\ (Tracked(j) => TrackedFits(j, met[v]))
  BY JobType, BusyFields DEF BInv, TypeOK
<1>2. ShapeFits(job[v])'
  BY <1>1 DEF ShapeFits
<1>3. LockedFits(job[v])'
  <2>1. j.req.kind \in {"publish", "withdraw", "select"} => Holds(j)
    BY <1>1, BusyFields DEF Holds, Locks
  <2>2. Holds(j) => ActiveVersion(pubs') = ActiveVersion(pubs)
    OBVIOUS
  <2>3. j.req.kind = "select" => j.req.user \in User
    BY <1>1, RequestType
  <2> HIDE DEF j
  <2>4. /\ j.pc # "idle" /\ j.req.kind = "publish" => j.row = bank' /\ j.row.latest < MaxVersion
        /\ Holds(j) /\ "publications" \notin j.todo => j.active = ActiveVersion(pubs')
        /\ Holds(j) /\ j.req.kind = "select" /\ "subscriptions" \notin j.todo =>
              subs'[j.req.user] \in {j.own, None}
        /\ j.pc = "commit" /\ j.req.kind = "publish" => j.active = None
        /\ j.pc = "commit" /\ j.req.kind = "withdraw" => j.active # None
        /\ j.pc = "commit" /\ j.req.kind = "select" => j.active = j.req.version /\ j.own \notin {None, j.req.version}
    BY <1>1, <2>1, <2>2, <2>3 DEF LockedFits, j
  <2> QED BY <2>4 DEF LockedFits, j, Holds
<1>4. ASSUME Tracked(j)
      PROVE  TrackedFits(job[v], met[v])'
  <2>0. Tracked(job'[v]) /\ TrackedFits(j, met[v])
    BY <1>1, <1>4
  <2>1. CASE j.pc = "answer"
    <3>1. met'[v] = met[v]
      BY <2>0, <2>1, MetRests
    <3> QED BY <2>0, <2>1, <3>1 DEF TrackedFits
  <2>2. CASE j.pc # "answer"
    <3>1. /\ met[v].ever \subseteq met'[v].ever /\ Open' \subseteq met'[v].ever
          /\ met'[v].always \subseteq met[v].always
      BY <2>0, <2>2, MetGrows
    <3>2. LoadedFits(j, met[v]) => LoadedFits(j, met'[v])
      BY <3>1 DEF LoadedFits
    <3> DEFINE m == met[v]
               n == met'[v]
    <3>3. m.ever \subseteq n.ever /\ Open' \subseteq n.ever /\ n.always \subseteq m.always
          /\ (LoadedFits(j, m) => LoadedFits(j, n))
      BY <3>1, <3>2
    <3> HIDE DEF j, m, n
    <3>4. /\ j.pc = "load" /\ j.row.visibility = "public" => OpenSnapshots' \subseteq n.ever
          /\ j.pc # "answer" /\ j.active # None =>
                j.active \in n.ever /\ (bank' # None => j.active \in Known(pubs'))
          /\ j.pc = "load" /\ n.always \cap Version # {} => j.row.visibility = "public"
          /\ j.pc = "commit" => j.active # None
          /\ j.pc = "load" /\ j.req.kind = "read" => LoadedFits(j, n)
      BY <2>0, <3>3 DEF TrackedFits, m
    <3> QED BY <2>2, <3>4 DEF TrackedFits, j, n
  <2> QED BY <2>1, <2>2
<1> QED BY <1>2, <1>3, <1>4

\* A step of one request that leaves the rows alone.
LEMMA QuietStep ==
  ASSUME BInv, UNCHANGED rows, Witness, NEW w \in Worker, NEW j \in Job, job' = [job EXCEPT ![w] = j],
         job[w] # Idle \/ bank # None,
         \/ lock' = lock /\ (Holds(j) <=> Holds(job[w]))
         \/ lock' = w /\ lock = None /\ Holds(j)
         \/ lock' = Freed(w) /\ ~ Holds(j),
         lock' = w => bank # None,
         ShapeFits(j), LockedFits(j), Tracked(j) => TrackedFits(j, met'[w])
  PROVE  BInv'
<1>1. UNCHANGED <<bank, gone, items, members, pubs, subs>>
  BY DEF rows
<1>2. lock' # None => bank' # None
  BY <1>1 DEF BInv, LockFits, Freed
<1>3. /\ LockFits' /\ lock' \in Worker \cup {None} /\ job' \in [Worker -> Job]
      /\ job'[w] = j /\ \A v \in Worker \ {w} : job'[v] = job[v]
  BY <1>2, LockMoves
<1>4. TypeOK'
  BY <1>1, <1>3, MetType DEF BInv, TypeOK
<1>5. ActiveIsLatest'
  BY <1>1 DEF BInv, ActiveIsLatest
<1>6. PinsFit'
  BY <1>1, <1>3 DEF BInv, PinsFit
<1>7. ASSUME NEW v \in Worker
      PROVE  /\ ShapeFits(job[v])' /\ LockedFits(job[v])'
             /\ (Tracked(job[v]) => TrackedFits(job[v], met[v]))'
  <2>1. CASE v = w
    <3>1. ShapeFits(job[v])' /\ LockedFits(job[v])'
      BY <1>1, <1>3, <2>1 DEF ShapeFits, LockedFits
    <3>2. OpenSnapshots' = OpenSnapshots
      BY <1>1 DEF OpenSnapshots
    <3>3. (Tracked(job[v]) => TrackedFits(job[v], met[v]))'
      BY <1>1, <1>3, <2>1, <3>2 DEF TrackedFits, LoadedFits
    <3> QED BY <3>1, <3>3
  <2>2. CASE v # w /\ job[v] # Idle
    <3>1. OpenSnapshots' = OpenSnapshots
      BY <1>1 DEF OpenSnapshots
    <3>2. bank' # None => bank # None /\ Known(pubs) \subseteq Known(pubs')
      BY <1>1
    <3>3. \A u \in User : subs'[u] \in {subs[u], None}
      BY <1>1
    <3> QED BY <1>1, <1>3, <2>2, <3>1, <3>2, <3>3, OthersFit
  <2>3. CASE v # w /\ job[v] = Idle
    BY <1>3, <2>3, IdleType DEF ShapeFits, LockedFits, Idle, Tracked, Holds
  <2> QED BY <2>1, <2>2, <2>3
<1> QED BY <1>3, <1>4, <1>5, <1>6, <1>7 DEF BInv

-----------------------------------------------------------------------------
(* A request begins.                                                       *)

LEMMA BeginKeeps ==
  ASSUME BInv, Witness, NEW w \in Worker, NEW q \in Request, Begin(w, q),
         q.kind = "publish" => bank.latest < MaxVersion
  PROVE  BInv'
<1> DEFINE j == [pc |-> IF Needs(q) = {} THEN "commit" ELSE "load", req |-> q, row |-> Row(q),
                 todo |-> Needs(q), role |-> AccessRole(q.user, NoMember), found |-> None,
                 items |-> {}, active |-> None, own |-> None, shown |-> None]
<1>1. /\ job[w] = Idle /\ bank # None /\ job' = [job EXCEPT ![w] = j] /\ UNCHANGED rows
      /\ Locks(q) => lock = None
      /\ lock' = IF Locks(q) THEN w ELSE lock
  BY DEF Begin
<1>2. bank \in BankRow /\ UNCHANGED <<bank, gone, items, members, pubs, subs>>
  BY <1>1 DEF BInv, TypeOK, rows
<1>3. Row(q) \in BankRow /\ Row(q).visibility = bank.visibility /\ (q.kind = "publish" => Row(q) = bank)
  BY <1>2, MaxVersionAssumption DEF Row, BankRow
<1>4. Needs(q) \in SUBSET Collection
  BY RequestType DEF Needs, Collection
<1>5. AccessRole(q.user, NoMember) \in Role \cup Manager \cup {None}
  BY RequestType, RoleType, NoRows
<1>6. j \in Busy
  BY <1>3, <1>4, <1>5 DEF Busy
<1>7. /\ j.req = q /\ j.row = Row(q) /\ j.todo = Needs(q) /\ j.active = None /\ j.own = None
      /\ j.pc = (IF Needs(q) = {} THEN "commit" ELSE "load")
  OBVIOUS
<1> HIDE DEF j
<1>8. j \in Job /\ j # Idle
  BY <1>6, BusyFields
<1>9. ShapeFits(j)
  BY <1>4, <1>7, RequestType DEF ShapeFits, Needs
<1>10. LockedFits(j)
  <2>1. CASE Locks(q)
    BY <1>3, <1>7, <2>1 DEF LockedFits, Locks, Needs
  <2>2. CASE ~ Locks(q)
    BY <1>7, <2>2 DEF LockedFits, Locks, Needs, Holds
  <2> QED BY <2>1, <2>2
<1>11. ASSUME Tracked(j)
       PROVE  TrackedFits(j, met'[w])
  <2>1. q.kind \in {"read", "subscribe"} /\ j.pc = "load"
    BY <1>7, <1>11 DEF Tracked, Needs
  <2>2. job'[w] = j
    BY <1>1 DEF BInv, TypeOK
  <2>3. met'[w].ever = Open' /\ met'[w].always = Ways(job[w].req.user)'
    BY <1>1, <1>11, <2>2, MetStarts
  <2>4. Open' = Open /\ Ways(job[w].req.user)' = Ways(q.user)
    BY <1>2, <1>7, <2>2 DEF Open, Ways
  <2>5. bank.visibility = "public" => OpenSnapshots \subseteq Open
    BY DEF Open, OpenSnapshots
  <2>6. Ways(q.user) \cap Version # {} => bank.visibility = "public"
    BY WaysAre
  <2> QED BY <1>3, <1>7, <2>1, <2>3, <2>4, <2>5, <2>6 DEF TrackedFits, LoadedFits, Needs
<1>12. \/ lock' = lock /\ (Holds(j) <=> Holds(job[w]))
       \/ lock' = w /\ lock = None /\ Holds(j)
  BY <1>1, <1>6, <1>7, IdleType, BusyFields DEF Holds
<1> QED BY <1>1, <1>8, <1>9, <1>10, <1>11, <1>12, QuietStep

LEMMA RequestsKeep ==
  ASSUME BInv, Witness, NEW w \in Worker,
         \/ UpdateRequest(w) \/ DeleteRequest(w) \/ PublishRequest(w) \/ WithdrawRequest(w)
         \/ ItemRequest(w) \/ MemberRequest(w) \/ SubscribeRequest(w) \/ SelectRequest(w)
         \/ UnsubscribeRequest(w) \/ ReadRequest(w)
  PROVE  BInv'
<1>0. Managers \subseteq User /\ Reader \subseteq User \cup {None} /\ Given \subseteq Role
  BY UserAssumption, ReaderAssumption, AskedAssumption DEF Managers
<1>1. CASE UpdateRequest(w)
  <2>1. PICK u \in Managers, s \in Asked \cup {None} :
          Begin(w, [kind |-> "update", user |-> u, visibility |-> s])
    BY <1>1 DEF UpdateRequest
  <2>2. [kind |-> "update", user |-> u, visibility |-> s] \in Request
    BY <1>0 DEF Request
  <2> QED BY <2>1, <2>2, BeginKeeps
<1>2. CASE DeleteRequest(w) \/ WithdrawRequest(w) \/ SubscribeRequest(w) \/ UnsubscribeRequest(w)
  <2>1. PICK u \in User, k \in {"delete", "withdraw", "subscribe", "unsubscribe"} :
          Begin(w, [kind |-> k, user |-> u])
    BY <1>0, <1>2 DEF DeleteRequest, WithdrawRequest, SubscribeRequest, UnsubscribeRequest
  <2>2. [kind |-> k, user |-> u] \in Request
    BY DEF Request
  <2> QED BY <2>1, <2>2, BeginKeeps
<1>3. CASE PublishRequest(w)
  <2>1. PICK u \in Managers : bank.latest < MaxVersion /\ Begin(w, [kind |-> "publish", user |-> u])
    BY <1>3 DEF PublishRequest
  <2>2. [kind |-> "publish", user |-> u] \in Request
    BY <1>0 DEF Request
  <2> QED BY <2>1, <2>2, BeginKeeps
<1>4. CASE ItemRequest(w)
  <2>1. PICK k \in {"add", "remove"}, u \in User, q \in Question :
          Begin(w, [kind |-> k, user |-> u, question |-> q])
    BY <1>4 DEF ItemRequest
  <2>2. [kind |-> k, user |-> u, question |-> q] \in Request
    BY DEF Request
  <2> QED BY <2>1, <2>2, BeginKeeps
<1>5. CASE MemberRequest(w)
  <2>1. PICK k \in {"share", "role", "unshare"}, u \in Managers, t \in User \ {Owner}, r \in Given :
          Begin(w, [kind |-> k, user |-> u, target |-> t, role |-> r])
    BY <1>5 DEF MemberRequest
  <2>2. [kind |-> k, user |-> u, target |-> t, role |-> r] \in Request
    BY <1>0 DEF Request
  <2> QED BY <2>1, <2>2, BeginKeeps
<1>6. CASE SelectRequest(w)
  <2>1. PICK u \in User, v \in Version : Begin(w, [kind |-> "select", user |-> u, version |-> v])
    BY <1>0, <1>6 DEF SelectRequest
  <2>2. [kind |-> "select", user |-> u, version |-> v] \in Request
    BY DEF Request
  <2> QED BY <2>1, <2>2, BeginKeeps
<1>7. CASE ReadRequest(w)
  <2>1. PICK u \in User \cup {None} : Begin(w, [kind |-> "read", user |-> u])
    BY <1>0, <1>7 DEF ReadRequest
  <2>2. [kind |-> "read", user |-> u] \in Request
    BY DEF Request
  <2> QED BY <2>1, <2>2, BeginKeeps
<1> QED BY <1>1, <1>2, <1>3, <1>4, <1>5, <1>6, <1>7

\* A request that ends without a write.
LEMMA EndsQuietly ==
  ASSUME BInv, UNCHANGED rows, Witness, NEW w \in Worker, job[w] # Idle,
         job' = [job EXCEPT ![w] = Idle], lock' = Freed(w) \/ (lock' = lock /\ ~ Holds(job[w]))
  PROVE  BInv'
<1>1. ShapeFits(Idle) /\ LockedFits(Idle)
  BY DEF ShapeFits, LockedFits, Idle, Holds
<1>2. lock' = w => FALSE
  BY NoneAssumption DEF BInv, LockFits, Freed
<1> QED BY <1>1, <1>2, IdleType, QuietStep

LEMMA AnswerKeeps ==
  ASSUME BInv, Witness, NEW w \in Worker, Answer(w)
  PROVE  BInv'
<1>1. /\ job[w].pc = "answer" /\ job' = [job EXCEPT ![w] = Idle] /\ UNCHANGED <<rows, lock>>
  BY DEF Answer
<1>2. job[w].req.kind = "read" /\ job[w] # Idle
  BY <1>1 DEF BInv, ShapeFits, Idle
<1>3. ~ Holds(job[w])
  BY <1>2 DEF Holds, Locks
<1> QED BY <1>1, <1>2, <1>3, EndsQuietly

LEMMA FailKeeps ==
  ASSUME BInv, Witness, NEW w \in Worker, Fail(w)
  PROVE  BInv'
<1>1. job[w].pc = "commit" /\ job' = [job EXCEPT ![w] = Idle] /\ UNCHANGED rows /\ lock' = Freed(w)
  BY DEF Fail
<1>2. job[w] # Idle
  BY <1>1 DEF Idle
<1> QED BY <1>1, <1>2, EndsQuietly

-----------------------------------------------------------------------------
(* The reads.                                                              *)

LEMMA FilledType ==
  ASSUME BInv, NEW i \in Busy, i.pc = "load", NEW c \in Collection
  PROVE  /\ Filled(i, c) \in Busy /\ Filled(i, c).pc = "load"
         /\ Filled(i, c).req = i.req /\ Filled(i, c).row = i.row /\ Filled(i, c).todo = i.todo
         /\ Filled(i, c).role = IF c = "members" THEN AccessRole(i.req.user, members) ELSE i.role
         /\ Filled(i, c).active =
              IF c # "publications" THEN i.active
              ELSE IF i.req.kind \in {"read", "subscribe"} THEN Offered(i.row, pubs) ELSE ActiveVersion(pubs)
         /\ Filled(i, c).own =
              IF c # "subscriptions" THEN i.own ELSE IF i.req.user = None THEN None ELSE subs[i.req.user]
<1>0. /\ items \subseteq Question /\ members \in Roles /\ subs \in Subscriptions
      /\ i.req \in Request
  BY BusyFields DEF BInv, TypeOK
<1>1. CASE c = "items"
  <2>1. Filled(i, c) = [i EXCEPT !.items = items]
    BY <1>1 DEF Filled
  <2> QED BY <1>0, <1>1, <2>1 DEF Busy
<1>2. CASE c = "members"
  <2> DEFINE r == AccessRole(i.req.user, members)
             f == IF About(i.req) THEN members[i.req.target] ELSE None
  <2>1. r \in Role \cup Manager \cup {None}
    BY <1>0, RequestType, RoleType
  <2>2. f \in Role \cup {None}
    BY <1>0, RequestType DEF About, Roles
  <2>3. Filled(i, c) = [i EXCEPT !.role = r, !.found = f]
    BY <1>2 DEF Filled
  <2> HIDE DEF r, f
  <2>4. /\ Filled(i, c) \in Busy /\ Filled(i, c).pc = "load" /\ Filled(i, c).role = r
        /\ Filled(i, c).req = i.req /\ Filled(i, c).row = i.row /\ Filled(i, c).todo = i.todo
        /\ Filled(i, c).active = i.active /\ Filled(i, c).own = i.own
    BY <2>1, <2>2, <2>3 DEF Busy
  <2> QED BY <1>2, <2>4 DEF r
<1>3. CASE c = "publications"
  <2> DEFINE a == IF i.req.kind \in {"read", "subscribe"} THEN Offered(i.row, pubs) ELSE ActiveVersion(pubs)
  <2>1. a \in Version \cup {None}
    BY OfferedIs, ActiveIs
  <2>2. Filled(i, c) = [i EXCEPT !.active = a]
    BY <1>3 DEF Filled
  <2> HIDE DEF a
  <2>3. /\ Filled(i, c) \in Busy /\ Filled(i, c).pc = "load" /\ Filled(i, c).active = a
        /\ Filled(i, c).req = i.req /\ Filled(i, c).row = i.row /\ Filled(i, c).todo = i.todo
        /\ Filled(i, c).role = i.role /\ Filled(i, c).own = i.own
    BY <2>1, <2>2 DEF Busy
  <2> QED BY <1>3, <2>3 DEF a
<1>4. CASE c = "subscriptions"
  <2> DEFINE o == IF i.req.user = None THEN None ELSE subs[i.req.user]
  <2>1. o \in Version \cup {None}
    BY <1>0, RequestType DEF Subscriptions
  <2>2. Filled(i, c) = [i EXCEPT !.own = o]
    BY <1>4 DEF Filled
  <2> HIDE DEF o
  <2>3. /\ Filled(i, c) \in Busy /\ Filled(i, c).pc = "load" /\ Filled(i, c).own = o
        /\ Filled(i, c).req = i.req /\ Filled(i, c).row = i.row /\ Filled(i, c).todo = i.todo
        /\ Filled(i, c).role = i.role /\ Filled(i, c).active = i.active
    BY <2>1, <2>2 DEF Busy
  <2> QED BY <1>4, <2>3 DEF o
<1> QED BY <1>1, <1>2, <1>3, <1>4 DEF Collection

LEMMA LeftType ==
  ASSUME NEW i \in Busy, NEW c
  PROVE  /\ Left(i, c) \in Busy /\ Left(i, c).pc = i.pc /\ Left(i, c).req = i.req /\ Left(i, c).row = i.row
         /\ Left(i, c).role = i.role /\ Left(i, c).active = i.active /\ Left(i, c).own = i.own
         /\ Left(i, c).items = i.items /\ Left(i, c).found = i.found
         /\ Left(i, c).todo = IF i.req.kind = "read" /\ i.role # None THEN {} ELSE i.todo \ {c}
<1> DEFINE t == IF i.req.kind = "read" /\ i.role # None THEN {} ELSE i.todo \ {c}
<1>1. t \in SUBSET Collection
  BY BusyFields
<1>2. Left(i, c) = [i EXCEPT !.todo = t]
  BY DEF Left
<1> HIDE DEF t
<1>3. /\ Left(i, c) \in Busy /\ Left(i, c).pc = i.pc /\ Left(i, c).req = i.req /\ Left(i, c).row = i.row
      /\ Left(i, c).role = i.role /\ Left(i, c).active = i.active /\ Left(i, c).own = i.own
      /\ Left(i, c).items = i.items /\ Left(i, c).found = i.found /\ Left(i, c).todo = t
  BY <1>1, <1>2 DEF Busy
<1> QED BY <1>3 DEF t

Committing(j) == [Forget(j) EXCEPT !.pc = "commit"]
Answering(j) == [Forget(j) EXCEPT !.pc = "answer", !.shown = Shown(j), !.active = None,
                                  !.own = IF Shown(j) = j.own THEN j.own ELSE None]

LEMMA CommittingType ==
  ASSUME NEW j \in Busy
  PROVE  /\ Committing(j) \in Busy /\ Committing(j).pc = "commit" /\ Committing(j).req = j.req
         /\ Committing(j).row = j.row /\ Committing(j).todo = j.todo
         /\ Committing(j).active = j.active /\ Committing(j).own = j.own
<1>1. Forget(j) = [j EXCEPT !.items = {}, !.role = None]
  BY DEF Forget
<1>2. /\ Forget(j) \in Busy /\ Forget(j).req = j.req /\ Forget(j).row = j.row /\ Forget(j).todo = j.todo
      /\ Forget(j).active = j.active /\ Forget(j).own = j.own
  BY <1>1 DEF Busy
<1> QED BY <1>2 DEF Committing, Busy

LEMMA AnsweringType ==
  ASSUME NEW j \in Busy
  PROVE  /\ Answering(j) \in Busy /\ Answering(j).pc = "answer" /\ Answering(j).req = j.req
         /\ Answering(j).shown = Shown(j) /\ (Shown(j) = j.own => Answering(j).own = j.own)
<1>1. Forget(j) = [j EXCEPT !.items = {}, !.role = None]
  BY DEF Forget
<1>2. Forget(j) \in Busy /\ Forget(j).req = j.req
  BY <1>1 DEF Busy
<1>3. Shown(j) \in Version \cup {Live, None}
  BY BusyFields DEF Shown, Readable
<1> DEFINE s == Shown(j)
           o == IF s = j.own THEN j.own ELSE None
<1>4. o \in Version \cup {None}
  BY BusyFields
<1>5. Answering(j) = [Forget(j) EXCEPT !.pc = "answer", !.shown = s, !.active = None, !.own = o]
  BY DEF Answering
<1>6. s \in Version \cup {Live, None}
  BY <1>3
<1>7. s = j.own => o = j.own
  OBVIOUS
<1> HIDE DEF s, o
<1>8. /\ Answering(j) \in Busy /\ Answering(j).pc = "answer" /\ Answering(j).req = j.req
      /\ Answering(j).shown = s /\ Answering(j).own = o
  BY <1>2, <1>4, <1>5, <1>6 DEF Busy
<1> QED BY <1>7, <1>8 DEF s

\* What a reader has loaded, with one collection more.
LEMMA LoadedMore ==
  ASSUME BInv, NEW i \in Busy, i.pc = "load", NEW c \in i.todo, Tracked(i), NEW m, NEW n,
         m.always \subseteq Way,
         TrackedFits(i, m), n.ever = m.ever \cup Open, n.always = m.always \cap Ways(i.req.user),
         NEW j, j = Left(Filled(i, c), c)
  PROVE  /\ j.active # None => j.active \in n.ever /\ (bank # None => j.active \in Known(pubs))
         /\ j.req.kind = "read" /\ j.todo = i.todo \ {c} => LoadedFits(j, n)
<1>1. c \in Collection /\ i.req.kind \in {"read", "subscribe"} /\ i.req \in Request
  BY BusyFields DEF Tracked
<1>2. /\ j.req = i.req /\ j.row = i.row
      /\ j.role = IF c = "members" THEN AccessRole(i.req.user, members) ELSE i.role
      /\ j.active = IF c = "publications" THEN Offered(i.row, pubs) ELSE i.active
      /\ j.own = IF c # "subscriptions" THEN i.own ELSE IF i.req.user = None THEN None ELSE subs[i.req.user]
  <2> DEFINE k == Filled(i, c)
  <2>1. /\ k \in Busy /\ k.req = i.req /\ k.row = i.row
        /\ k.role = IF c = "members" THEN AccessRole(i.req.user, members) ELSE i.role
        /\ k.active = IF c = "publications" THEN Offered(i.row, pubs) ELSE i.active
        /\ k.own = IF c # "subscriptions" THEN i.own ELSE IF i.req.user = None THEN None ELSE subs[i.req.user]
    BY <1>1, FilledType
  <2>2. j = Left(k, c)
    OBVIOUS
  <2> HIDE DEF k
  <2>3. j.req = k.req /\ j.row = k.row /\ j.role = k.role /\ j.active = k.active /\ j.own = k.own
    <3>1. k \in Busy
      BY <2>1
    <3>2. /\ Left(k, c).req = k.req /\ Left(k, c).row = k.row
          /\ Left(k, c).role = k.role /\ Left(k, c).active = k.active /\ Left(k, c).own = k.own
      BY ONLY <3>1, LeftType
    <3> QED BY ONLY <2>2, <3>2
  <2> QED BY <2>1, <2>3
<1>3. j.active # None => j.active \in n.ever /\ (bank # None => j.active \in Known(pubs))
  <2>1. CASE c = "publications"
    <3> HAVE j.active # None
    <3>1. j.active \in OpenSnapshots /\ i.row.visibility = "public"
      BY <1>2, <2>1, OfferedIs
    <3> QED BY <3>1 DEF TrackedFits, OpenSnapshots, ActiveVersions
  <2>2. CASE c # "publications"
    BY <1>2, <2>2 DEF TrackedFits
  <2> QED BY <2>1, <2>2
<1>4. ASSUME j.req.kind = "read", j.todo = i.todo \ {c}
      PROVE  LoadedFits(j, n)
  <2>1. LoadedFits(i, m) /\ i.req.user \in User \cup {None}
    BY <1>1, <1>2, <1>4, RequestType DEF TrackedFits
  <2>2. "members" \notin j.todo /\ j.role = None => ByRole \notin n.always
    <3>1. CASE c = "members"
      BY <1>2, <3>1, WaysAre
    <3>2. CASE c # "members"
      BY <1>2, <1>4, <2>1, <3>2 DEF LoadedFits
    <3> QED BY <3>1, <3>2
  <2>3. "subscriptions" \notin j.todo /\ j.own = None => BySubscription \notin n.always
    <3>1. CASE c = "subscriptions"
      BY <1>2, <3>1, WaysAre
    <3>2. CASE c # "subscriptions"
      BY <1>2, <1>4, <2>1, <3>2 DEF LoadedFits
    <3> QED BY <3>1, <3>2
  <2>4. "publications" \notin j.todo /\ j.active = None => n.always \cap Version = {}
    <3>1. CASE c = "publications"
      <4> SUFFICES ASSUME NEW v \in n.always \cap Version, j.active = None
                   PROVE  FALSE
        OBVIOUS
      <4>1. v \in OpenSnapshots
        BY WaysAre
      <4>2. i.row.visibility = "public"
        BY DEF TrackedFits
      <4> QED BY <1>2, <3>1, <4>1, <4>2, OfferedIs
    <3>2. CASE c # "publications"
      BY <1>2, <1>4, <2>1, <3>2 DEF LoadedFits
    <3> QED BY <3>1, <3>2
  <2> QED BY <2>2, <2>3, <2>4 DEF LoadedFits
<1> QED BY <1>3, <1>4

\* What is read under the lock is what there is.
LEMMA LoadedLocked ==
  ASSUME BInv, NEW i \in Busy, i.pc = "load", NEW c \in i.todo, LockedFits(i)
  PROVE  LockedFits(Left(Filled(i, c), c))
<1> DEFINE k == Filled(i, c)
           j == Left(k, c)
<1>1. c \in Collection /\ i.req \in Request
  BY BusyFields
<1>2. /\ k \in Busy /\ k.pc = "load" /\ k.req = i.req /\ k.row = i.row /\ k.todo = i.todo
      /\ k.active = IF c # "publications" THEN i.active
                    ELSE IF i.req.kind \in {"read", "subscribe"} THEN Offered(i.row, pubs) ELSE ActiveVersion(pubs)
      /\ k.own = IF c # "subscriptions" THEN i.own ELSE IF i.req.user = None THEN None ELSE subs[i.req.user]
  BY <1>1, FilledType
<1>3. /\ j.pc = "load" /\ j.req = i.req /\ j.row = i.row /\ j.active = k.active /\ j.own = k.own
      /\ j.req.kind # "read" => j.todo = i.todo \ {c}
  <2> HIDE DEF k, j
  <2>1. /\ j.pc = k.pc /\ j.req = k.req /\ j.row = k.row /\ j.active = k.active /\ j.own = k.own
        /\ j.todo = IF k.req.kind = "read" /\ k.role # None THEN {} ELSE k.todo \ {c}
    BY <1>2, LeftType DEF j
  <2> QED BY <1>2, <2>1
<1>4. i.req.kind = "select" => i.req.user \in User /\ i.req.user # None
  BY <1>1, RequestType, UserAssumption
<1> HIDE DEF k, j
<1>5. Holds(j) => Holds(i) /\ j.req.kind \notin {"read", "subscribe"}
  BY <1>3, RequestType DEF Holds, Locks
<1>6. j.pc # "idle" /\ j.req.kind = "publish" => j.row = bank /\ j.row.latest < MaxVersion
  BY <1>3 DEF LockedFits
<1>7. Holds(j) /\ "publications" \notin j.todo => j.active = ActiveVersion(pubs)
  BY <1>2, <1>3, <1>5 DEF LockedFits
<1>8. Holds(j) /\ j.req.kind = "select" /\ "subscriptions" \notin j.todo => subs[j.req.user] \in {j.own, None}
  BY <1>2, <1>3, <1>4, <1>5 DEF LockedFits
<1> QED BY <1>3, <1>6, <1>7, <1>8 DEF LockedFits, j, k

\* The answer to a reader who has loaded what it is answered with.
LEMMA AnswerFits ==
  ASSUME NEW j \in Busy, NEW n, n.always \subseteq Way, j.todo = {},
         j.active # None => j.active \in n.ever,
         j.role = None => LoadedFits(j, n)
  PROVE  TrackedFits(Answering(j), n)
<1>1. /\ Answering(j).pc = "answer" /\ Answering(j).shown = Shown(j)
      /\ Shown(j) = j.own => Answering(j).own = j.own
  BY AnsweringType
<1>2. Live \notin Version \cup {None}
  BY WayAssumption
<1>3. Shown(j) \in Version => Shown(j) \in n.ever \cup {Answering(j).own}
  BY <1>1, <1>2 DEF Shown, Readable
<1>4. Shown(j) = None => n.always = {}
  <2> HAVE Shown(j) = None
  <2>1. j.role = None /\ j.active = None /\ j.own = None
    BY <1>2 DEF Shown, Readable
  <2>2. ByRole \notin n.always /\ BySubscription \notin n.always /\ n.always \cap Version = {}
    BY <2>1 DEF LoadedFits
  <2> QED BY <2>2 DEF Way
<1> QED BY <1>1, <1>3, <1>4 DEF TrackedFits

LEMMA LoadKeeps ==
  ASSUME BInv, Witness, NEW w \in Worker, NEW c \in Collection, Load(w, c)
  PROVE  BInv'
<1> DEFINE i == job[w]
           j == Left(Filled(i, c), c)
           m == met[w]
           n == met'[w]
<1>1. /\ i.pc = "load" /\ c \in i.todo /\ UNCHANGED rows
      /\ \/ j.todo # {} /\ job' = [job EXCEPT ![w] = j] /\ UNCHANGED lock
         \/ j.todo = {} /\ j.req.kind = "read" /\ job' = [job EXCEPT ![w] = Answering(j)] /\ UNCHANGED lock
         \/ /\ j.todo = {} /\ j.req.kind # "read" /\ Changes(j)
            /\ job' = [job EXCEPT ![w] = Committing(j)] /\ UNCHANGED lock
         \/ job' = [job EXCEPT ![w] = Idle] /\ lock' = Freed(w)
  BY DEF Load, Answering, Committing
<1>2. i \in Busy /\ i # Idle /\ ShapeFits(i) /\ LockedFits(i) /\ (Tracked(i) => TrackedFits(i, m))
  <2>1. i \in Job /\ i # Idle
    BY <1>1 DEF BInv, TypeOK, Idle
  <2> QED BY <2>1, JobType DEF BInv
<1>3. Filled(i, c) \in Busy /\ Filled(i, c).pc = "load" /\ Filled(i, c).req = i.req /\ Filled(i, c).row = i.row
      /\ Filled(i, c).todo = i.todo
  BY <1>1, <1>2, FilledType
<1>4. /\ j \in Busy /\ j.pc = "load" /\ j.req = i.req /\ j.row = i.row
      /\ j.todo # {} \/ i.req.kind # "read" \/ j.role = None => j.todo = i.todo \ {c}
  <2> DEFINE k == Filled(i, c)
  <2> HIDE DEF k, i
  <2>1. /\ Left(k, c) \in Busy /\ Left(k, c).pc = k.pc /\ Left(k, c).req = k.req /\ Left(k, c).row = k.row
        /\ Left(k, c).role = k.role
        /\ Left(k, c).todo = IF k.req.kind = "read" /\ k.role # None THEN {} ELSE k.todo \ {c}
    BY <1>3, LeftType DEF k
  <2>2. k.pc = "load" /\ k.req = i.req /\ k.row = i.row /\ k.todo = i.todo
    BY <1>3 DEF k
  <2>3. /\ Left(k, c) \in Busy /\ Left(k, c).pc = "load" /\ Left(k, c).req = i.req /\ Left(k, c).row = i.row
        /\ Left(k, c).todo # {} \/ i.req.kind # "read" \/ Left(k, c).role = None =>
               Left(k, c).todo = i.todo \ {c}
    BY <2>1, <2>2
  <2> QED BY <2>3 DEF k
<1>5. i.req \in Request
  BY <1>2, BusyFields
<1>6. LockedFits(j)
  BY <1>1, <1>2, LoadedLocked
<1>7. UNCHANGED <<bank, gone, items, members, pubs, subs>>
  BY <1>1 DEF rows
<1>8. job \in [Worker -> Job] /\ met[w] \in [ever : SUBSET Version, always : SUBSET Way]
  BY DEF BInv, TypeOK
<1>9. ASSUME NEW l, job' = [job EXCEPT ![w] = l], Tracked(l), l.req = i.req
      PROVE  /\ n.ever = m.ever \cup Open /\ n.always = m.always \cap Ways(i.req.user)
             /\ Tracked(i) /\ n.always \subseteq Way
  <2>1. job'[w] = l
    BY <1>8, <1>9
  <2>2. n.ever = m.ever \cup Open' /\ n.always = m.always \cap Ways(job[w].req.user)'
    BY <1>1, <1>2, <1>9, <2>1, MetGrows
  <2>3. Open' = Open /\ Ways(job[w].req.user)' = Ways(i.req.user)
    BY <1>7, <1>9, <2>1 DEF Open, Ways
  <2>4. Tracked(i)
    BY <1>2, <1>9 DEF Tracked
  <2> QED BY <1>8, <2>2, <2>3, <2>4
<1>10. ASSUME NEW l, job' = [job EXCEPT ![w] = l], Tracked(l), l.req = i.req
       PROVE  /\ j.active # None => j.active \in n.ever /\ (bank # None => j.active \in Known(pubs))
              /\ j.req.kind = "read" /\ j.todo = i.todo \ {c} => LoadedFits(j, n)
  BY <1>1, <1>2, <1>8, <1>9, <1>10, LoadedMore
<1> HIDE DEF i, j, m, n
<1>11. CASE j.todo # {} /\ job' = [job EXCEPT ![w] = j] /\ UNCHANGED lock
  <2>1. ShapeFits(j)
    BY <1>2, <1>1, <1>4, <1>11 DEF ShapeFits
  <2>2. Holds(j) <=> Holds(i)
    BY <1>1, <1>4 DEF Holds
  <2>3. ASSUME Tracked(j)
        PROVE  TrackedFits(j, n)
    <3>1. n.ever = m.ever \cup Open /\ n.always = m.always \cap Ways(i.req.user) /\ Tracked(i)
      BY <1>4, <1>9, <1>11, <2>3
    <3>2. /\ j.active # None => j.active \in n.ever /\ (bank # None => j.active \in Known(pubs))
          /\ j.req.kind = "read" => LoadedFits(j, n)
      BY <1>4, <1>10, <1>11, <2>3
    <3>3. TrackedFits(i, m)
      BY <1>2, <3>1
    <3>4. j.row.visibility = "public" => OpenSnapshots \subseteq n.ever
      BY <1>1, <1>4, <3>1, <3>3 DEF TrackedFits
    <3>5. n.always \cap Version # {} => j.row.visibility = "public"
      BY <1>1, <1>4, <3>1, <3>3 DEF TrackedFits
    <3> QED BY <1>4, <3>2, <3>4, <3>5 DEF TrackedFits
  <2>4. j \in Job
    BY <1>4, BusyFields
  <2>5. lock' = w => bank # None
    BY <1>11, NoneAssumption DEF BInv, LockFits
  <2> QED BY <1>1, <1>2, <1>6, <1>11, <2>1, <2>2, <2>3, <2>4, <2>5, QuietStep DEF i, n
<1>12. CASE j.todo = {} /\ j.req.kind = "read" /\ job' = [job EXCEPT ![w] = Answering(j)] /\ UNCHANGED lock
  <2> DEFINE a == Answering(j)
  <2>1. a \in Busy /\ a.pc = "answer" /\ a.req = j.req
    BY <1>4, AnsweringType
  <2>2. TrackedFits(a, n)
    <3>1. Tracked(a)
      BY <1>12, <2>1, BusyFields DEF Tracked
    <3>2. /\ j.active # None => j.active \in n.ever
          /\ j.role = None => LoadedFits(j, n)
      BY <1>4, <1>10, <1>12, <2>1, <3>1
    <3>3. n.always \subseteq Way
      BY <1>4, <1>9, <1>12, <2>1, <3>1
    <3> QED BY <1>4, <1>12, <3>2, <3>3, AnswerFits
  <2> HIDE DEF a
  <2>3. ShapeFits(a)
    BY <1>12, <2>1 DEF ShapeFits
  <2>4. ~ Holds(a) /\ ~ Holds(i)
    BY <1>4, <1>12, <2>1 DEF Holds, Locks
  <2>5. LockedFits(a)
    BY <1>12, <2>1, <2>4 DEF LockedFits
  <2>6. a \in Job
    BY <2>1, BusyFields
  <2>7. lock' = w => bank # None
    BY <1>12, NoneAssumption DEF BInv, LockFits
  <2> QED BY <1>1, <1>2, <1>12, <2>2, <2>3, <2>4, <2>5, <2>6, <2>7, QuietStep DEF a, i, n
<1>13. CASE j.todo = {} /\ j.req.kind # "read" /\ Changes(j) /\ job' = [job EXCEPT ![w] = Committing(j)]
            /\ UNCHANGED lock
  <2> DEFINE a == Committing(j)
  <2>1. /\ a \in Busy /\ a.pc = "commit" /\ a.req = j.req /\ a.row = j.row /\ a.todo = {}
        /\ a.active = j.active /\ a.own = j.own
    BY <1>4, <1>13, CommittingType
  <2> HIDE DEF a
  <2>2. ShapeFits(a)
    BY <1>13, <2>1 DEF ShapeFits
  <2>3. (Holds(a) <=> Holds(i)) /\ (Holds(a) <=> Holds(j))
    BY <1>1, <1>4, <2>1 DEF Holds
  <2>4. /\ j.req.kind = "publish" => j.active = None
        /\ j.req.kind = "withdraw" => j.active # None
        /\ j.req.kind = "subscribe" => j.active # None
        /\ j.req.kind = "select" => j.active = j.req.version /\ j.own \notin {None, j.req.version}
    BY <1>13 DEF Changes
  <2>5. LockedFits(a)
    BY <1>4, <1>6, <1>13, <2>1, <2>3, <2>4 DEF LockedFits
  <2>6. ASSUME Tracked(a)
        PROVE  TrackedFits(a, n)
    <3>1. /\ j.active # None => j.active \in n.ever /\ (bank # None => j.active \in Known(pubs))
      BY <1>4, <1>10, <1>13, <2>1, <2>6 DEF a
    <3>2. j.req.kind = "subscribe"
      BY <1>13, <2>1, <2>6 DEF Tracked
    <3> QED BY <2>1, <2>4, <3>1, <3>2 DEF TrackedFits
  <2>7. a \in Job
    BY <2>1, BusyFields
  <2>8. lock' = w => bank # None
    BY <1>13, NoneAssumption DEF BInv, LockFits
  <2> QED BY <1>1, <1>2, <1>13, <2>2, <2>3, <2>5, <2>6, <2>7, <2>8, QuietStep DEF a, i, n
<1>14. CASE job' = [job EXCEPT ![w] = Idle] /\ lock' = Freed(w)
  BY <1>1, <1>2, <1>14, EndsQuietly DEF i
<1> QED BY <1>1, <1>11, <1>12, <1>13, <1>14

-----------------------------------------------------------------------------
(* The commits.                                                            *)

RowsOK == /\ bank \in BankRow \cup {None} /\ gone \in BOOLEAN
          /\ items \subseteq Question /\ members \in Roles
          /\ pubs \in Publications /\ subs \in Subscriptions

\* A commit keeps the versions there are, and changes nothing that another request has locked.
LEMMA CommitStep ==
  ASSUME BInv, Witness, NEW w \in Worker, job[w].pc = "commit",
         job' = [job EXCEPT ![w] = Idle], lock' = Freed(w),
         RowsOK', ActiveIsLatest',
         bank' = None => gone' /\ pubs' = NoPublication,
         \A u \in User : subs'[u] # None => subs'[u] \in Known(pubs'),
         lock' # None => bank' # None,
         OpenSnapshots' \subseteq OpenSnapshots \cup Open',
         bank' # None => bank # None /\ Known(pubs) \subseteq Known(pubs'),
         lock \notin {w, None} => bank' = bank /\ pubs' = pubs /\ \A u \in User : subs'[u] \in {subs[u], None}
  PROVE  BInv'
<1>1. /\ LockFits' /\ lock' \in Worker \cup {None} /\ job' \in [Worker -> Job]
      /\ job'[w] = Idle /\ \A v \in Worker \ {w} : job'[v] = job[v]
  BY IdleType, LockMoves
<1>2. TypeOK'
  BY <1>1, MetType DEF RowsOK, TypeOK
<1>3. PinsFit'
  BY DEF PinsFit
<1>4. ASSUME NEW v \in Worker
      PROVE  /\ ShapeFits(job[v])' /\ LockedFits(job[v])'
             /\ (Tracked(job[v]) => TrackedFits(job[v], met[v]))'
  <2>1. CASE job'[v] = Idle
    BY <2>1, IdleType DEF ShapeFits, LockedFits, Idle, Tracked, Holds
  <2>2. CASE v # w /\ job[v] # Idle
    <3>1. Holds(job[v]) => lock \notin {w, None}
      BY <2>2, NoneAssumption DEF BInv, LockFits
    <3>2. job'[v] = job[v]
      BY <1>1, <2>2
    <3> QED BY <2>2, <3>1, <3>2, OthersFit
  <2> QED BY <1>1, <2>1, <2>2
<1> QED BY <1>1, <1>2, <1>3, <1>4 DEF BInv

\* A commit that leaves the bank and its versions alone.
LEMMA PlainCommit ==
  ASSUME BInv, Witness, NEW w \in Worker, job[w].pc = "commit",
         job' = [job EXCEPT ![w] = Idle], lock' = Freed(w), bank # None,
         UNCHANGED <<bank, gone, pubs>>, items' \subseteq Question, members' \in Roles,
         subs' \in Subscriptions,
         \A u \in User : subs'[u] # None => subs'[u] \in Known(pubs),
         lock \notin {w, None} => \A u \in User : subs'[u] \in {subs[u], None}
  PROVE  BInv'
<1>1. RowsOK'
  BY DEF BInv, TypeOK, RowsOK
<1>2. ActiveIsLatest'
  BY DEF BInv, ActiveIsLatest
<1>3. OpenSnapshots' \subseteq OpenSnapshots \cup Open'
  BY DEF OpenSnapshots
<1> QED BY <1>1, <1>2, <1>3, CommitStep

LEMMA PublishKeeps ==
  ASSUME BInv, Witness, NEW w \in Worker, job[w].pc = "commit", job[w].req.kind = "publish",
         ~ Clash(job[w]), Publish(job[w].row),
         job' = [job EXCEPT ![w] = Idle], lock' = Freed(w)
  PROVE  BInv'
<1> DEFINE x == bank.latest + 1
           r == [visibility |-> bank.visibility, active |-> TRUE]
<1>1. /\ bank \in BankRow /\ bank # None /\ pubs \in Publications /\ subs \in Subscriptions
  BY DEF BInv, TypeOK, Clash
<1>2. /\ job[w].row = bank /\ bank.latest < MaxVersion /\ job[w].active = None /\ job[w].todo = {} /\ Holds(job[w])
  BY <1>1 DEF BInv, ShapeFits, LockedFits, Holds, Locks
<1>3. ActiveVersions(pubs) = {} /\ lock = w
  BY <1>2, ActiveIs DEF BInv, LockedFits, LockFits
<1>4. x \in Version /\ bank.latest \in 0..MaxVersion /\ bank.latest \in Nat
  BY <1>1, <1>2, MaxVersionAssumption DEF BankRow, Version
<1>5. r \in Publication /\ r.active /\ r.visibility = bank.visibility /\ r # None
  <2>1. bank.visibility \in Visibility
    BY <1>1 DEF BankRow
  <2>2. r \in Publication
    BY <2>1 DEF Publication
  <2>3. r # None
    BY <2>2, NoneAssumption
  <2> QED BY <2>2, <2>3
<1>6. bank' = [bank EXCEPT !.latest = x] /\ pubs' = [pubs EXCEPT ![x] = r]
      /\ UNCHANGED <<gone, items, members, subs>>
  BY <1>2 DEF Publish
<1>7. Known(pubs) = 1..bank.latest
  BY <1>1 DEF BInv, ActiveIsLatest
<1>8. 1..x = (1..bank.latest) \cup {x} /\ x \in 0..MaxVersion
  BY <1>2, <1>4, MaxVersionAssumption
<1> HIDE DEF x, r
<1>9. pubs' \in Publications /\ pubs'[x] = r /\ \A v \in Version \ {x} : pubs'[v] = pubs[v]
  BY <1>1, <1>4, <1>5, <1>6 DEF Publications
<1>10. bank' \in BankRow /\ bank'.visibility = bank.visibility /\ bank'.latest = x /\ bank' # None
  BY <1>1, <1>6, <1>8, NoneAssumption DEF BankRow
<1>11. Known(pubs') = 1..x
  BY <1>4, <1>5, <1>7, <1>8, <1>9 DEF Known
<1>12. ActiveVersions(pubs') = {x}
  BY <1>3, <1>4, <1>5, <1>9 DEF ActiveVersions, Known
<1>13. ActiveIsLatest'
  BY <1>10, <1>11, <1>12 DEF ActiveIsLatest
<1>14. OpenSnapshots' \subseteq OpenSnapshots \cup Open'
  BY <1>5, <1>9, <1>10, <1>12 DEF OpenSnapshots, Open
<1>15. RowsOK'
  BY <1>6, <1>9, <1>10 DEF BInv, TypeOK, RowsOK
<1>16. Known(pubs) \subseteq Known(pubs')
  BY <1>7, <1>8, <1>11
<1>17. \A u \in User : subs'[u] # None => subs'[u] \in Known(pubs')
  BY <1>6, <1>16 DEF BInv, PinsFit
<1>18. lock \in {w, None}
  BY <1>3
<1> QED BY <1>1, <1>10, <1>13, <1>14, <1>15, <1>16, <1>17, <1>18, CommitStep

LEMMA WithdrawKeeps ==
  ASSUME BInv, Witness, NEW w \in Worker, job[w].pc = "commit", job[w].req.kind = "withdraw",
         ~ Clash(job[w]), Withdraw(job[w].active),
         job' = [job EXCEPT ![w] = Idle], lock' = Freed(w)
  PROVE  BInv'
<1> DEFINE a == job[w].active
<1>1. /\ bank \in BankRow /\ bank # None /\ pubs \in Publications
  BY DEF BInv, TypeOK, Clash
<1>2. a = ActiveVersion(pubs) /\ a # None /\ Holds(job[w])
  BY DEF BInv, ShapeFits, LockedFits, Holds, Locks
<1>3. lock = w /\ a \in ActiveVersions(pubs)
  BY <1>2, ActiveIs DEF BInv, LockFits
<1>4. a \in Version /\ pubs[a] \in Publication
  BY <1>1, <1>3 DEF ActiveVersions, Known, Publications
<1>5. pubs' = [pubs EXCEPT ![a].active = FALSE] /\ UNCHANGED <<bank, gone, items, members, subs>>
  BY DEF Withdraw
<1> HIDE DEF a
<1>6. pubs'[a] \in Publication /\ pubs'[a].active = FALSE /\ pubs'[a].visibility = pubs[a].visibility
      /\ \A v \in Version \ {a} : pubs'[v] = pubs[v]
  BY <1>1, <1>4, <1>5 DEF Publication, Publications
<1>7. pubs' \in Publications
  BY <1>1, <1>4, <1>5, <1>6 DEF Publications
<1>8. Known(pubs') = Known(pubs) /\ ActiveVersions(pubs') \subseteq ActiveVersions(pubs) \ {a}
  BY <1>4, <1>6, NoneAssumption DEF Known, ActiveVersions
<1>9. OpenSnapshots' \subseteq OpenSnapshots \cup Open'
  BY <1>6, <1>8 DEF OpenSnapshots, ActiveVersions, Known
<1>10. ActiveIsLatest'
  BY <1>5, <1>8 DEF BInv, ActiveIsLatest
<1>11. RowsOK'
  BY <1>5, <1>7 DEF BInv, TypeOK, RowsOK
<1>12. \A u \in User : subs'[u] # None => subs'[u] \in Known(pubs')
  BY <1>5, <1>8 DEF BInv, PinsFit
<1>13. lock \in {w, None}
  BY <1>3
<1> QED BY <1>1, <1>5, <1>8, <1>9, <1>10, <1>11, <1>12, <1>13, CommitStep

LEMMA SaveKeeps ==
  ASSUME BInv, Witness, NEW w \in Worker, job[w].pc = "commit", job[w].req.kind = "update",
         ~ Clash(job[w]), ~ Waits(w), Save(job[w].req, job[w].row),
         job' = [job EXCEPT ![w] = Idle], lock' = Freed(w)
  PROVE  BInv'
<1> DEFINE q == job[w].req
           s == IF q.visibility \in {None, job[w].row.visibility} THEN bank.visibility ELSE q.visibility
<1>1. /\ bank \in BankRow /\ bank # None
  BY DEF BInv, TypeOK, Clash
<1>2. q \in Request
  BY JobType, BusyFields DEF BInv, TypeOK, Idle
<1>3. s \in Visibility
  BY <1>1, <1>2, RequestType DEF BankRow
<1>4. bank' = [bank EXCEPT !.visibility = s] /\ UNCHANGED <<gone, items, members, pubs, subs>>
  BY DEF Save, Written
<1> HIDE DEF s
<1>5. bank' \in BankRow /\ bank'.latest = bank.latest /\ bank' # None
  BY <1>1, <1>3, <1>4, NoneAssumption DEF BankRow
<1>6. RowsOK'
  BY <1>4, <1>5 DEF BInv, TypeOK, RowsOK
<1>7. ActiveIsLatest'
  BY <1>1, <1>4, <1>5 DEF BInv, ActiveIsLatest
<1>8. OpenSnapshots' \subseteq OpenSnapshots \cup Open'
  BY <1>4 DEF OpenSnapshots
<1>9. lock \in {w, None}
  BY DEF Waits
<1>10. \A u \in User : subs'[u] # None => subs'[u] \in Known(pubs')
  BY <1>4 DEF BInv, PinsFit
<1> QED BY <1>1, <1>4, <1>5, <1>6, <1>7, <1>8, <1>9, <1>10, CommitStep

LEMMA EraseKeeps ==
  ASSUME BInv, Witness, NEW w \in Worker, job[w].pc = "commit", job[w].req.kind = "delete",
         ~ Clash(job[w]), ~ Waits(w), Erase,
         job' = [job EXCEPT ![w] = Idle], lock' = Freed(w)
  PROVE  BInv'
<1>1. lock \in {w, None} /\ lock' = None
  BY DEF Waits, Freed
<1>2. /\ bank' = None /\ gone' = TRUE /\ pubs' = NoPublication /\ subs' = NoSubscription
      /\ items' = {} /\ members' = NoMember
  BY DEF Erase
<1>3. RowsOK'
  BY <1>2, NoRows DEF RowsOK
<1>4. ActiveIsLatest'
  BY <1>2 DEF ActiveIsLatest
<1>5. OpenSnapshots' = {} /\ \A u \in User : subs'[u] = None
  BY <1>2 DEF OpenSnapshots, ActiveVersions, Known, NoPublication, NoSubscription
<1> QED BY <1>1, <1>2, <1>3, <1>4, <1>5, CommitStep

LEMMA PinKeeps ==
  ASSUME BInv, Witness, NEW w \in Worker, job[w].pc = "commit",
         ~ Clash(job[w]), ~ Waits(w),
         \/ job[w].req.kind \in {"subscribe", "select"} /\ Pin(job[w].req.user, job[w].active)
         \/ job[w].req.kind = "unsubscribe" /\ Pin(job[w].req.user, None),
         job' = [job EXCEPT ![w] = Idle], lock' = Freed(w)
  PROVE  BInv'
<1> DEFINE q == job[w].req
<1>1. /\ bank # None /\ subs \in Subscriptions
      /\ \A u \in User : subs[u] # None => subs[u] \in Known(pubs)
  BY DEF BInv, TypeOK, Clash, PinsFit
<1>2. q \in Request /\ q.user \in User
  BY JobType, BusyFields, RequestType DEF BInv, TypeOK, Idle
<1>3. ASSUME q.kind \in {"subscribe", "select"}
      PROVE  job[w].active \in Known(pubs) /\ lock \in {w, None}
  <2>1. CASE q.kind = "subscribe"
    <3>1. TrackedFits(job[w], met[w])
      BY <2>1 DEF BInv, Tracked, Idle
    <3> QED BY <1>1, <2>1, <3>1 DEF TrackedFits, Waits
  <2>2. CASE q.kind = "select"
    <3>1. Holds(job[w]) /\ job[w].todo = {} /\ LockedFits(job[w])
      BY <2>2 DEF BInv, ShapeFits, Holds, Locks
    <3>2. job[w].active = ActiveVersion(pubs) /\ job[w].active # None
      BY <1>2, <2>2, <3>1, RequestType, NoneAssumption DEF LockedFits
    <3> QED BY <3>1, <3>2, ActiveIs DEF BInv, LockFits, ActiveVersions
  <2> QED BY <1>3, <2>1, <2>2
<1>4. PICK x \in Known(pubs) \cup {None} :
        /\ subs' = [subs EXCEPT ![q.user] = x]
        /\ x # None => lock \in {w, None}
        /\ UNCHANGED <<bank, gone, items, members, pubs>>
  BY <1>3 DEF Pin
<1> HIDE DEF q
<1>5. subs' \in Subscriptions /\ \A u \in User : subs'[u] \in {subs[u], x}
  BY <1>1, <1>2, <1>4 DEF Subscriptions, Known
<1>6. items' \subseteq Question /\ members' \in Roles
  BY <1>4 DEF BInv, TypeOK
<1> QED BY <1>1, <1>4, <1>5, <1>6, PlainCommit

LEMMA CommitKeeps ==
  ASSUME BInv, Witness, NEW w \in Worker, Commit(w)
  PROVE  BInv'
<1> DEFINE q == job[w].req
<1>1. /\ job[w].pc = "commit" /\ ~ Waits(w) /\ ~ Clash(job[w])
      /\ job' = [job EXCEPT ![w] = Idle] /\ lock' = Freed(w)
  BY DEF Commit
<1>2. /\ bank # None /\ members \in Roles /\ items \subseteq Question /\ subs \in Subscriptions
      /\ \A u \in User : subs[u] # None => subs[u] \in Known(pubs)
  BY <1>1 DEF BInv, TypeOK, Clash, PinsFit
<1>3. q \in Request
  BY <1>1, JobType, BusyFields DEF BInv, TypeOK, Idle
<1>4. CASE q.kind = "update" /\ Save(q, job[w].row)
  BY <1>1, <1>4, SaveKeeps
<1>5. CASE q.kind = "delete" /\ Erase
  BY <1>1, <1>5, EraseKeeps
<1>6. CASE q.kind = "publish" /\ Publish(job[w].row)
  BY <1>1, <1>6, PublishKeeps
<1>7. CASE q.kind = "withdraw" /\ Withdraw(job[w].active)
  BY <1>1, <1>7, WithdrawKeeps
<1>8. CASE \/ q.kind \in {"subscribe", "select"} /\ Pin(q.user, job[w].active)
           \/ q.kind = "unsubscribe" /\ Pin(q.user, None)
  BY <1>1, <1>8, PinKeeps
<1>9. CASE \/ q.kind = "add" /\ Hold(items \cup {q.question})
           \/ q.kind = "remove" /\ Hold(items \ {q.question})
  <2>1. /\ items' \subseteq Question /\ UNCHANGED <<bank, gone, members, pubs, subs>>
    BY <1>2, <1>3, <1>9, RequestType DEF Hold
  <2>2. subs' \in Subscriptions /\ \A u \in User : subs'[u] = subs[u]
    BY <1>2, <2>1
  <2> QED BY <1>1, <1>2, <2>1, <2>2, PlainCommit
<1>10. CASE \/ q.kind = "share" /\ Enrol(q.target, q.role)
            \/ q.kind = "role" /\ Enrol(q.target, IF q.role = job[w].found THEN members[q.target] ELSE q.role)
            \/ q.kind = "unshare" /\ Enrol(q.target, None)
  <2>1. PICK r \in Role \cup {None} :
          members' = [members EXCEPT ![q.target] = r] /\ UNCHANGED <<bank, gone, items, pubs, subs>>
    BY <1>2, <1>3, <1>10, RequestType DEF Enrol, Roles
  <2>2. members' \in Roles
    BY <1>2, <2>1 DEF Roles
  <2>3. subs' \in Subscriptions /\ items' \subseteq Question /\ \A u \in User : subs'[u] = subs[u]
    BY <1>2, <2>1
  <2> QED BY <1>1, <1>2, <2>1, <2>2, <2>3, PlainCommit
<1> QED BY <1>4, <1>5, <1>6, <1>7, <1>8, <1>9, <1>10 DEF Commit

LEMMA CreateKeeps ==
  ASSUME BInv, Witness, NEW s \in Asked, Create(s)
  PROVE  BInv'
<1>1. /\ bank = None /\ gone = FALSE
      /\ bank' = [visibility |-> s, latest |-> 0]
      /\ UNCHANGED <<gone, items, members, pubs, subs, lock, job>>
  BY DEF Create, BInv, TypeOK
<1>2. /\ \A w \in Worker : job[w] = Idle
      /\ Known(pubs) = {} /\ ActiveVersions(pubs) = {} /\ \A u \in User : subs[u] = None
  <2>1. pubs = NoPublication
    BY <1>1 DEF BInv, PinsFit
  <2>2. Known(pubs) = {} /\ ActiveVersions(pubs) = {}
    BY <2>1 DEF Known, ActiveVersions, NoPublication
  <2> QED BY <1>1, <2>2 DEF BInv, PinsFit
<1>3. bank' \in BankRow /\ bank' # None
  <2>1. s \in Visibility /\ 0 \in 0..MaxVersion
    BY AskedAssumption, MaxVersionAssumption
  <2>2. bank' \in BankRow
    BY <1>1, <2>1 DEF BankRow
  <2> QED BY <2>2, NoneAssumption
<1>4. TypeOK'
  BY <1>1, <1>3, MetType DEF BInv, TypeOK
<1>5. ActiveIsLatest'
  BY <1>1, <1>2 DEF ActiveIsLatest
<1>6. PinsFit'
  BY <1>1, <1>2, <1>3 DEF PinsFit
<1>7. LockFits'
  BY <1>1, <1>3 DEF BInv, LockFits
<1>8. \A w \in Worker : job'[w] = Idle
  BY <1>1, <1>2
<1>9. \A w \in Worker : /\ ShapeFits(job[w])' /\ LockedFits(job[w])'
                        /\ (Tracked(job[w]) => TrackedFits(job[w], met[w]))'
  BY <1>8, IdleType DEF ShapeFits, LockedFits, Idle, Tracked, Holds
<1> QED BY <1>4, <1>5, <1>6, <1>7, <1>9 DEF BInv

-----------------------------------------------------------------------------
(* The invariant holds.                                                    *)

LEMMA InitHolds == Init => BInv
<1> SUFFICES ASSUME Init PROVE BInv
  OBVIOUS
<1>1. \A w \in Worker : job[w] = Idle /\ met[w] = NoWay
  BY DEF Init
<1>2. TypeOK
  <2>1. met \in [Worker -> [ever : SUBSET Version, always : SUBSET Way]]
    BY DEF Init, NoWay
  <2> QED BY <2>1, IdleType, NoRows DEF Init, TypeOK
<1>3. ActiveIsLatest /\ PinsFit
  BY DEF Init, ActiveIsLatest, PinsFit, NoSubscription
<1>4. LockFits
  BY <1>1, IdleType, NoneAssumption DEF Init, LockFits
<1>5. \A w \in Worker : /\ ShapeFits(job[w]) /\ LockedFits(job[w])
                        /\ (Tracked(job[w]) => TrackedFits(job[w], met[w]))
  BY <1>1, IdleType DEF ShapeFits, LockedFits, Idle, Holds
<1> QED BY <1>2, <1>3, <1>4, <1>5 DEF BInv

LEMMA StutterKeeps == BInv /\ UNCHANGED vars => BInv'
BY DEF BInv, vars, rows, TypeOK, ActiveIsLatest, PinsFit, LockFits, ShapeFits, LockedFits, TrackedFits,
       LoadedFits, OpenSnapshots

LEMMA StepKeeps ==
  ASSUME BInv, Next
  PROVE  BInv'
<1>1. Witness
  BY DEF Next
<1>2. CASE \E s \in Asked : Create(s)
  BY <1>1, <1>2, CreateKeeps
<1>3. CASE \E w \in Worker : Step(w)
  <2>1. PICK w \in Worker : Step(w)
    BY <1>3
  <2>2. CASE \/ UpdateRequest(w) \/ DeleteRequest(w) \/ PublishRequest(w) \/ WithdrawRequest(w)
             \/ ItemRequest(w) \/ MemberRequest(w) \/ SubscribeRequest(w) \/ SelectRequest(w)
             \/ UnsubscribeRequest(w) \/ ReadRequest(w)
    BY <1>1, <2>2, RequestsKeep
  <2>3. CASE \E c \in Collection : Load(w, c)
    BY <1>1, <2>3, LoadKeeps
  <2>4. CASE Answer(w)
    BY <1>1, <2>4, AnswerKeeps
  <2>5. CASE Commit(w)
    BY <1>1, <2>5, CommitKeeps
  <2>6. CASE Fail(w)
    BY <1>1, <2>6, FailKeeps
  <2> QED BY <2>1, <2>2, <2>3, <2>4, <2>5, <2>6 DEF Step
<1> QED BY <1>2, <1>3 DEF Next

(***************************************************************************)
(* The inductive invariant holds at every step: the rows and jobs have     *)
(* their types, the lock is held by the one request that may, what it has  *)
(* read stays so, and every reader's loads fit what there was meanwhile.   *)
(***************************************************************************)
THEOREM Invariance == Spec => []BInv
<1>1. BInv /\ [Next]_vars => BInv'
  BY StepKeeps, StutterKeeps
<1> QED BY <1>1, InitHolds, PTL DEF Spec

(***************************************************************************)
(* The versions are numbered without a gap, the bank knows the last number *)
(* and only that version is ever active: publish_bank and withdraw_bank    *)
(* decide on rows that no other request can change under the lock.         *)
(***************************************************************************)
THEOREM ConsistentAlways == Spec => []Consistent
<1>1. BInv => Consistent
  BY DEF BInv, Consistent
<1> QED BY <1>1, Invariance, PTL

(***************************************************************************)
(* A request that reads the bank in several statements offers nothing that *)
(* was never open meanwhile, and hides nothing from one who could read it  *)
(* all along, in whatever order it loads the collections.                  *)
(***************************************************************************)
THEOREM ReadsAsOneAlways == Spec => []ReadsAsOne
<1>1. BInv => ReadsAsOne
  <2> SUFFICES ASSUME BInv, NEW w \in Worker, job[w] # Idle
               PROVE  LET j == job[w] IN
                      /\ j.pc = "answer" /\ j.shown \in Version => j.shown \in met[w].ever \cup {j.own}
                      /\ j.pc = "commit" /\ j.req.kind = "subscribe" => j.active \in met[w].ever
                      /\ j.pc = "answer" /\ j.req.kind = "read" /\ j.shown = None => met[w].always = {}
    BY DEF ReadsAsOne, OpenWhenTaken, SteadyReadersServed, Idle
  <2>1. ShapeFits(job[w]) /\ (Tracked(job[w]) => TrackedFits(job[w], met[w]))
    BY DEF BInv
  <2> QED BY <2>1 DEF ShapeFits, Tracked, TrackedFits
<1> QED BY <1>1, Invariance, PTL

\* Only the change of a subscription moves one, and under the lock of the row.
LEMMA MovesForward ==
  ASSUME BInv, Next
  PROVE  OnlyForward
<1> SUFFICES ASSUME NEW u \in User, subs[u] # None, subs'[u] \notin {None, subs[u]}
             PROVE  subs'[u] > subs[u] /\ pubs[subs'[u]].active
  BY DEF OnlyForward
<1>1. subs \in Subscriptions /\ (bank # None => bank \in BankRow)
  BY DEF BInv, TypeOK
<1>2. PICK w \in Worker : Commit(w)
  <2>1. \A w \in Worker : \A q : ~ Begin(w, q)
    BY DEF Begin, rows
  <2>2. \A s \in Asked : ~ Create(s)
    BY DEF Create
  <2>3. \A w \in Worker : /\ \A c : ~ Load(w, c)
                         /\ ~ Answer(w) /\ ~ Fail(w)
    BY DEF Load, Answer, Fail, rows
  <2>4. PICK w \in Worker : Step(w)
    BY <2>2 DEF Next
  <2>5. /\ ~ UpdateRequest(w) /\ ~ DeleteRequest(w) /\ ~ PublishRequest(w) /\ ~ WithdrawRequest(w)
        /\ ~ ItemRequest(w) /\ ~ MemberRequest(w) /\ ~ SubscribeRequest(w) /\ ~ SelectRequest(w)
        /\ ~ UnsubscribeRequest(w) /\ ~ ReadRequest(w)
    BY <2>1 DEF UpdateRequest, DeleteRequest, PublishRequest, WithdrawRequest, ItemRequest, MemberRequest,
                SubscribeRequest, SelectRequest, UnsubscribeRequest, ReadRequest
  <2> QED BY <2>3, <2>4, <2>5 DEF Step
<1> DEFINE j == job[w]
           q == j.req
<1>3. j.pc = "commit" /\ ~ Clash(j) /\ bank # None
  BY <1>2 DEF Commit, Clash
<1>4. q.kind \in {"subscribe", "select"} /\ Pin(q.user, j.active)
  BY <1>1, <1>2 DEF Commit, Save, Erase, Publish, Withdraw, Pin, Hold, Enrol, NoSubscription, Subscriptions
<1>5. q.user = u /\ subs'[u] = j.active
  BY <1>1, <1>4 DEF Pin, Subscriptions
<1>6. q.kind = "select"
  BY <1>3, <1>4, <1>5 DEF Clash
<1>7. Holds(j) /\ j.todo = {} /\ LockedFits(j)
  BY <1>3, <1>6 DEF BInv, ShapeFits, Holds, Locks
<1>8. j.active = ActiveVersion(pubs) /\ subs[u] = j.own /\ j.own # j.active
  BY <1>3, <1>5, <1>6, <1>7 DEF LockedFits
<1>9. j.active \in ActiveVersions(pubs) /\ j.active = bank.latest
  BY <1>5, <1>8, ActiveIs, OnlyActive
<1>10. subs[u] \in 1..bank.latest /\ bank.latest \in Nat
  BY <1>1, <1>3, MaxVersionAssumption DEF BInv, PinsFit, ActiveIsLatest, BankRow
<1> QED BY <1>5, <1>8, <1>9, <1>10 DEF ActiveVersions

(***************************************************************************)
(* A subscription moves only forward, and to the version that is active at *)
(* that moment: change_bank_subscription compares with what it has locked. *)
(***************************************************************************)
THEOREM SubscriptionsMoveForward == Spec => MovesToActive
<1>1. BInv /\ [Next]_vars => [OnlyForward]_vars
  BY MovesForward
<1> QED BY <1>1, Invariance, PTL DEF Spec, MovesToActive
=============================================================================
