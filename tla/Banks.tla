-------------------------------- MODULE Banks --------------------------------
(***************************************************************************)
(* A shared question bank: its members and items, the versions its owner   *)
(* publishes and withdraws, the subscriptions pinned to a version, and who *)
(* is shown which version (services/banks.py).                             *)
(*                                                                         *)
(* A request reads the row of the bank, then each collection it needs with *)
(* a statement of its own, decides on what it read, and commits; the order *)
(* in which the collections are loaded is not fixed.  publish, withdraw    *)
(* and the change of a subscription read the row FOR UPDATE, so they wait  *)
(* for each other and make the commits wait that write the row or insert a *)
(* row that refers to it.  A commit writes the columns that differ from    *)
(* what was read.  One bank; a snapshot is the visibility it was taken     *)
(* with, its questions and the copies a fork makes of them are left out,   *)
(* and a deleted question leaves the bank as a removed one does.           *)
(***************************************************************************)
EXTENDS Naturals, FiniteSets, FiniteSetsExt

CONSTANTS
    User, Owner,  \* users; the one who creates the bank
    Admin,        \* users with the permission users:manage
    Reader,       \* users who subscribe, copy and read; None reads /public/banks
    Worker,       \* threads that serve requests
    Question,     \* questions that requests add
    Asked,        \* the visibilities that requests ask for
    Given,        \* the roles that requests give
    MaxVersion,   \* bound on the versions published
    None,
    Live,         \* what one with a role is shown: the rows themselves
    ByRole, BySubscription  \* ways of reading a bank, besides its open versions

Visibility == {"private", "team", "public"}
Role == {"viewer", "editor"}

ASSUME UserAssumption == Owner \in User /\ Admin \subseteq User \ {Owner} /\ None \notin User
ASSUME ReaderAssumption == Reader \subseteq User \cup {None}
ASSUME AskedAssumption == Asked \subseteq Visibility /\ Given \subseteq Role
ASSUME MaxVersionAssumption == MaxVersion \in Nat

Version == 1..MaxVersion

VARIABLES
    bank,     \* the row of question_banks, None before its creation and after its deletion
    gone,     \* the bank was deleted
    items,    \* question_bank_items
    members,  \* question_bank_members: the role of each user
    pubs,     \* bank_publications, by version
    subs,     \* bank_subscriptions: the version each user is pinned to
    lock,     \* the worker that holds the lock of the bank row, None when free
    job,      \* what each worker is doing
    met       \* the ways in which its user could read the bank, during each request

rows == <<bank, gone, items, members, pubs, subs>>
vars == <<rows, lock, job, met>>

BankRow == [visibility: Visibility, latest: 0..MaxVersion]
Publication == [visibility: Visibility, active: BOOLEAN]
Manager == {"owner", "admin"}
\* None is no value of any column, and the ways of reading are told apart.
ASSUME NoneAssumption == None \notin Worker \cup BankRow \cup Publication \cup Role \cup Manager \cup Version
ASSUME WayAssumption == Live \notin Version \cup {None} /\ ByRole # BySubscription /\ {ByRole, BySubscription} \cap Version = {}
Roles == [User -> Role \cup {None}]
Publications == [Version -> Publication \cup {None}]
Subscriptions == [User -> Version \cup {None}]

Request ==
    [kind: {"update"}, user: User, visibility: Asked \cup {None}]
    \cup [kind: {"delete", "publish", "withdraw", "subscribe", "unsubscribe"}, user: User]
    \cup [kind: {"add", "remove"}, user: User, question: Question]
    \cup [kind: {"share", "role", "unshare"}, user: User, target: User, role: Role]
    \cup [kind: {"select"}, user: User, version: Version]
    \cup [kind: {"read"}, user: User \cup {None}]

\* What a request keeps of its reads: the row of the bank (its last version
\* when the commit may write it), the role of its user, the role of the user
\* it is about, the items, the active version (for a reader or a subscriber, if
\* it is offered), and its subscription.
Collection == {"items", "members", "publications", "subscriptions"}
Idle == [pc |-> "idle"]
Job == {Idle} \cup
       [pc: {"load", "commit", "answer"}, req: Request, row: BankRow, todo: SUBSET Collection,
        role: Role \cup Manager \cup {None}, found: Role \cup {None}, items: SUBSET Question,
        active: Version \cup {None},
        own: Version \cup {None}, shown: Version \cup {Live, None}]

Way == Version \cup {ByRole, BySubscription}
NoWay == [ever |-> {}, always |-> {}]  \* ever: the open versions only

(***************************************************************************)
(* The type invariant: every row and job is of its kind.                   *)
(***************************************************************************)
TypeOK ==
    /\ bank \in BankRow \cup {None} /\ gone \in BOOLEAN
    /\ items \subseteq Question
    /\ members \in Roles
    /\ pubs \in Publications
    /\ subs \in Subscriptions
    /\ lock \in Worker \cup {None}
    /\ job \in [Worker -> Job]
    /\ met \in [Worker -> [ever: SUBSET Version, always: SUBSET Way]]

NoMember == [u \in User |-> None]
NoPublication == [v \in Version |-> None]
NoSubscription == [u \in User |-> None]

Init ==
    /\ bank = None /\ gone = FALSE
    /\ items = {}
    /\ members = NoMember
    /\ pubs = NoPublication
    /\ subs = NoSubscription
    /\ lock = None
    /\ job = [w \in Worker |-> Idle]
    /\ met = [w \in Worker |-> NoWay]

(***************************************************************************)
(* Who is who, and what is active.                                         *)
(***************************************************************************)
\* bank_access_role, for the members m.
AccessRole(u, m) ==
    IF u = Owner THEN "owner" ELSE IF u \in Admin THEN "admin" ELSE IF u = None THEN None ELSE m[u]

Known(p) == {v \in Version : p[v] # None}
ActiveVersions(p) == {v \in Known(p) : p[v].active}
\* _active_publication: the last one that is not withdrawn.
ActiveVersion(p) == IF ActiveVersions(p) = {} THEN None ELSE Max(ActiveVersions(p))

\* The active version when the row, as it was read, and its snapshot are public.
Offered(row, p) ==
    LET v == ActiveVersion(p) IN
    IF v # None /\ row.visibility = "public" /\ p[v].visibility = "public" THEN v ELSE None

ReadableActive(j) == j.active  \* mutant: a pinned version that was withdrawn is hidden
\* _readable_publication: the version one without a role may read.
Readable(j) == IF j.active # None THEN j.active ELSE j.own

\* The versions that are open to everyone, and the ways a user can read the bank.
Open == {v \in ActiveVersions(pubs) : {bank.visibility, pubs[v].visibility} = {"public"}}
Ways(u) ==
    Open \cup (IF bank # None /\ AccessRole(u, members) # None THEN {ByRole} ELSE {})
         \cup (IF u # None /\ subs[u] # None THEN {BySubscription} ELSE {})

(***************************************************************************)
(* create_bank.                                                            *)
(***************************************************************************)
Create(s) ==
    /\ bank = None /\ ~gone
    /\ bank' = [visibility |-> s, latest |-> 0]
    /\ UNCHANGED <<gone, items, members, pubs, subs, lock, job>>

(***************************************************************************)
(* The reads.  The first takes the row of the bank, with its lock for some *)
(* requests.  Owner and administrators are known by that row alone; the    *)
(* requests that only they may make are refused here to the others.        *)
(***************************************************************************)
LocksPublication(q) == q.kind \in {"publish", "withdraw"}  \* mutant: a subscription is changed without the lock
Locks(q) == q.kind \in {"publish", "withdraw", "select"}

Needs(q) ==
    CASE q.kind \in {"update", "delete"} -> {}
      [] q.kind = "publish" -> {"items", "publications"}
      [] q.kind = "withdraw" -> {"publications"}
      [] q.kind \in {"select", "subscribe"} -> {"publications", "subscriptions"}
      [] q.kind = "unsubscribe" -> {"subscriptions"}
      [] q.kind \in {"add", "remove"} -> {"items", "members"}
      [] q.kind \in {"share", "role", "unshare"} -> {"members"}
      [] q.kind = "read" -> {"members", "publications", "subscriptions"}

About(q) == q.kind \in {"share", "role", "unshare"}

Row(q) == IF q.kind \in {"update", "publish"} THEN bank ELSE [bank EXCEPT !.latest = 0]

Begin(w, q) ==
    /\ job[w] = Idle
    /\ bank # None
    /\ Locks(q) => lock = None
    /\ lock' = IF Locks(q) THEN w ELSE lock
    /\ job' = [job EXCEPT ![w] =
                 [pc |-> IF Needs(q) = {} THEN "commit" ELSE "load", req |-> q, row |-> Row(q),
                  todo |-> Needs(q), role |-> AccessRole(q.user, NoMember), found |-> None,
                  items |-> {}, active |-> None, own |-> None,
                  shown |-> None]]
    /\ UNCHANGED rows

Managers == {Owner} \cup Admin
UpdateRequest(w) ==
    \E u \in Managers, s \in Asked \cup {None} :
        /\ s # None => u = Owner
        /\ Begin(w, [kind |-> "update", user |-> u, visibility |-> s])
DeleteRequest(w) == \E u \in Managers : Begin(w, [kind |-> "delete", user |-> u])
PublishRequest(w) ==
    /\ bank # None /\ bank.latest < MaxVersion
    /\ \E u \in Managers : Begin(w, [kind |-> "publish", user |-> u])
WithdrawRequest(w) == \E u \in Managers : Begin(w, [kind |-> "withdraw", user |-> u])
ItemRequest(w) ==
    \E k \in {"add", "remove"}, u \in User, q \in Question :
        Begin(w, [kind |-> k, user |-> u, question |-> q])
MemberRequest(w) ==
    \E k \in {"share", "role", "unshare"}, u \in Managers, t \in User \ {Owner}, r \in Given :
        Begin(w, [kind |-> k, user |-> u, target |-> t, role |-> r])
SubscribeRequest(w) == \E u \in Reader \ {None} : Begin(w, [kind |-> "subscribe", user |-> u])
SelectRequest(w) ==
    \E u \in Reader \ {None}, v \in Version : Begin(w, [kind |-> "select", user |-> u, version |-> v])
UnsubscribeRequest(w) == \E u \in Reader \ {None} : Begin(w, [kind |-> "unsubscribe", user |-> u])
\* The detail, the questions, the versions, the public detail; a list of
\* banks, for a bank that its filter selects; and the reads of fork_bank and
\* get_bank_version, which one without a role is given what Shown says or 404.
ReadRequest(w) == \E u \in Reader : Begin(w, [kind |-> "read", user |-> u])

Filled(j, c) ==
    CASE c = "items" -> [j EXCEPT !.items = items]
      [] c = "members" ->
           [j EXCEPT !.role = AccessRole(j.req.user, members),
                     !.found = IF About(j.req) THEN members[j.req.target] ELSE None]
      [] c = "publications" ->
           [j EXCEPT !.active = IF j.req.kind \in {"read", "subscribe"} THEN Offered(j.row, pubs)
                                ELSE ActiveVersion(pubs)]
      [] c = "subscriptions" ->
           [j EXCEPT !.own = IF j.req.user = None THEN None ELSE subs[j.req.user]]

(***************************************************************************)
(* The decision, on what was read, with the last of the reads.             *)
(***************************************************************************)
MayEdit(role) == role \in Manager \cup {"editor"}

\* The request goes on to change a row.
Changes(j) ==
    LET q == j.req IN
    CASE q.kind = "publish" -> j.items # {} /\ j.active = None
      [] q.kind = "withdraw" -> j.active # None
      [] q.kind = "subscribe" -> j.active # None /\ j.own = None
      [] q.kind = "select" -> j.own \notin {None, q.version} /\ j.active = q.version
      [] q.kind = "unsubscribe" -> j.own # None
      [] q.kind = "add" -> MayEdit(j.role) /\ q.question \notin j.items
      [] q.kind = "remove" -> MayEdit(j.role) /\ q.question \in j.items
      [] q.kind = "share" -> j.found = None
      [] q.kind \in {"role", "unshare"} -> j.found # None

\* The version a read answers with, Live for the rows themselves, None for 404.
Shown(j) == IF j.role # None THEN Live ELSE Readable(j)

Freed(w) == IF lock = w THEN None ELSE lock
\* What was read and decides nothing any more is forgotten.
Forget(j) == [j EXCEPT !.items = {}, !.role = None]

\* A reader who is found to have a role needs no more to be answered.
Left(j, c) == [j EXCEPT !.todo = IF j.req.kind = "read" /\ j.role # None THEN {} ELSE @ \ {c}]

Load(w, c) ==
    LET j == Left(Filled(job[w], c), c) IN
    /\ job[w].pc = "load"
    /\ c \in job[w].todo
    /\ \/ /\ j.todo # {}
          /\ job' = [job EXCEPT ![w] = j]
          /\ UNCHANGED lock
       \/ /\ j.todo = {} /\ j.req.kind = "read"
          /\ job' = [job EXCEPT ![w] = [Forget(j) EXCEPT !.pc = "answer", !.shown = Shown(j), !.active = None,
                                                    !.own = IF Shown(j) = j.own THEN j.own ELSE None]]
          /\ UNCHANGED lock
       \/ /\ j.todo = {} /\ j.req.kind # "read" /\ Changes(j)
          /\ job' = [job EXCEPT ![w] = [Forget(j) EXCEPT !.pc = "commit"]]
          /\ UNCHANGED lock
       \/ /\ j.todo = {} /\ j.req.kind # "read" /\ ~Changes(j)
          /\ job' = [job EXCEPT ![w] = Idle]
          /\ lock' = Freed(w)
    /\ UNCHANGED rows

\* fork_bank then copies the snapshot into a new private bank of its user.
Answer(w) ==
    /\ job[w].pc = "answer"
    /\ job' = [job EXCEPT ![w] = Idle]
    /\ UNCHANGED <<rows, lock>>

(***************************************************************************)
(* The commit.                                                             *)
(***************************************************************************)
\* The statement waits for the lock of the bank row.
Waits(w) == lock \notin {w, None} /\ job[w].req.kind \in {"update", "delete", "subscribe", "add", "share"}

\* It meets other rows than the ones read: the key is taken, or the row to
\* update is gone (500); deleting what is gone already changes nothing.
Clash(j) ==
    LET q == j.req IN
    \/ bank = None
    \/ q.kind = "publish" /\ pubs[j.row.latest + 1] # None
    \/ q.kind = "subscribe" /\ subs[q.user] # None
    \/ q.kind = "select" /\ subs[q.user] = None
    \/ q.kind = "add" /\ q.question \in items
    \/ q.kind = "share" /\ members[q.target] # None
    \/ q.kind = "role" /\ members[q.target] = None

WrittenWhole(q, row) ==  \* mutant: the columns that did not change are written too
    [row EXCEPT !.visibility = IF q.visibility = None THEN @ ELSE q.visibility]
Written(q, row) ==
    [bank EXCEPT !.visibility = IF q.visibility \in {None, row.visibility} THEN @ ELSE q.visibility]

Save(q, row) == bank' = Written(q, row) /\ UNCHANGED <<gone, items, members, pubs, subs>>

\* session.delete: the rows that refer to the bank go with it.
Erase ==
    /\ bank' = None /\ gone' = TRUE
    /\ items' = {}
    /\ members' = NoMember
    /\ pubs' = NoPublication
    /\ subs' = NoSubscription

Publish(row) ==
    /\ bank' = [bank EXCEPT !.latest = row.latest + 1]
    /\ pubs' = [pubs EXCEPT ![row.latest + 1] = [visibility |-> row.visibility, active |-> TRUE]]
    /\ UNCHANGED <<gone, items, members, subs>>

Withdraw(v) ==
    /\ pubs' = [pubs EXCEPT ![v].active = FALSE]
    /\ UNCHANGED <<bank, gone, items, members, subs>>

Pin(u, v) == subs' = [subs EXCEPT ![u] = v] /\ UNCHANGED <<bank, gone, items, members, pubs>>
Hold(s) == items' = s /\ UNCHANGED <<bank, gone, members, pubs, subs>>
Enrol(u, r) == members' = [members EXCEPT ![u] = r] /\ UNCHANGED <<bank, gone, items, pubs, subs>>

Commit(w) ==
    LET j == job[w] q == j.req IN
    /\ j.pc = "commit"
    /\ ~Waits(w) /\ ~Clash(j)
    /\ \/ q.kind = "update" /\ Save(q, j.row)
       \/ q.kind = "delete" /\ Erase
       \/ q.kind = "publish" /\ Publish(j.row)
       \/ q.kind = "withdraw" /\ Withdraw(j.active)
       \/ q.kind \in {"subscribe", "select"} /\ Pin(q.user, j.active)
       \/ q.kind = "unsubscribe" /\ Pin(q.user, None)
       \/ q.kind = "add" /\ Hold(items \cup {q.question})
       \/ q.kind = "remove" /\ Hold(items \ {q.question})
       \/ q.kind = "share" /\ Enrol(q.target, q.role)
       \/ q.kind = "role" /\ Enrol(q.target, IF q.role = j.found THEN members[q.target] ELSE q.role)
       \/ q.kind = "unshare" /\ Enrol(q.target, None)
    /\ job' = [job EXCEPT ![w] = Idle]
    /\ lock' = Freed(w)

Fail(w) ==
    /\ job[w].pc = "commit"
    /\ ~Waits(w) /\ Clash(job[w])
    /\ job' = [job EXCEPT ![w] = Idle]
    /\ lock' = Freed(w)
    /\ UNCHANGED rows

\* Keeps, for a request that reads versions, the ways there were at some time
\* and the ways there were all the time, until it is answered.
Tracked(j) == j # Idle /\ j.req.kind \in {"read", "subscribe"}
Witness ==
    met' = [w \in Worker |->
              IF ~Tracked(job'[w]) THEN NoWay
              ELSE IF job'[w] = job[w] /\ job[w].pc = "answer" THEN met[w]
              ELSE IF job[w] = Idle THEN [ever |-> Open', always |-> Ways(job[w].req.user)']
              ELSE [ever |-> met[w].ever \cup Open',
                    always |-> met[w].always \cap Ways(job[w].req.user)']]

Step(w) ==
    \/ UpdateRequest(w) \/ DeleteRequest(w) \/ PublishRequest(w) \/ WithdrawRequest(w)
    \/ ItemRequest(w) \/ MemberRequest(w) \/ SubscribeRequest(w) \/ SelectRequest(w)
    \/ UnsubscribeRequest(w) \/ ReadRequest(w)
    \/ \E c \in Collection : Load(w, c)
    \/ Answer(w) \/ Commit(w) \/ Fail(w)

Next == ((\E s \in Asked : Create(s)) \/ \E w \in Worker : Step(w)) /\ Witness

Spec == Init /\ [][Next]_vars

-----------------------------------------------------------------------------
(***************************************************************************)
(* The versions are numbered without a gap, the bank knows the last number *)
(* and only that version is ever active, whatever updates overlap with     *)
(* publications and withdrawals.                                           *)
(***************************************************************************)
ActiveIsLatest ==
    bank # None => Known(pubs) = 1..bank.latest /\ ActiveVersions(pubs) \subseteq {bank.latest}

(***************************************************************************)
(* The bank and its publications are consistent at every step: every       *)
(* variable has its type, and only the latest version is active.           *)
(***************************************************************************)
Consistent == TypeOK /\ ActiveIsLatest

(***************************************************************************)
(* Whoever has no role in the bank is shown, may copy or is subscribed to  *)
(* a version only if it was open to everyone at one moment of the request, *)
(* or is the one the user was subscribed to: mixing a visibility, a        *)
(* publication and a subscription read at different times shows nothing    *)
(* that was never open.                                                    *)
(***************************************************************************)
OpenWhenTaken ==
    \A w \in Worker : job[w] # Idle =>
        LET j == job[w] IN
        /\ j.pc = "answer" /\ j.shown \in Version => j.shown \in met[w].ever \cup {j.own}
        /\ j.pc = "commit" /\ j.req.kind = "subscribe" => j.active \in met[w].ever

(***************************************************************************)
(* A user who has a role, a subscription or the same open version during   *)
(* the whole request is not told that the bank does not exist, whatever is *)
(* committed between its reads.                                            *)
(***************************************************************************)
SteadyReadersServed ==
    \A w \in Worker :
        job[w].pc = "answer" /\ job[w].req.kind = "read" /\ job[w].shown = None
        => met[w].always = {}

(***************************************************************************)
(* A request that reads the bank in several statements answers as if its   *)
(* reads had been one: it offers nothing that was never open, and hides    *)
(* nothing from who could read all along.                                  *)
(***************************************************************************)
ReadsAsOne == OpenWhenTaken /\ SteadyReadersServed

(***************************************************************************)
(* A subscription moves only forward, and to the version that is active at *)
(* that moment.                                                            *)
(***************************************************************************)
OnlyForward ==
    \A u \in User :
        subs[u] # None /\ subs'[u] \notin {None, subs[u]}
        => subs'[u] > subs[u] /\ pubs[subs'[u]].active
MovesToActive == [][OnlyForward]_vars
=============================================================================
