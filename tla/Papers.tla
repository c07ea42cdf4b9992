------------------------------- MODULE Papers -------------------------------
(***************************************************************************)
(* A paper, the questions it refers to, and the cache of the metadata that *)
(* is computed from the questions (services/papers.py, questions.py,       *)
(* metadata.py, repositories.py).                                          *)
(*                                                                         *)
(* A request about a paper reads it into an entity, with one statement for *)
(* the row, one for its links and one for the names of their questions,    *)
(* and closes the session; it changes the entity and a second session      *)
(* writes the whole of it back.  The other requests commit in between.     *)
(* The flush of the second session takes the row lock of the paper with    *)
(* its first statement and the commit follows it, so the two are one step. *)
(* A question is what it is named: its text, its owner, its revisions and  *)
(* corrections are left out, and each question has a subject of its own.   *)
(* Of the columns of a paper its title is kept, of a link its number.      *)
(***************************************************************************)
EXTENDS Naturals, FiniteSets, Sequences, SequencesExt

CONSTANTS
    Question,  \* questions there may be
    Title,     \* titles requests give
    Thread,    \* threads that serve requests
    MaxOrder,  \* bound on the order numbers
    Asked,     \* the requests about the paper that clients make
    Null

ASSUME MaxOrderAssumption == MaxOrder \in Nat
ASSUME NullAssumption == Null \notin Question \cup Title

Order == 1..MaxOrder

VARIABLES
    exists,  \* the rows of questions
    paper,   \* the row of papers, Null before its creation: its title
    links,   \* paper_questions: the number of each question of the paper
    cached,  \* the entry of the metadata cache, Null when there is none
    unsure,  \* a load overlapped a write, or an invalidation failed, for that entry
    work     \* what each thread is doing

tables == <<exists, paper, links>>
paperVars == <<tables, cached, unsure, work>>

Links == [Question -> Order \cup {Null}]
In(k) == {q \in Question : k[q] # Null}
\* uq_paper_question_order.
Unique(k) == \A p, q \in In(k) : p # q => k[p] # k[q]
NoLink == [q \in Question |-> Null]

Entity == [title: Title \cup {Null}, links: Links]
PaperRequest ==
    [kind: {"rename"}, title: Title]
    \cup [kind: {"add"}, question: Question, order: Order]
    \cup [kind: {"remove"}, question: Question]
    \cup [kind: {"reorder", "replace"}, links: {k \in Links : Unique(k)}]
    \cup [kind: {"export"}, by: {"paper", "categorized"}]
ASSUME RequestAssumption == Asked \subseteq PaperRequest
QuestionRequest == [kind: {"update", "delete"}, question: Question]

\* A paper request keeps the entity (title and links; no title when the row has
\* it already), what it asks for, the
\* links its second session finds, and whether another save of the paper or a
\* deletion of a question was committed since its first read.  An export has no
\* second session; old are the links that have stayed as they were since it began.
NoWork == [pc |-> "idle"]
Invalidating == [pc |-> "invalidate"]
Work == {NoWork}
        \cup [pc: {"links", "names", "resolve", "flush", "expand"}, req: PaperRequest,
              base: Entity, old: Links, raced: BOOLEAN]
        \cup [pc: {"listed"}, questions: SeqOf(Question, MaxOrder)]
        \cup [pc: {"write"}, req: QuestionRequest]
        \cup {Invalidating}
        \cup [pc: {"store"}, found: SUBSET Question, raced: BOOLEAN]

(***************************************************************************)
(* The type invariant: every row and job is of its kind, and the numbers   *)
(* in a paper are unique.                                                  *)
(***************************************************************************)
PapersTypeOK ==
    /\ exists \subseteq Question
    /\ paper \in Title \cup {Null}
    /\ links \in Links /\ Unique(links)
    /\ cached \in (SUBSET Question) \cup {Null}
    /\ unsure \in BOOLEAN
    /\ work \in [Thread -> Work]

PapersInit ==
    /\ exists = {}
    /\ paper = Null
    /\ links = NoLink
    /\ cached = Null /\ unsure = FALSE
    /\ work = [w \in Thread |-> NoWork]

OnPaper(j) == j.pc \in {"links", "names", "resolve", "flush", "expand"}
Exporting(j) == OnPaper(j) /\ j.req.kind = "export"
Loading(j) == j.pc = "store"

\* The work of w becomes j by a commit that the requests in flight may have
\* missed: those of the paper, if it wrote links, and the load of the
\* metadata, if it wrote questions.
Overtaking(w, j, onLinks, onQuestions) ==
    work' = [v \in Thread |->
              IF v = w THEN j
              ELSE IF onLinks /\ Exporting(work[v])
                   THEN [work[v] EXCEPT !.old = [q \in Question |->
                           IF @[q] = links'[q] THEN @[q] ELSE Null]]
              ELSE IF (onLinks /\ OnPaper(work[v])) \/ (onQuestions /\ Loading(work[v]))
                   THEN [work[v] EXCEPT !.raced = TRUE]
              ELSE work[v]]

(***************************************************************************)
(* create_paper: its questions exist when it is committed (404 or 422      *)
(* otherwise), and there is at least one.                                  *)
(***************************************************************************)
CreatePaper(t, k) ==
    /\ paper = Null
    /\ In(k) # {} /\ In(k) \subseteq exists /\ Unique(k)
    /\ paper' = t
    /\ links' = k
    /\ UNCHANGED <<exists, cached, unsure, work>>

(***************************************************************************)
(* get_paper_or_404: the row, its links, and the names of the questions.   *)
(***************************************************************************)
StartPaper(w, q) ==
    /\ work[w] = NoWork
    /\ paper # Null
    /\ work' = [work EXCEPT ![w] =
                 [pc |-> "links", req |-> q, base |-> [title |-> paper, links |-> NoLink],
                  old |-> IF q.kind = "export" THEN links ELSE NoLink, raced |-> FALSE]]
    /\ UNCHANGED <<tables, cached, unsure>>

ReadLinks(w) ==
    /\ work[w].pc = "links"
    /\ work' = [work EXCEPT ![w].pc = "names", ![w].base.links = links]
    /\ UNCHANGED <<tables, cached, unsure>>

\* The request is one this entity admits: 409, 422 and 404 otherwise.
Admits(q, k) ==
    CASE q.kind \in {"rename", "replace"} -> TRUE
      [] q.kind = "add" -> k[q.question] = Null /\ \A p \in In(k) : k[p] # q.order
      [] q.kind = "remove" -> k[q.question] # Null
      [] q.kind = "reorder" -> In(q.links) = In(k)

\* The entity as the request changes it.
Changed(q, e) ==
    [title |-> IF q.kind = "rename" THEN q.title ELSE e.title,
     links |-> CASE q.kind = "rename" -> e.links
                 [] q.kind = "add" -> [e.links EXCEPT ![q.question] = q.order]
                 [] q.kind = "remove" -> [e.links EXCEPT ![q.question] = Null]
                 [] q.kind \in {"reorder", "replace"} -> q.links]

\* A question that is gone by now has no name: a request that keeps its link
\* finds no question of that name when it saves, or (a reorder) cannot list it.
Nameless(j) == In(j.base.links) \ exists

ReadNames(w) ==
    LET j == work[w] IN
    /\ j.pc = "names" /\ ~Exporting(j)
    /\ work' = IF /\ Nameless(j) = {} \/ j.req.kind = "replace"
                  /\ Admits(j.req, j.base.links)
               THEN [work EXCEPT ![w].pc = "resolve", ![w].base = Changed(j.req, j.base)]
               ELSE [work EXCEPT ![w] = NoWork]
    /\ UNCHANGED <<tables, cached, unsure>>

\* The second session looks the questions up (404 if one is missing), then
\* the row and the links it replaces.  A title that is the row's is not written.
Resolve(w) ==
    /\ work[w].pc = "resolve"
    /\ work' = IF In(work[w].base.links) \subseteq exists
               THEN [work EXCEPT ![w].pc = "flush", ![w].old = links,
                                ![w].base.title = IF @ = paper THEN Null ELSE @]
               ELSE [work EXCEPT ![w] = NoWork]
    /\ UNCHANGED <<tables, cached, unsure>>

(***************************************************************************)
(* The read of the questions of a paper, expanded or exported: the names,  *)
(* then the rows of these names.  A question that is gone is left out.     *)
(***************************************************************************)
Existing(k) == [q \in Question |-> IF q \in exists THEN k[q] ELSE Null]

ExportNames(w) ==
    /\ work[w].pc = "names" /\ Exporting(work[w])
    /\ work' = [work EXCEPT ![w].pc = "expand", ![w].base.links = Existing(@)]
    /\ UNCHANGED <<tables, cached, unsure>>

\* order_export_questions: in the order of the numbers, or by type first.
Before(k, by, type, p, q) ==
    IF by = "paper" \/ type[p] = type[q] THEN k[p] < k[q] ELSE type[p] < type[q]
Listing(k, by, type) ==
    CHOOSE list \in SetToSeqs(In(k)) :
        \A i, j \in DOMAIN list : i < j => Before(k, by, type, list[i], list[j])

ExpandedToGap(k) ==  \* mutant: a question that is gone ends the list
    [q \in Question |->
        IF q \in In(k) /\ \E p \in In(k) \ exists : k[p] <= k[q] THEN Null ELSE k[q]]
Expanded(k) == Existing(k)

\* Of a question its type is read here; an update may have given it any.
Expand(w) ==
    /\ work[w].pc = "expand"
    /\ \E type \in [Question -> 1..2] :
          work' = [work EXCEPT ![w] =
                    [pc |-> "listed",
                     questions |-> Listing(Expanded(work[w].base.links), work[w].req.by, type)]]
    /\ UNCHANGED <<tables, cached, unsure>>

AnswerExport(w) ==
    /\ work[w].pc = "listed"
    /\ work' = [work EXCEPT ![w] = NoWork]
    /\ UNCHANGED <<tables, cached, unsure>>

(***************************************************************************)
(* The flush: a link whose question was linked before is updated, in the   *)
(* order of the new numbers; then the others are inserted; then the links  *)
(* that are left are deleted.  The numbers are unique after every row.     *)
(***************************************************************************)
UpdatedNone(j) == {}  \* mutant: the links are inserted anew, whatever was there
Updated(j) == In(j.old) \cap In(j.base.links)
Added(j) == In(j.base.links) \ Updated(j)

\* A link to update is gone (500).
Stale(j) == ~(Updated(j) \subseteq In(links))

Unlinked(j) == FALSE  \* mutant: nothing ties a link to the row of its question
\* A question to link is gone, or another save has linked it (422).
Refers(j) == ~(Added(j) \subseteq exists \ In(links))

\* A number is still held by another link when a row takes it (422).
Taken(j) ==
    \/ \E q \in Updated(j), p \in In(links) :
          /\ p # q /\ links[p] = j.base.links[q]
          /\ p \in Updated(j) => j.base.links[p] > j.base.links[q]
    \/ \E q \in Added(j), p \in In(links) \ Updated(j) : links[p] = j.base.links[q]

SavePaper(w) ==
    LET j == work[w] IN
    /\ j.pc = "flush"
    /\ ~Stale(j) /\ ~Refers(j) /\ ~Taken(j)
    /\ paper' = IF j.base.title = Null THEN paper ELSE j.base.title
    /\ links' = [q \in Question |->
                   IF j.base.links[q] # Null THEN j.base.links[q]
                   ELSE IF j.old[q] # Null THEN Null ELSE links[q]]
    /\ Overtaking(w, NoWork, TRUE, FALSE)
    /\ UNCHANGED <<exists, cached, unsure>>

RefusePaper(w) ==
    LET j == work[w] IN
    /\ j.pc = "flush"
    /\ Stale(j) \/ Refers(j) \/ Taken(j)
    /\ work' = [work EXCEPT ![w] = NoWork]
    /\ UNCHANGED <<tables, cached, unsure>>

(***************************************************************************)
(* Questions: the entity is read, then a second session writes or deletes  *)
(* the row and commits, then the metadata cache is invalidated.            *)
(***************************************************************************)
CreateQuestion(w, q) ==
    /\ work[w] = NoWork
    /\ q \notin exists
    /\ exists' = exists \cup {q}
    /\ Overtaking(w, Invalidating, FALSE, TRUE)
    /\ UNCHANGED <<paper, links, cached, unsure>>

StartQuestion(w, q) ==
    /\ work[w] = NoWork
    /\ q.question \in exists
    /\ work' = [work EXCEPT ![w] = [pc |-> "write", req |-> q]]
    /\ UNCHANGED <<tables, cached, unsure>>

\* update_with_revision: a row that is gone is inserted again, with its
\* identity and without its links.
UpdateQuestion(w) ==
    /\ work[w].pc = "write" /\ work[w].req.kind = "update"
    /\ exists' = exists \cup {work[w].req.question}
    /\ Overtaking(w, Invalidating, FALSE, TRUE)
    /\ UNCHANGED <<paper, links, cached, unsure>>

\* The links to the row go with it (ON DELETE CASCADE).
DeleteQuestion(w) ==
    LET q == work[w].req.question IN
    /\ work[w].pc = "write" /\ work[w].req.kind = "delete"
    /\ q \in exists
    /\ exists' = exists \ {q}
    /\ links' = [links EXCEPT ![q] = Null]
    /\ Overtaking(w, Invalidating, TRUE, TRUE)
    /\ UNCHANGED <<paper, cached, unsure>>

\* The row is gone already (500).
DeleteTwice(w) ==
    /\ work[w].pc = "write" /\ work[w].req.kind = "delete"
    /\ work[w].req.question \notin exists
    /\ work' = [work EXCEPT ![w] = NoWork]
    /\ UNCHANGED <<tables, cached, unsure>>

Invalidate(w) ==
    /\ work[w].pc = "invalidate"
    /\ cached' = Null /\ unsure' = FALSE
    /\ work' = [work EXCEPT ![w] = NoWork]
    /\ UNCHANGED tables

\* Redis does not answer, or the process ends: the failure is swallowed.
InvalidateFails(w) ==
    /\ work[w].pc = "invalidate"
    /\ unsure' = (unsure \/ cached # Null)
    /\ work' = [work EXCEPT ![w] = NoWork]
    /\ UNCHANGED <<tables, cached>>

\* fork_bank inserts questions and invalidates nothing.
Fork(q) ==
    /\ q \notin exists
    /\ exists' = exists \cup {q}
    /\ unsure' = (unsure \/ cached # Null)
    /\ work' = [v \in Thread |->
                  IF Loading(work[v]) THEN [work[v] EXCEPT !.raced = TRUE] ELSE work[v]]
    /\ UNCHANGED <<paper, links, cached>>

(***************************************************************************)
(* _with_redis_cache: without an entry, or without an answer from Redis,   *)
(* the metadata is loaded and stored.  A store that fails changes nothing. *)
(***************************************************************************)
LoadMetadata(w) ==
    /\ work[w] = NoWork
    /\ work' = [work EXCEPT ![w] = [pc |-> "store", found |-> exists, raced |-> FALSE]]
    /\ UNCHANGED <<tables, cached, unsure>>

StoreMetadata(w) ==
    /\ work[w].pc = "store"
    /\ cached' = work[w].found /\ unsure' = work[w].raced
    /\ work' = [work EXCEPT ![w] = NoWork]
    /\ UNCHANGED tables

\* CACHE_TTL.
Expire ==
    /\ cached # Null
    /\ cached' = Null /\ unsure' = FALSE
    /\ UNCHANGED <<tables, work>>

PapersNext ==
    \/ \E t \in Title, k \in Links : CreatePaper(t, k)
    \/ \E w \in Thread :
        \/ \E q \in Asked : StartPaper(w, q)
        \/ ReadLinks(w) \/ ReadNames(w) \/ Resolve(w) \/ SavePaper(w) \/ RefusePaper(w)
        \/ ExportNames(w) \/ Expand(w) \/ AnswerExport(w)
        \/ \E q \in Question : CreateQuestion(w, q)
        \/ \E q \in QuestionRequest : StartQuestion(w, q)
        \/ UpdateQuestion(w) \/ DeleteQuestion(w) \/ DeleteTwice(w)
        \/ Invalidate(w) \/ InvalidateFails(w)
        \/ LoadMetadata(w) \/ StoreMetadata(w)
    \/ \E q \in Question : Fork(q)
    \/ Expire

PapersSpec == PapersInit /\ [][PapersNext]_paperVars

-----------------------------------------------------------------------------
(***************************************************************************)
(* A paper refers to questions that exist: neither a save that resolved a  *)
(* question before its deletion, nor an update that inserts a deleted      *)
(* question again, leaves a link to nothing.                               *)
(***************************************************************************)
LinksExist == In(links) \subseteq exists

(***************************************************************************)
(* A save that no other save and no deletion overlapped leaves exactly     *)
(* what it was asked for: it drops, adds or renumbers no other question    *)
(* and keeps the title.  It is refused only when it gives a question the   *)
(* number that another question of the paper has: every reorder onto free  *)
(* numbers, every addition and every removal is stored.                    *)
(***************************************************************************)
StoredAsAsked(q) ==
    /\ paper' = IF q.kind = "rename" THEN q.title ELSE paper
    /\ \A p \in Question :
         CASE q.kind \in {"reorder", "replace"} -> links'[p] = q.links[p]
           [] q.kind = "add" /\ p = q.question -> links'[p] = q.order
           [] q.kind = "remove" /\ p = q.question -> links'[p] = Null
           [] OTHER -> links'[p] = links[p]

RenumbersOnto(j) ==
    \E q \in In(j.base.links), p \in In(j.old) : p # q /\ j.base.links[q] = j.old[p]

AloneExact ==
    [][\A w \in Thread : OnPaper(work[w]) /\ ~work[w].raced =>
        /\ SavePaper(w) => StoredAsAsked(work[w].req)
        /\ RefusePaper(w) => RenumbersOnto(work[w])]_paperVars

(***************************************************************************)
(* An export lists no question twice and none that is not in the paper it  *)
(* read, and whatever is saved or deleted meanwhile it lists every         *)
(* question that stays in the paper with its number, in the order of the   *)
(* numbers unless it is grouped by type.                                   *)
(***************************************************************************)
ExportWhole ==
    [][\A w \in Thread : Expand(w) =>
        LET j == work[w]
            list == work'[w].questions
            At(q) == CHOOSE i \in DOMAIN list : list[i] = q
        IN /\ IsInjective(list)
           /\ In(j.old) \subseteq ToSet(list) /\ ToSet(list) \subseteq In(j.base.links)
           /\ j.req.by = "paper" =>
                \A p, q \in In(j.old) : j.old[p] < j.old[q] => At(p) < At(q)]_paperVars

(***************************************************************************)
(* The cached metadata is that of the questions, but for the time between  *)
(* a commit and its invalidation, an entry whose load overlapped a write,  *)
(* and one that a failed or forgotten invalidation left behind.            *)
(***************************************************************************)
CacheTrueUnlessUnsure ==
    cached \notin {Null, exists} => unsure \/ \E w \in Thread : work[w].pc = "invalidate"

(***************************************************************************)
(* Papers, questions and the cache are consistent at every step: every     *)
(* variable has its type, links refer to questions, and the cache is true. *)
(***************************************************************************)
PapersConsistent == PapersTypeOK /\ LinksExist /\ CacheTrueUnlessUnsure
=============================================================================
